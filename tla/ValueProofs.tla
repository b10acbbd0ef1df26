----------------------------- MODULE ValueProofs -----------------------------
(***************************************************************************)
(* Theorems about the values of the library: pointers, variants,           *)
(* passwords, traces, the time and the conversions, for every value of     *)
(* their constants.                                                        *)
(*                                                                         *)
(*   SmartPtr        PointersTyped, HeldObjectsLive, NoObjectLeaks: by     *)
(*                   Counting, what the count of an object has to do with  *)
(*                   its owners, also after a free() on a shared pointer;  *)
(*                   a step does one of six things to an object, and a     *)
(*                   lemma for each shows that the object stays Sound      *)
(*   Variant         TextsHaveOneOwner, TextsReadAsNumbers: by TextOfReads *)
(*                   for what a value gives, and UnwrittenAreTorn          *)
(*   PasswordKeeper  SecretsAreKept: by SecretsConcealed                   *)
(*   StackTrace      TracesAreOwn: by MapIsReal, what the map has under    *)
(*                   the id of a thread                                    *)
(*   TimerClock      SleepIsBounded, NoTimerIsTwiceAsFast: by OnTime, how  *)
(*                   early or late the thread may be between two ticks     *)
(*   Codecs          TextsComeBack, SecretsComeBack: what is read is what  *)
(*                   was written.  A definition by recursion has the values*)
(*                   it should have (RecursionExists), and what holds of 0 *)
(*                   and of k when of k - 1 holds of all (AllUpTo): both by*)
(*                   the least number of a set (LeastNumber)               *)
(***************************************************************************)
EXTENDS MCParts, SequenceTheorems, FiniteSetTheorems, WellFoundedInduction, TLAPS

-----------------------------------------------------------------------------
\* smart_ptr

Sound(o) ==
  /\ object[o] = "alive" => m_pnPtrCnt[o] > 0
  /\ Owners(o) # {} => object[o] # "fresh"
  /\ ~freedShared => Cardinality(Owners(o)) <= m_pnPtrCnt[o]
  /\ ~freedShared /\ Owners(o) # {} => object[o] = "alive"
  /\ ~freedShared /\ ~sameAssigned /\ object[o] = "alive" =>
       Cardinality(Owners(o)) = m_pnPtrCnt[o]

Counting == \A o \in Objects : Sound(o)

PointerInv == SmartPtrTypeOK /\ Counting

\* The ghosts only rise.
GhostsRise == (freedShared => freedShared') /\ (sameAssigned => sameAssigned')

-----------------------------------------------------------------------------
LEMMA OwnersFinite ==
  ASSUME SmartPtrTypeOK, NEW o \in Objects
  PROVE  /\ IsFiniteSet(Owners(o))
         /\ Cardinality(Owners(o)) \in Nat
         /\ Cardinality(Owners(o)) = 0 <=> Owners(o) = {}
<1>1. Owners(o) \subseteq Pointers
  BY DEF SmartPtrTypeOK, Owners
<1>2. IsFiniteSet(Owners(o))
  BY <1>1, FS_Subset, SmartPtrAssumption
<1>3. QED
  BY <1>2, FS_CardinalityType, FS_EmptySet

\* Nothing happens to the object.
LEMMA Untouched ==
  ASSUME NEW o \in Objects, Sound(o), GhostsRise,
         Owners(o)' = Owners(o), m_pnPtrCnt'[o] = m_pnPtrCnt[o], object'[o] = object[o]
  PROVE  Sound(o)'
  BY DEF Sound, GhostsRise

\* A pointer is added and counted.
LEMMA Joined ==
  ASSUME NEW o \in Objects, NEW p, SmartPtrTypeOK, Sound(o), GhostsRise,
         object[o] = "alive", p \notin Owners(o),
         Owners(o)' = Owners(o) \cup {p},
         m_pnPtrCnt'[o] = m_pnPtrCnt[o] + 1, object'[o] = object[o]
  PROVE  Sound(o)'
<1>1. Cardinality(Owners(o)') = Cardinality(Owners(o)) + 1
  BY OwnersFinite, FS_AddElement
<1>2. Cardinality(Owners(o)) \in Nat /\ m_pnPtrCnt[o] \in Nat
  BY OwnersFinite DEF SmartPtrTypeOK
<1>3. QED
  BY <1>1, <1>2 DEF Sound, GhostsRise

\* A pointer is counted once more: it is assigned a pointer to the same object.
LEMMA Recounted ==
  ASSUME NEW o \in Objects, SmartPtrTypeOK, Sound(o), GhostsRise, sameAssigned',
         Owners(o)' = Owners(o),
         m_pnPtrCnt'[o] = m_pnPtrCnt[o] + 1, object'[o] = object[o]
  PROVE  Sound(o)'
<1>1. Cardinality(Owners(o)) \in Nat /\ m_pnPtrCnt[o] \in Nat
  BY OwnersFinite DEF SmartPtrTypeOK
<1>2. QED
  BY <1>1 DEF Sound, GhostsRise

\* A pointer is removed and counted out; the last one deletes the object.
LEMMA Left ==
  ASSUME NEW o \in Objects, NEW p, SmartPtrTypeOK, Sound(o), GhostsRise,
         object[o] = "alive", p \in Owners(o),
         Owners(o)' = Owners(o) \ {p},
         m_pnPtrCnt'[o] = m_pnPtrCnt[o] - 1,
         object'[o] = IF m_pnPtrCnt[o] = 1 THEN "deleted" ELSE object[o]
  PROVE  Sound(o)'
<1>1. /\ IsFiniteSet(Owners(o)')
      /\ Cardinality(Owners(o)') = Cardinality(Owners(o)) - 1
  BY OwnersFinite, FS_RemoveElement
<1>2. Cardinality(Owners(o)') = 0 => Owners(o)' = {}
  BY <1>1, FS_EmptySet
<1>3. Cardinality(Owners(o)) \in Nat \ {0} /\ m_pnPtrCnt[o] \in Nat
  BY OwnersFinite DEF SmartPtrTypeOK
<1>4. m_pnPtrCnt[o] = 1 /\ ~freedShared' => Owners(o)' = {}
  BY <1>1, <1>2, <1>3 DEF Sound, GhostsRise
<1>5. QED
  BY <1>1, <1>3, <1>4 DEF Sound, GhostsRise

\* free() counts out a pointer that stays.
LEMMA FreedShared ==
  ASSUME NEW o \in Objects, SmartPtrTypeOK, Sound(o), freedShared',
         object[o] = "alive", m_pnPtrCnt[o] # 1,
         Owners(o)' = Owners(o),
         m_pnPtrCnt'[o] = m_pnPtrCnt[o] - 1, object'[o] = object[o]
  PROVE  Sound(o)'
<1>1. m_pnPtrCnt[o] \in Nat
  BY DEF SmartPtrTypeOK
<1>2. QED
  BY <1>1 DEF Sound

\* The object is made, for one pointer.
LEMMA Made ==
  ASSUME NEW o \in Objects, NEW p, Owners(o)' = {p},
         m_pnPtrCnt'[o] = 1, object'[o] = "alive"
  PROVE  Sound(o)'
<1>1. Cardinality(Owners(o)') = 1
  BY FS_Singleton
<1>2. QED
  BY <1>1 DEF Sound

-----------------------------------------------------------------------------
\* Every step keeps the type invariant and every object sound.  The proof takes the
\* actions one by one and under each the type, then an object.
LEMMA PointersStep ==
  ASSUME PointerInv, [Next]_ptrVars
  PROVE  PointerInv'
<1>. USE DEF PointerInv
<1>0. SmartPtrTypeOK /\ (\A o \in Objects : Sound(o)) /\ NULL \notin Objects
  BY SmartPtrAssumption DEF Counting
<1>1. ASSUME NEW p \in live, m_pValue[p] # NULL, ~Dangling
      PROVE  /\ m_pValue[p] \in Objects /\ p \in Pointers
             /\ p \in Owners(m_pValue[p])
             /\ object[m_pValue[p]] = "alive"
             /\ m_pnPtrCnt[m_pValue[p]] \in Nat \ {0}
  <2>1. m_pValue[p] \in Objects /\ p \in Pointers /\ p \in Owners(m_pValue[p])
    BY <1>0, <1>1 DEF SmartPtrTypeOK, Owners
  <2>2. object[m_pValue[p]] = "alive"
    BY <1>0, <1>1, <2>1 DEF SmartPtrTypeOK, Sound, Dangling
  <2>3. QED
    BY <1>0, <2>1, <2>2 DEF SmartPtrTypeOK, Sound
<1>2. ASSUME NEW p \in Pointers, NEW v \in Objects \cup {NULL}, ~Dangling, Construct(p, v)
      PROVE  PointerInv'
  <2>1. SmartPtrTypeOK'
    BY <1>0, <1>2 DEF SmartPtrTypeOK, Construct, ghosts
  <2>2. ASSUME NEW o \in Objects  PROVE Sound(o)'
    <3>1. CASE o = v
      <4>1. Owners(o) = {}
        BY <1>0, <1>2, <3>1 DEF Construct, Sound
      <4>2. Owners(o)' = {p}
        BY <1>0, <1>2, <3>1, <4>1 DEF Construct, Owners, SmartPtrTypeOK
      <4>3. m_pnPtrCnt'[o] = 1 /\ object'[o] = "alive"
        BY <1>2, <3>1 DEF Construct
      <4>4. QED
        BY <4>2, <4>3, Made
    <3>2. CASE o # v
      <4>1. Owners(o)' = Owners(o)
        BY <1>0, <1>2, <3>2 DEF Construct, Owners, SmartPtrTypeOK
      <4>2. m_pnPtrCnt'[o] = m_pnPtrCnt[o] /\ object'[o] = object[o] /\ GhostsRise
        BY <1>2, <3>2 DEF Construct, GhostsRise, ghosts
      <4>3. QED
        BY <1>0, <4>1, <4>2, Untouched
    <3>3. QED
      BY <3>1, <3>2
  <2>3. QED
    BY <2>1, <2>2 DEF Counting
<1>3. ASSUME NEW p \in Pointers, ~Dangling, Free(p)
      PROVE  PointerInv'
  <2>0. p \in live
    BY <1>3 DEF Free
  <2>1. SmartPtrTypeOK'
    <3>1. CASE m_pValue[p] = NULL
      BY <1>0, <1>3, <3>1 DEF SmartPtrTypeOK, Free
    <3>2. CASE m_pValue[p] # NULL
      BY <1>0, <1>1, <1>3, <2>0, <3>2 DEF SmartPtrTypeOK, Free, Released
    <3>3. QED
      BY <3>1, <3>2
  <2>2. GhostsRise
    BY <1>3 DEF Free, GhostsRise
  <2>3. ASSUME NEW o \in Objects  PROVE Sound(o)'
    <3>1. CASE o # m_pValue[p]
      <4>1. Owners(o)' = Owners(o)
        BY <1>0, <1>3, <3>1 DEF Free, Owners, SmartPtrTypeOK
      <4>2. m_pnPtrCnt'[o] = m_pnPtrCnt[o] /\ object'[o] = object[o]
        BY <1>0, <1>1, <1>3, <2>0, <3>1 DEF Free, Released, SmartPtrTypeOK
      <4>3. QED
        BY <1>0, <2>2, <4>1, <4>2, Untouched
    <3>2. CASE o = m_pValue[p]
      <4>1. /\ m_pValue[p] # NULL /\ p \in Owners(o) /\ object[o] = "alive"
            /\ m_pnPtrCnt'[o] = m_pnPtrCnt[o] - 1
            /\ object'[o] = IF m_pnPtrCnt[o] = 1 THEN "deleted" ELSE object[o]
        BY <1>0, <1>1, <1>3, <2>0, <3>2 DEF Free, Released, Last, SmartPtrTypeOK
      <4>2. CASE m_pnPtrCnt[o] = 1
        <5>1. Owners(o)' = Owners(o) \ {p}
          BY <1>0, <1>3, <3>2, <4>1, <4>2 DEF Free, Last, Owners, SmartPtrTypeOK
        <5>2. QED
          BY <1>0, <2>2, <4>1, <5>1, Left
      <4>3. CASE m_pnPtrCnt[o] # 1
        <5>1. Owners(o)' = Owners(o) /\ freedShared'
          BY <1>0, <1>3, <3>2, <4>1, <4>3 DEF Free, Last, Owners, SmartPtrTypeOK
        <5>2. QED
          BY <1>0, <4>1, <4>3, <5>1, FreedShared
      <4>4. QED
        BY <4>2, <4>3
    <3>3. QED
      BY <3>1, <3>2
  <2>4. QED
    BY <2>1, <2>3 DEF Counting
<1>4. ASSUME NEW p \in Pointers, ~Dangling, Destroy(p)
      PROVE  PointerInv'
  <2>0. p \in live /\ GhostsRise
    BY <1>4 DEF Destroy, GhostsRise, ghosts
  <2>1. SmartPtrTypeOK'
    <3>1. CASE m_pValue[p] = NULL
      BY <1>0, <1>4, <3>1 DEF SmartPtrTypeOK, Destroy, ghosts
    <3>2. CASE m_pValue[p] # NULL
      BY <1>0, <1>1, <1>4, <2>0, <3>2 DEF SmartPtrTypeOK, Destroy, Released, ghosts
    <3>3. QED
      BY <3>1, <3>2
  <2>2. ASSUME NEW o \in Objects  PROVE Sound(o)'
    <3>1. CASE o # m_pValue[p]
      <4>1. Owners(o)' = Owners(o)
        BY <1>0, <1>4, <3>1 DEF Destroy, Owners, SmartPtrTypeOK
      <4>2. m_pnPtrCnt'[o] = m_pnPtrCnt[o] /\ object'[o] = object[o]
        BY <1>0, <1>1, <1>4, <2>0, <3>1 DEF Destroy, Released, SmartPtrTypeOK
      <4>3. QED
        BY <1>0, <2>0, <4>1, <4>2, Untouched
    <3>2. CASE o = m_pValue[p]
      <4>1. /\ p \in Owners(o) /\ object[o] = "alive"
            /\ m_pnPtrCnt'[o] = m_pnPtrCnt[o] - 1
            /\ object'[o] = IF m_pnPtrCnt[o] = 1 THEN "deleted" ELSE object[o]
        BY <1>0, <1>1, <1>4, <2>0, <3>2 DEF Destroy, Released, Last, SmartPtrTypeOK
      <4>2. Owners(o)' = Owners(o) \ {p}
        BY <1>0, <1>4, <3>2 DEF Destroy, Owners, SmartPtrTypeOK
      <4>3. QED
        BY <1>0, <2>0, <4>1, <4>2, Left
    <3>3. QED
      BY <3>1, <3>2
  <2>3. QED
    BY <2>1, <2>2 DEF Counting
<1>5. ASSUME NEW p \in Pointers, NEW q \in Pointers, ~Dangling, Assign(p, q)
      PROVE  PointerInv'
  <2>0. p \in live /\ q \in live /\ GhostsRise
    BY <1>5 DEF Assign, GhostsRise
  <2>1. m_pValue[p] # NULL =>
          /\ m_pValue[p] \in Objects /\ p \in Owners(m_pValue[p])
          /\ object[m_pValue[p]] = "alive" /\ m_pnPtrCnt[m_pValue[p]] \in Nat \ {0}
    BY <1>1, <1>5, <2>0
  <2>2. m_pValue[q] # NULL => m_pValue[q] \in Objects /\ object[m_pValue[q]] = "alive"
    BY <1>1, <1>5, <2>0
  <2>3. SmartPtrTypeOK'
    <3>1. m_pValue' \in [Pointers -> Objects \cup {NULL}]
      BY <1>0, <1>5 DEF SmartPtrTypeOK, Assign
    <3>2. m_pnPtrCnt' \in [Objects -> Nat]
      <4>1. ASSUME NEW o \in Objects
            PROVE  m_pnPtrCnt[o] + (IF Joins(q) /\ o = m_pValue[q] THEN 1 ELSE 0)
                     - (IF Leaves(p, q) /\ o = m_pValue[p] THEN 1 ELSE 0) \in Nat
        BY <1>0, <2>1 DEF SmartPtrTypeOK, Leaves, Joins
      <4>2. QED
        BY <1>5, <4>1 DEF Assign
    <3>3. object' \in [Objects -> {"fresh", "alive", "deleted"}]
      BY <1>0, <1>5 DEF SmartPtrTypeOK, Assign, Released
    <3>4. QED
      BY <1>0, <1>5, <3>1, <3>2, <3>3 DEF SmartPtrTypeOK, Assign
  <2>4. ASSUME NEW o \in Objects  PROVE Sound(o)'
    <3>0. /\ m_pnPtrCnt'[o] = m_pnPtrCnt[o] + (IF Joins(q) /\ o = m_pValue[q] THEN 1 ELSE 0)
                                - (IF Leaves(p, q) /\ o = m_pValue[p] THEN 1 ELSE 0)
          /\ m_pnPtrCnt[o] \in Nat
          /\ object'[o] = IF Leaves(p, q) /\ o = m_pValue[p] /\ m_pnPtrCnt[o] = 1
                          THEN "deleted" ELSE object[o]
      BY <1>0, <1>5, <2>1 DEF Assign, Released, Last, Leaves, SmartPtrTypeOK
    <3>1. CASE o # m_pValue[p] /\ o # m_pValue[q]
      <4>1. Owners(o)' = Owners(o)
        BY <1>0, <1>5, <3>1 DEF Assign, Owners, SmartPtrTypeOK
      <4>2. QED
        BY <1>0, <2>0, <3>0, <3>1, <4>1, Untouched
    <3>2. CASE o = m_pValue[p] /\ o # m_pValue[q]
      <4>1. Owners(o)' = Owners(o) \ {p}
        BY <1>0, <1>5, <3>2 DEF Assign, Owners, SmartPtrTypeOK
      <4>2. /\ p \in Owners(o) /\ object[o] = "alive"
            /\ m_pnPtrCnt'[o] = m_pnPtrCnt[o] - 1
            /\ object'[o] = IF m_pnPtrCnt[o] = 1 THEN "deleted" ELSE object[o]
        BY <1>0, <2>1, <3>0, <3>2 DEF Leaves
      <4>3. QED
        BY <1>0, <2>0, <4>1, <4>2, Left
    <3>3. CASE o # m_pValue[p] /\ o = m_pValue[q]
      <4>1. Owners(o)' = Owners(o) \cup {p} /\ p \notin Owners(o)
        BY <1>0, <1>5, <3>3 DEF Assign, Owners, SmartPtrTypeOK
      <4>2. /\ object[o] = "alive" /\ object'[o] = object[o]
            /\ m_pnPtrCnt'[o] = m_pnPtrCnt[o] + 1
        BY <1>0, <2>2, <3>0, <3>3 DEF Joins
      <4>3. QED
        BY <1>0, <2>0, <4>1, <4>2, Joined
    <3>4. CASE o = m_pValue[p] /\ o = m_pValue[q]
      <4>1. Owners(o)' = Owners(o)
        BY <1>0, <1>5, <3>4 DEF Assign, Owners, SmartPtrTypeOK
      <4>2. m_pValue[q] # NULL /\ m_pValue[p] = m_pValue[q]
        BY <1>0, <3>4
      <4>3. sameAssigned'
        BY <1>5, <4>2 DEF Assign
      <4>4. object'[o] = object[o] /\ m_pnPtrCnt'[o] = m_pnPtrCnt[o] + 1
        BY <3>0, <3>4, <4>2 DEF Joins, Leaves
      <4>5. QED
        BY <1>0, <2>0, <4>1, <4>3, <4>4, Recounted
    <3>5. QED
      BY <3>1, <3>2, <3>3, <3>4
  <2>5. QED
    BY <2>3, <2>4 DEF Counting
<1>6. ASSUME NEW p \in Pointers, NEW q \in Pointers, ~Dangling, Copy(p, q)
      PROVE  PointerInv'
  <2>0. p \notin live /\ q \in live /\ GhostsRise
    BY <1>6 DEF Copy, GhostsRise, ghosts
  <2>1. SmartPtrTypeOK'
    BY <1>0, <1>6 DEF SmartPtrTypeOK, Copy, ghosts
  <2>2. ASSUME NEW o \in Objects  PROVE Sound(o)'
    <3>1. CASE o # m_pValue[q]
      <4>1. Owners(o)' = Owners(o)
        BY <1>0, <1>6, <3>1 DEF Copy, Owners, SmartPtrTypeOK
      <4>2. m_pnPtrCnt'[o] = m_pnPtrCnt[o] /\ object'[o] = object[o]
        BY <1>0, <1>6, <3>1 DEF Copy, SmartPtrTypeOK
      <4>3. QED
        BY <1>0, <2>0, <4>1, <4>2, Untouched
    <3>2. CASE o = m_pValue[q]
      <4>1. Owners(o)' = Owners(o) \cup {p} /\ p \notin Owners(o)
        BY <1>0, <1>6, <3>2 DEF Copy, Owners, SmartPtrTypeOK
      <4>2. /\ object[o] = "alive" /\ object'[o] = object[o]
            /\ m_pnPtrCnt'[o] = m_pnPtrCnt[o] + 1
        BY <1>0, <1>1, <1>6, <2>0, <3>2 DEF Copy, Joins
      <4>3. QED
        BY <1>0, <2>0, <4>1, <4>2, Joined
    <3>3. QED
      BY <3>1, <3>2
  <2>3. QED
    BY <2>1, <2>2 DEF Counting
<1>7. CASE UNCHANGED ptrVars
  <2>1. SmartPtrTypeOK' /\ GhostsRise
    BY <1>0, <1>7 DEF SmartPtrTypeOK, GhostsRise, ptrVars, ghosts
  <2>2. ASSUME NEW o \in Objects  PROVE Sound(o)'
    <3>1. Owners(o)' = Owners(o) /\ m_pnPtrCnt'[o] = m_pnPtrCnt[o] /\ object'[o] = object[o]
      BY <1>7 DEF Owners, ptrVars
    <3>2. QED
      BY <1>0, <2>1, <3>1, Untouched
  <2>3. QED
    BY <2>1, <2>2 DEF Counting
<1>8. QED
  BY <1>2, <1>3, <1>4, <1>5, <1>6, <1>7 DEF Next

LEMMA PointersInit ==
  ASSUME Init
  PROVE  PointerInv
<1>1. SmartPtrTypeOK
  BY DEF Init, SmartPtrTypeOK
<1>2. ASSUME NEW o \in Objects  PROVE Sound(o)
  <2>1. Owners(o) = {} /\ Cardinality({}) = 0
    BY FS_EmptySet DEF Init, Owners
  <2>2. QED
    BY <2>1 DEF Init, Sound
<1>3. QED
  BY <1>1, <1>2 DEF PointerInv, Counting

\* Every variable always has its type: the count of an object is never negative, as long
\* as nobody uses a pointer to a deleted object.
THEOREM PointersTyped == Spec => []SmartPtrTypeOK
<1>1. PointerInv => SmartPtrTypeOK
  BY DEF PointerInv
<1>2. QED
  BY PointersInit, PointersStep, <1>1, PTL DEF Spec

\* An object lives as long as a smart_ptr holds it, for any number of pointers and
\* objects and whatever is copied and assigned (without free() on a shared pointer).
THEOREM HeldObjectsLive == Spec => []HeldIsAlive
<1>1. PointerInv => HeldIsAlive
  BY DEF PointerInv, Counting, Sound, HeldIsAlive
<1>2. QED
  BY PointersInit, PointersStep, <1>1, PTL DEF Spec

\* The last pointer takes the object with it, unless a pointer was assigned one to the
\* same object.
THEOREM NoObjectLeaks == Spec => []NothingLeaks
<1>1. ASSUME PointerInv, ~freedShared, ~sameAssigned, NEW o \in Objects, object[o] = "alive"
      PROVE  Owners(o) # {}
  <2>1. Cardinality(Owners(o)) > 0
    BY <1>1 DEF PointerInv, Counting, Sound
  <2>2. QED
    BY <1>1, <2>1, OwnersFinite DEF PointerInv
<1>2. PointerInv => NothingLeaks
  BY <1>1 DEF NothingLeaks
<1>3. QED
  BY PointersInit, PointersStep, <1>2, PTL DEF Spec

-----------------------------------------------------------------------------
\* CVariant

VariantTypeOK ==
  /\ win32 \in BOOLEAN
  /\ exists \subseteq Variants
  /\ m_szVal \in [Variants -> Buffers \cup {NULL}]
  /\ DOMAIN m_nVal = Variants /\ DOMAIN m_dVal = Variants /\ DOMAIN heap = Buffers
  /\ torn \subseteq exists /\ odd \subseteq exists

\* Only a torn object has a text that was never written: every other text is some TextOf.
UnwrittenAreTorn ==
  ~shared =>
    \A v \in exists : m_szVal[v] # NULL /\ heap[m_szVal[v]] = Garbage => v \in torn

VariantInv == VariantTypeOK /\ Value!TextsOwned /\ UnwrittenAreTorn /\ TextReadsAsNumbers

\* The text that an assignment makes of a value reads as the numbers it makes of it.
LEMMA TextOfReads ==
  ASSUME NEW x \in Values, NEW windows \in BOOLEAN, ~Value!Odd(x, windows)
  PROVE  Value!TextOf(x, windows) = Value!Text(Value!IntOf(x), Value!DoubleOf(x))
<1>1. MaxInt \in Nat /\ x \in Value!Given
  BY VariantAssumption DEF Value!VariantAssumption
<1>2. CASE x \in [kind : {"string"}, text : [whole : Int, number : Int]]
  <2>1. x.text = [whole |-> x.text.whole, number |-> x.text.number]
    BY <1>2
  <2>2. QED
    BY <1>2, <2>1 DEF Value!TextOf, Value!IntOf, Value!DoubleOf, Value!Text
<1>3. CASE x \in [kind : {"int"}, whole : Int]
  <2>1. x.kind = "int" /\ x.whole \in Int
    BY <1>3
  <2>2. /\ Value!IntOf(x) = x.whole /\ Value!DoubleOf(x) = 2 * x.whole
        /\ windows => Value!TextOf(x, windows) = Value!Text(x.whole, 2 * x.whole)
        /\ ~windows => Value!TextOf(x, windows) = Value!lltoa(x.whole)
    BY <2>1 DEF Value!TextOf, Value!IntOf, Value!DoubleOf
  <2>3. ASSUME ~windows PROVE Value!lltoa(x.whole) = Value!Text(x.whole, 2 * x.whole)
    <3> DEFINE size == IF x.whole < 0 THEN 0 - x.whole ELSE x.whole
               range == 2 * (MaxInt + 1)
    <3>1. x.whole \in 0 - MaxInt .. MaxInt
      BY <2>1, <2>3 DEF Value!Odd
    <3>2. size \in Nat /\ size <= MaxInt /\ range \in Nat /\ size < range
      BY <1>1, <2>1, <3>1
    <3>3. size % range = size
      <4> HIDE DEF size, range
      <4>1. QED
        BY <3>2, SMT
    <3>4. x.whole = IF x.whole < 0 THEN 0 - size ELSE size
      BY <2>1
    <3>5. Value!lltoa(x.whole) =
            IF size % range <= MaxInt
            THEN Value!Text(IF x.whole < 0 THEN 0 - (size % range) ELSE size % range,
                            2 * (IF x.whole < 0 THEN 0 - (size % range) ELSE size % range))
            ELSE Unreadable
      BY DEF Value!lltoa
    <3> HIDE DEF size, range
    <3>6. QED
      BY <3>2, <3>3, <3>4, <3>5
  <2>4. QED
    BY <2>2, <2>3
<1>4. CASE x \in [kind : {"double"}, number : Int, form : {"digits", "exponent", "cut"}]
  <2>1. x.kind = "double" /\ x.form = "digits" /\ Value!Fits(Value!Truncated(x.number))
    BY <1>4 DEF Value!Odd
  <2>2. QED
    BY <2>1 DEF Value!TextOf, Value!IntOf, Value!DoubleOf, Value!snprintf
<1>5. CASE x \in [kind : {"bool"}, whole : {0, 1}]
  <2>1. x.kind = "bool" /\ x.whole = 0
    BY <1>5 DEF Value!Odd
  <2>2. QED
    BY <2>1 DEF Value!TextOf, Value!IntOf, Value!DoubleOf
<1>6. QED
  BY <1>1, <1>2, <1>3, <1>4, <1>5 DEF Value!Given

\* What deleting the text of v leaves to the others
LEMMA ClearedLeavesOthers ==
  ASSUME VariantTypeOK, Value!TextsOwned, ~shared, NEW v \in exists
  PROVE  /\ DOMAIN Value!Cleared(v) = Buffers
         /\ \A w \in exists :
              w # v /\ m_szVal[w] # NULL =>
                Value!Cleared(v)[m_szVal[w]] = heap[m_szVal[w]] /\ heap[m_szVal[w]] # NULL
BY DEF VariantTypeOK, Value!TextsOwned, Value!Cleared

\* A step that changes v and nothing that another object has: what v has is left to show.
LEMMA OthersKeep ==
  ASSUME VariantInv, NEW v \in Variants, VariantTypeOK', exists' \ {v} = exists \ {v},
         ~shared' => ~shared,
         ~shared' => \A w \in exists \ {v} :
           /\ m_szVal'[w] = m_szVal[w]
           /\ m_nVal'[w] = m_nVal[w] /\ m_dVal'[w] = m_dVal[w]
           /\ w \in torn' <=> w \in torn
           /\ w \in odd' <=> w \in odd
           /\ m_szVal[w] # NULL => heap'[m_szVal[w]] = heap[m_szVal[w]],
         ~shared' /\ v \in exists' /\ m_szVal'[v] # NULL =>
           /\ heap'[m_szVal'[v]] # NULL
           /\ \A w \in exists \ {v} : m_szVal'[v] # m_szVal'[w]
           /\ heap'[m_szVal'[v]] = Garbage => v \in torn',
         ~shared' /\ v \in exists' \ (torn' \cup odd') =>
           IF m_szVal'[v] = NULL
           THEN <<m_nVal'[v], m_dVal'[v]>> \in {<<0, 0>>, <<Garbage, Garbage>>}
           ELSE heap'[m_szVal'[v]] = Value!Text(m_nVal'[v], m_dVal'[v])
  PROVE  VariantInv'
<1> USE DEF VariantInv
<1>1. Value!TextsOwned'
  <2>1. SUFFICES ASSUME ~shared', NEW u \in exists', NEW w \in exists', m_szVal'[u] # NULL
                 PROVE  heap'[m_szVal'[u]] # NULL /\ (u # w => m_szVal'[u] # m_szVal'[w])
    BY DEF Value!TextsOwned
  <2>2. CASE u = v
    BY <2>1, <2>2
  <2>3. CASE u # v
    <3>1. u \in exists \ {v} /\ m_szVal'[u] = m_szVal[u]
      BY <2>1, <2>3
    <3>2. heap'[m_szVal'[u]] # NULL
      BY <2>1, <3>1 DEF Value!TextsOwned
    <3>3. w # v /\ u # w => m_szVal'[u] # m_szVal'[w]
      BY <2>1, <3>1 DEF Value!TextsOwned
    <3>4. w = v => m_szVal'[u] # m_szVal'[w]
      BY <2>1, <3>1
    <3>5. QED
      BY <3>2, <3>3, <3>4
  <2>4. QED
    BY <2>2, <2>3
<1>2. UnwrittenAreTorn'
  <2>1. SUFFICES ASSUME ~shared', NEW u \in exists', m_szVal'[u] # NULL,
                        heap'[m_szVal'[u]] = Garbage
                 PROVE  u \in torn'
    BY DEF UnwrittenAreTorn
  <2>2. QED
    BY <2>1 DEF UnwrittenAreTorn
<1>3. TextReadsAsNumbers'
  <2>1. SUFFICES ASSUME ~shared', NEW u \in exists' \ (torn' \cup odd')
                 PROVE  IF m_szVal'[u] = NULL
                        THEN <<m_nVal'[u], m_dVal'[u]>> \in {<<0, 0>>, <<Garbage, Garbage>>}
                        ELSE heap'[m_szVal'[u]] = Value!Text(m_nVal'[u], m_dVal'[u])
    BY DEF TextReadsAsNumbers, Value!TextReadsAsNumbers
  <2>2. CASE u = v
    BY <2>1, <2>2
  <2>3. CASE u # v
    <3>1. u \in exists \ (torn \cup odd) /\ u # v
      BY <2>1, <2>3
    <3>2. IF m_szVal[u] = NULL
          THEN <<m_nVal[u], m_dVal[u]>> \in {<<0, 0>>, <<Garbage, Garbage>>}
          ELSE heap[m_szVal[u]] = Value!Text(m_nVal[u], m_dVal[u])
      BY <2>1, <3>1 DEF TextReadsAsNumbers, Value!TextReadsAsNumbers
    <3>3. /\ m_szVal'[u] = m_szVal[u] /\ m_nVal'[u] = m_nVal[u] /\ m_dVal'[u] = m_dVal[u]
          /\ m_szVal[u] # NULL => heap'[m_szVal[u]] = heap[m_szVal[u]]
      BY <2>1, <3>1
    <3>4. QED
      BY <3>2, <3>3
  <2>4. QED
    BY <2>2, <2>3
<1>4. QED
  BY <1>1, <1>2, <1>3

LEMMA GiveKeeps ==
  ASSUME VariantInv, NEW v \in Variants, NEW x \in Values, Value!Give(v, x)
  PROVE  VariantInv'
<1> USE DEF VariantInv, VariantTypeOK
<1> DEFINE t == Value!TextOf(x, win32)
<1>1. /\ v \in exists
      /\ m_nVal' = [m_nVal EXCEPT ![v] = Value!IntOf(x)]
      /\ m_dVal' = [m_dVal EXCEPT ![v] = Value!DoubleOf(x)]
      /\ torn' = torn \ {v}
      /\ odd' = IF Value!Odd(x, win32) THEN odd \cup {v} ELSE odd \ {v}
      /\ UNCHANGED <<win32, exists, shared>>
  BY DEF Value!Give, Value!SetNumbers, Value!Marked
<1>2. PICK b \in Buffers : /\ Value!Cleared(v)[b] = NULL
                           /\ heap' = [Value!Cleared(v) EXCEPT ![b] = t]
                           /\ m_szVal' = [m_szVal EXCEPT ![v] = b]
  BY DEF Value!Give
<1>3. t # NULL /\ t # Garbage /\ b # NULL
  BY VariantAssumption DEF Value!VariantAssumption
<1>4. ~Value!Odd(x, win32) => t = Value!Text(Value!IntOf(x), Value!DoubleOf(x))
  BY TextOfReads
<1> HIDE DEF t
<1>5. DOMAIN Value!Cleared(v) = Buffers
  BY DEF Value!Cleared
<1>6. heap'[b] = t /\ m_szVal'[v] = b /\ VariantTypeOK'
  BY <1>1, <1>2, <1>5
<1>7. ASSUME ~shared, NEW w \in exists \ {v}, m_szVal[w] # NULL
      PROVE  m_szVal[w] # b /\ heap'[m_szVal[w]] = heap[m_szVal[w]]
  BY <1>1, <1>2, <1>5, <1>7, ClearedLeavesOthers
<1>8. \A w \in exists \ {v} :
        /\ m_szVal'[w] = m_szVal[w] /\ m_nVal'[w] = m_nVal[w] /\ m_dVal'[w] = m_dVal[w]
        /\ w \in torn' <=> w \in torn
        /\ w \in odd' <=> w \in odd
  BY <1>1, <1>2
<1>9. ~shared => \A w \in exists \ {v} : m_szVal'[v] # m_szVal'[w]
  BY <1>3, <1>6, <1>7, <1>8
<1>10. v \notin odd' =>
         heap'[m_szVal'[v]] = Value!Text(m_nVal'[v], m_dVal'[v])
  BY <1>1, <1>4, <1>6
<1>11. shared' = shared /\ exists' = exists /\ m_szVal'[v] # NULL
  BY <1>1, <1>3, <1>6
<1>12. QED
  BY <1>3, <1>6, <1>7, <1>8, <1>9, <1>10, <1>11, OthersKeep

\* operator = of an empty string, and the destructor
LEMMA EmptyKeeps ==
  ASSUME VariantInv, NEW v \in Variants, Value!GiveEmpty(v) \/ Value!Destroy(v)
  PROVE  VariantInv'
<1> USE DEF VariantInv, VariantTypeOK
<1>1. /\ v \in exists /\ exists' \ {v} = exists \ {v} /\ exists' \subseteq exists
      /\ shared' = shared /\ win32' = win32
      /\ m_szVal' = [m_szVal EXCEPT ![v] = NULL] /\ heap' = Value!Cleared(v)
      /\ torn' = torn \ {v} /\ odd' = odd \ {v}
      /\ v \in exists' =>
           m_nVal' = [m_nVal EXCEPT ![v] = 0] /\ m_dVal' = [m_dVal EXCEPT ![v] = 0]
      /\ DOMAIN m_nVal' = Variants /\ DOMAIN m_dVal' = Variants
      /\ \A w \in Variants \ {v} : m_nVal'[w] = m_nVal[w] /\ m_dVal'[w] = m_dVal[w]
  BY DEF Value!GiveEmpty, Value!Destroy, Value!SetNumbers
<1>2. VariantTypeOK'
  <2>1. torn' \subseteq exists' /\ odd' \subseteq exists'
    BY <1>1
  <2>2. QED
    BY <1>1, <2>1 DEF Value!Cleared
<1>3. m_szVal'[v] = NULL /\ (v \in exists' => m_nVal'[v] = 0 /\ m_dVal'[v] = 0)
  BY <1>1
<1>4. ASSUME ~shared'
      PROVE  \A w \in exists \ {v} :
               /\ m_szVal'[w] = m_szVal[w]
               /\ m_nVal'[w] = m_nVal[w] /\ m_dVal'[w] = m_dVal[w]
               /\ w \in torn' <=> w \in torn
               /\ w \in odd' <=> w \in odd
               /\ m_szVal[w] # NULL => heap'[m_szVal[w]] = heap[m_szVal[w]]
  BY <1>1, <1>4, ClearedLeavesOthers
<1>5. QED
  BY <1>1, <1>2, <1>3, <1>4, OthersKeep

LEMMA AssignKeeps ==
  ASSUME VariantInv, NEW v \in Variants, NEW w \in Variants, Value!Assign(v, w)
  PROVE  VariantInv'
<1> USE DEF VariantInv, VariantTypeOK
<1>1. /\ v \in exists /\ w \in exists
      /\ m_nVal' = [m_nVal EXCEPT ![v] = m_nVal[w]] /\ m_dVal' = [m_dVal EXCEPT ![v] = m_dVal[w]]
      /\ odd' = IF w \in odd THEN odd \cup {v} ELSE odd \ {v}
      /\ UNCHANGED <<win32, exists, shared>>
  BY DEF Value!Assign, Value!SetNumbers, Value!Marked
<1>2. m_nVal'[v] = m_nVal[w] /\ m_dVal'[v] = m_dVal[w] /\ (v \in odd' <=> w \in odd)
  BY <1>1
<1>3. CASE /\ Value!NoText(w) /\ UNCHANGED <<m_szVal, heap>>
           /\ torn' = Value!Marked(torn, v, m_szVal[v] # NULL \/ w \in torn)
  <2>1. torn' = IF m_szVal[v] # NULL \/ w \in torn THEN torn \cup {v} ELSE torn \ {v}
    BY <1>3 DEF Value!Marked
  <2>2. VariantTypeOK'
    BY <1>1, <1>3, <2>1
  <2>3. \A z \in exists \ {v} :
          /\ m_szVal'[z] = m_szVal[z] /\ m_nVal'[z] = m_nVal[z] /\ m_dVal'[z] = m_dVal[z]
          /\ z \in torn' <=> z \in torn
          /\ z \in odd' <=> z \in odd
          /\ m_szVal[z] # NULL => heap'[m_szVal[z]] = heap[m_szVal[z]]
    BY <1>1, <1>3, <2>1
  <2>4. ~shared' /\ m_szVal'[v] # NULL =>
          /\ heap'[m_szVal'[v]] # NULL
          /\ \A z \in exists \ {v} : m_szVal'[v] # m_szVal'[z]
          /\ v \in torn'
    BY <1>1, <1>3, <2>1 DEF Value!TextsOwned
  <2>5. ASSUME ~shared', v \notin torn' \cup odd'
        PROVE  /\ m_szVal'[v] = NULL
               /\ <<m_nVal'[v], m_dVal'[v]>> \in {<<0, 0>>, <<Garbage, Garbage>>}
    <3>1. m_szVal[v] = NULL /\ w \in exists \ (torn \cup odd)
      BY <1>1, <1>2, <2>1, <2>5
    <3>2. m_szVal[w] = NULL
      BY <1>1, <1>3, <2>5, <3>1 DEF Value!NoText, UnwrittenAreTorn
    <3>3. QED
      BY <1>1, <1>2, <1>3, <2>5, <3>1, <3>2 DEF TextReadsAsNumbers, Value!TextReadsAsNumbers
  <2>6. QED
    BY <1>1, <2>2, <2>3, <2>4, <2>5, OthersKeep
<1>4. CASE /\ m_szVal[w] # NULL /\ Value!Duplicate(v, w)
           /\ torn' = Value!Marked(torn, v, v = w \/ w \in torn)
  <2>1. PICK b \in Buffers :
             /\ heap[b] = NULL
             /\ heap' = [heap EXCEPT ![b] = IF v = w THEN Garbage ELSE heap[m_szVal[w]]]
             /\ m_szVal' = [m_szVal EXCEPT ![v] = b]
    BY <1>4 DEF Value!Duplicate
  <2>2. torn' = IF v = w \/ w \in torn THEN torn \cup {v} ELSE torn \ {v}
    BY <1>4 DEF Value!Marked
  <2>3. VariantTypeOK' /\ b # NULL
    BY <1>1, <2>1, <2>2, VariantAssumption DEF Value!VariantAssumption
  <2>4. /\ heap'[b] = (IF v = w THEN Garbage ELSE heap[m_szVal[w]]) /\ m_szVal'[v] = b
        /\ \A z \in Variants : z # v => m_szVal'[z] = m_szVal[z]
        /\ \A c \in Buffers : c # b => heap'[c] = heap[c]
    BY <1>1, <2>1
  <2>5. ASSUME ~shared, NEW z \in exists, m_szVal[z] # NULL
        PROVE  heap[m_szVal[z]] # NULL /\ m_szVal[z] # b /\ heap'[m_szVal[z]] = heap[m_szVal[z]]
    BY <2>1, <2>4, <2>5 DEF Value!TextsOwned
  <2>6. \A z \in exists \ {v} :
          /\ m_szVal'[z] = m_szVal[z] /\ m_nVal'[z] = m_nVal[z] /\ m_dVal'[z] = m_dVal[z]
          /\ z \in torn' <=> z \in torn
          /\ z \in odd' <=> z \in odd
    BY <1>1, <2>2, <2>4
  <2>7. ~shared => heap'[b] # NULL /\ \A z \in exists \ {v} : m_szVal'[v] # m_szVal'[z]
    BY <1>1, <1>4, <2>3, <2>4, <2>5, VariantAssumption DEF Value!VariantAssumption
  <2>8. ~shared /\ heap'[b] = Garbage => v \in torn'
    BY <1>1, <1>4, <2>2, <2>4 DEF UnwrittenAreTorn
  <2>9. ASSUME ~shared, v \notin torn' \cup odd'
        PROVE  heap'[b] = Value!Text(m_nVal'[v], m_dVal'[v])
    <3>1. v # w /\ w \in exists \ (torn \cup odd)
      BY <1>1, <1>2, <2>2, <2>9
    <3>2. heap[m_szVal[w]] = Value!Text(m_nVal[w], m_dVal[w])
      BY <1>4, <2>9, <3>1 DEF TextReadsAsNumbers, Value!TextReadsAsNumbers
    <3>3. QED
      BY <1>2, <2>4, <3>1, <3>2
  <2>10. QED
    BY <1>1, <2>3, <2>4, <2>5, <2>6, <2>7, <2>8, <2>9, OthersKeep
<1>5. QED
  BY <1>3, <1>4 DEF Value!Assign

LEMMA VariantInvAlways == Value!Spec => []VariantInv
<1> USE DEF VariantInv, VariantTypeOK
<1>1. ASSUME Value!Init PROVE VariantInv
  BY <1>1 DEF Value!Init, Value!TextsOwned, UnwrittenAreTorn, TextReadsAsNumbers,
              Value!TextReadsAsNumbers
<1>2. ASSUME VariantInv, NEW v \in Variants, Value!Construct(v) PROVE VariantInv'
  <2>1. /\ v \notin exists /\ exists' = exists \cup {v}
        /\ m_szVal' = [m_szVal EXCEPT ![v] = NULL]
        /\ m_nVal' = [m_nVal EXCEPT ![v] = Garbage] /\ m_dVal' = [m_dVal EXCEPT ![v] = Garbage]
        /\ UNCHANGED <<win32, heap, shared, torn, odd>>
    BY <1>2 DEF Value!Construct, Value!SetNumbers
  <2>2. VariantTypeOK' /\ exists' \ {v} = exists \ {v}
    BY <1>2, <2>1
  <2>3. m_szVal'[v] = NULL /\ m_nVal'[v] = Garbage /\ m_dVal'[v] = Garbage
    BY <1>2, <2>1
  <2>4. \A w \in exists \ {v} :
          m_szVal'[w] = m_szVal[w] /\ m_nVal'[w] = m_nVal[w] /\ m_dVal'[w] = m_dVal[w]
    BY <1>2, <2>1
  <2>5. QED
    BY <1>2, <2>1, <2>2, <2>3, <2>4, OthersKeep
<1>3. ASSUME VariantInv, NEW v \in Variants, NEW w \in Variants, Value!CopyConst(v, w)
      PROVE  VariantInv'
  <2>1. /\ v \notin exists /\ w \in exists /\ exists' = exists \cup {v}
        /\ m_szVal' = [m_szVal EXCEPT ![v] = m_szVal[w]]
        /\ m_nVal' = [m_nVal EXCEPT ![v] = m_nVal[w]] /\ m_dVal' = [m_dVal EXCEPT ![v] = m_dVal[w]]
        /\ torn' = (IF w \in torn THEN torn \cup {v} ELSE torn \ {v})
        /\ odd' = (IF w \in odd THEN odd \cup {v} ELSE odd \ {v})
        /\ UNCHANGED <<win32, heap>>
    BY <1>3 DEF Value!CopyConst, Value!SetNumbers, Value!Marked
  <2>2. ASSUME ~shared' PROVE ~shared /\ m_szVal[w] = NULL
    BY <1>3, <2>2 DEF Value!CopyConst
  <2>3. VariantTypeOK' /\ exists' \ {v} = exists \ {v}
    BY <1>3, <2>1
  <2>4. /\ m_szVal'[v] = m_szVal[w] /\ m_nVal'[v] = m_nVal[w] /\ m_dVal'[v] = m_dVal[w]
        /\ v \in torn' <=> w \in torn
        /\ v \in odd' <=> w \in odd
    BY <1>3, <2>1
  <2>5. \A z \in exists \ {v} :
          /\ m_szVal'[z] = m_szVal[z] /\ m_nVal'[z] = m_nVal[z] /\ m_dVal'[z] = m_dVal[z]
          /\ z \in torn' <=> z \in torn
          /\ z \in odd' <=> z \in odd
    BY <1>3, <2>1
  <2>6. ASSUME ~shared', v \notin torn' \cup odd'
        PROVE  <<m_nVal'[v], m_dVal'[v]>> \in {<<0, 0>>, <<Garbage, Garbage>>}
    BY <1>3, <2>1, <2>2, <2>4, <2>6 DEF TextReadsAsNumbers, Value!TextReadsAsNumbers
  <2>7. QED
    BY <1>3, <2>1, <2>2, <2>3, <2>4, <2>5, <2>6, OthersKeep
<1>4. ASSUME VariantInv, [Value!Next]_(Value!variantVars) PROVE VariantInv'
  <2>1. CASE UNCHANGED Value!variantVars
    BY <1>4, <2>1
       DEF Value!variantVars, Value!TextsOwned, UnwrittenAreTorn, TextReadsAsNumbers,
           Value!TextReadsAsNumbers
  <2>2. QED
    BY <1>2, <1>3, <1>4, <2>1, GiveKeeps, EmptyKeeps, AssignKeeps DEF Value!Next
<1>5. QED
  BY <1>1, <1>4, PTL DEF Value!Spec

\* As long as no const object is copied, every text has one owner and lives as long as it,
\* for any objects, buffers and values.
THEOREM TextsHaveOneOwner == Value!Spec => []Value!TextsOwned
<1>1. VariantInv => Value!TextsOwned
  BY DEF VariantInv
<1>2. QED
  BY <1>1, VariantInvAlways, PTL

\* What _atoi64 and atof read from the text of an object are its numbers, whatever was
\* assigned to it, on both platforms; this leaves out the values that Odd names and the
\* assignments that tear an object.
THEOREM TextsReadAsNumbers == Value!Spec => []TextReadsAsNumbers
<1>1. VariantInv => TextReadsAsNumbers
  BY DEF VariantInv
<1>2. QED
  BY <1>1, VariantInvAlways, PTL

-----------------------------------------------------------------------------
\* CPasswordKeeper

Secrets == Texts \cup {NULL, Garbage}

Data == [text : Secrets, key : KeeperKeys \cup {NULL}, size : Nat]

KeeperTypeOK ==
  /\ m_sLogin \in [Keepers -> Data] /\ m_sPassword \in [Keepers -> Data]
  /\ m_sKey \in [Keepers -> KeeperKeys \cup {NULL}]
  /\ given \in [Keepers -> [login : Secrets, password : Secrets]]

\* s is secret, if that can be kept, encrypted with key; a keeper without one has no data.
Conceals(s, key, secret) ==
  Keeper!Kept(secret) => s.text = secret /\ (secret # NULL => s.key = key)

\* Also of keepers that do not exist: the next one starts with what Destroy leaves.
SecretsConcealed ==
  \A k \in Keepers : /\ Conceals(m_sLogin[k], m_sKey[k], given[k].login)
                     /\ Conceals(m_sPassword[k], m_sKey[k], given[k].password)

KeeperInv == KeeperTypeOK /\ SecretsConcealed

\* What becomes of one datum
LEMMA DatumFacts ==
  ASSUME NEW s \in Data
  PROVE  /\ Keeper!Freed(s) \in Data /\ Keeper!Freed(s).text = NULL
         /\ Keeper!Copied(s) \in Data
         /\ \A key, secret : Conceals(s, key, secret) => Conceals(Keeper!Copied(s), key, secret)
         /\ Keeper!NoData \in Data /\ Keeper!NoData.text = NULL
BY DEF Data, Secrets, Keeper!Freed, Keeper!Copied, Keeper!NoData, Conceals

LEMMA EncryptedFacts ==
  ASSUME NEW secret \in Texts, NEW key \in KeeperKeys
  PROVE  /\ Keeper!Encrypted(secret, Length[secret], key) \in Data
         /\ Conceals(Keeper!Encrypted(secret, Length[secret], key), key, secret)
BY KeeperAssumption
   DEF Keeper!KeeperAssumption, Keeper!Encrypted, Data, Secrets, Conceals, Keeper!Kept

\* One keeper changes, with its key.
LEMMA OneKeeperChanges ==
  ASSUME KeeperInv, NEW k \in Keepers, NEW s \in Data, NEW r \in Data,
         NEW key \in KeeperKeys \cup {NULL}, NEW login \in Secrets, NEW password \in Secrets,
         Conceals(s, key, login), Conceals(r, key, password),
         m_sLogin' = [m_sLogin EXCEPT ![k] = s], m_sPassword' = [m_sPassword EXCEPT ![k] = r],
         m_sKey' = [m_sKey EXCEPT ![k] = key],
         given' = [given EXCEPT ![k] = [login |-> login, password |-> password]]
  PROVE  KeeperInv'
<1>1. KeeperTypeOK'
  BY DEF KeeperInv, KeeperTypeOK
<1>2. ASSUME NEW j \in Keepers
      PROVE  /\ Conceals(m_sLogin'[j], m_sKey'[j], given'[j].login)
             /\ Conceals(m_sPassword'[j], m_sKey'[j], given'[j].password)
  <2>1. CASE j = k
    <3>1. /\ m_sLogin'[j] = s /\ m_sPassword'[j] = r /\ m_sKey'[j] = key
          /\ given'[j].login = login /\ given'[j].password = password
      BY <2>1 DEF KeeperInv, KeeperTypeOK
    <3>2. QED
      BY <3>1
  <2>2. CASE j # k
    <3>1. /\ m_sLogin'[j] = m_sLogin[j] /\ m_sPassword'[j] = m_sPassword[j]
          /\ m_sKey'[j] = m_sKey[j] /\ given'[j] = given[j]
      BY <2>2 DEF KeeperInv, KeeperTypeOK
    <3>2. QED
      BY <3>1 DEF KeeperInv, SecretsConcealed
  <2>3. QED
    BY <2>1, <2>2
<1>3. QED
  BY <1>1, <1>2 DEF KeeperInv, SecretsConcealed

\* Who has no secret has no data.
LEMMA NoSecret ==
  ASSUME NEW s \in Data, s.text = NULL, NEW key
  PROVE  Conceals(s, key, NULL)
BY DEF Conceals

LEMMA SetDataKeeps ==
  ASSUME KeeperInv, NEW k \in Keepers, NEW login \in Texts \cup {NULL},
         NEW password \in Texts \cup {NULL}, Keeper!SetData(k, login, password)
  PROVE  KeeperInv'
<1>1. PICK key \in KeeperKeys : Keeper!Replace(k, login, password, key)
  BY DEF Keeper!SetData
<1> DEFINE s == IF login = NULL THEN Keeper!Freed(m_sLogin[k])
                ELSE Keeper!Encrypted(login, Length[login], key)
           r == IF password = NULL THEN Keeper!Freed(m_sPassword[k])
                 ELSE Keeper!Encrypted(password, Length[password], key)
<1>2. m_sLogin[k] \in Data /\ m_sPassword[k] \in Data
  BY DEF KeeperInv, KeeperTypeOK
<1>3. s \in Data /\ Conceals(s, key, login)
  <2>1. CASE login = NULL
    BY <1>2, <2>1, DatumFacts, NoSecret
  <2>2. CASE login # NULL
    BY <2>2, EncryptedFacts
  <2>3. QED
    BY <2>1, <2>2
<1>4. r \in Data /\ Conceals(r, key, password)
  <2>1. CASE password = NULL
    BY <1>2, <2>1, DatumFacts, NoSecret
  <2>2. CASE password # NULL
    BY <2>2, EncryptedFacts
  <2>3. QED
    BY <2>1, <2>2
<1>5. /\ m_sLogin' = [m_sLogin EXCEPT ![k] = s] /\ m_sPassword' = [m_sPassword EXCEPT ![k] = r]
      /\ m_sKey' = [m_sKey EXCEPT ![k] = key]
      /\ given' = [given EXCEPT ![k] = [login |-> login, password |-> password]]
  BY <1>1 DEF Keeper!Replace
<1> HIDE DEF s, r
<1>6. login \in Secrets /\ password \in Secrets
  BY DEF Secrets
<1>7. QED
  BY <1>3, <1>4, <1>5, <1>6, OneKeeperChanges

\* Free, the destructor and a registry that holds nothing leave no secret and no data.
LEMMA Forgetting ==
  ASSUME KeeperInv, NEW k \in Keepers, NEW key \in KeeperKeys \cup {NULL},
         NEW s \in {Keeper!Freed(m_sLogin[k]), Keeper!NoData},
         NEW r \in {Keeper!Freed(m_sPassword[k]), Keeper!NoData},
         m_sLogin' = [m_sLogin EXCEPT ![k] = s], m_sPassword' = [m_sPassword EXCEPT ![k] = r],
         m_sKey' = [m_sKey EXCEPT ![k] = key],
         given' = [given EXCEPT ![k] = Keeper!Nothing]
  PROVE  KeeperInv'
<1>1. m_sLogin[k] \in Data /\ m_sPassword[k] \in Data
  BY DEF KeeperInv, KeeperTypeOK
<1>2. s \in Data /\ s.text = NULL /\ r \in Data /\ r.text = NULL
  BY <1>1, DatumFacts
<1>3. Conceals(s, key, NULL) /\ Conceals(r, key, NULL) /\ NULL \in Secrets
  BY <1>2, NoSecret DEF Secrets
<1>4. given' = [given EXCEPT ![k] = [login |-> NULL, password |-> NULL]]
  BY DEF Keeper!Nothing
<1>5. QED
  BY <1>2, <1>3, <1>4, OneKeeperChanges

LEMMA LoadKeeps ==
  ASSUME KeeperInv, NEW k \in Keepers, Keeper!LoadNothing(k) \/ Keeper!LoadGarbage(k)
  PROVE  KeeperInv'
<1>1. CASE Keeper!LoadNothing(k)
  BY <1>1, Forgetting DEF Keeper!LoadNothing
<1>2. CASE Keeper!LoadGarbage(k)
  <2>1. PICK key \in KeeperKeys, n \in Keeper!Sizes \cup {0}, m \in Keeper!Sizes \ {0} :
               /\ m_sLogin' = [m_sLogin EXCEPT ![k] = Keeper!Encrypted(Garbage, n, key)]
               /\ m_sPassword' = [m_sPassword EXCEPT ![k] = Keeper!Encrypted(Garbage, m, key)]
               /\ m_sKey' = [m_sKey EXCEPT ![k] = key]
    BY <1>2 DEF Keeper!LoadGarbage
  <2>2. n \in Nat /\ m \in Nat
    BY KeeperAssumption DEF Keeper!KeeperAssumption, Keeper!Sizes
  <2>3. /\ Keeper!Encrypted(Garbage, n, key) \in Data
        /\ Keeper!Encrypted(Garbage, m, key) \in Data
    BY <2>2 DEF Keeper!Encrypted, Data, Secrets
  <2>4. \A s : Conceals(s, key, Garbage)
    BY KeeperAssumption DEF Keeper!KeeperAssumption, Conceals, Keeper!Kept
  <2>5. given' = [given EXCEPT ![k] = [login |-> Garbage, password |-> Garbage]]
    BY <1>2 DEF Keeper!LoadGarbage
  <2>6. Garbage \in Secrets
    BY DEF Secrets
  <2>7. QED
    BY <2>1, <2>3, <2>4, <2>5, <2>6, OneKeeperChanges
<1>3. QED
  BY <1>1, <1>2

LEMMA AssignKeeperKeeps ==
  ASSUME KeeperInv, NEW k \in Keepers, NEW j \in Keepers, Keeper!Assign(k, j)
  PROVE  KeeperInv'
<1>1. /\ m_sLogin[j] \in Data /\ m_sPassword[j] \in Data /\ m_sKey[j] \in KeeperKeys \cup {NULL}
      /\ given[j].login \in Secrets /\ given[j].password \in Secrets
      /\ given[j] = [login |-> given[j].login, password |-> given[j].password]
  BY DEF KeeperInv, KeeperTypeOK
<1>2. /\ Conceals(m_sLogin[j], m_sKey[j], given[j].login)
      /\ Conceals(m_sPassword[j], m_sKey[j], given[j].password)
  BY DEF KeeperInv, SecretsConcealed
<1>3. /\ Keeper!Copied(m_sLogin[j]) \in Data /\ Keeper!Copied(m_sPassword[j]) \in Data
      /\ Conceals(Keeper!Copied(m_sLogin[j]), m_sKey[j], given[j].login)
      /\ Conceals(Keeper!Copied(m_sPassword[j]), m_sKey[j], given[j].password)
  BY <1>1, <1>2, DatumFacts
<1>4. /\ m_sLogin' = [m_sLogin EXCEPT ![k] = Keeper!Copied(m_sLogin[j])]
      /\ m_sPassword' = [m_sPassword EXCEPT ![k] = Keeper!Copied(m_sPassword[j])]
      /\ m_sKey' = [m_sKey EXCEPT ![k] = m_sKey[j]]
      /\ given' = [given EXCEPT
           ![k] = [login |-> given[j].login, password |-> given[j].password]]
  BY <1>1 DEF Keeper!Assign
<1>5. QED
  BY <1>1, <1>3, <1>4, OneKeeperChanges

LEMMA KeeperInvAlways == Keeper!Spec => []KeeperInv
<1>1. ASSUME Keeper!Init PROVE KeeperInv
  BY <1>1 DEF Keeper!Init, KeeperInv, KeeperTypeOK, Data, Secrets, SecretsConcealed,
              Conceals, Keeper!NoData, Keeper!Nothing
<1>2. ASSUME KeeperInv, UNCHANGED <<m_sLogin, m_sPassword, m_sKey, given>> PROVE KeeperInv'
  BY <1>2 DEF KeeperInv, KeeperTypeOK, SecretsConcealed
<1>3. ASSUME KeeperInv, NEW k \in Keepers, Keeper!Free(k) \/ Keeper!Destroy(k) PROVE KeeperInv'
  BY <1>3, Forgetting DEF Keeper!Free, Keeper!Destroy
<1>4. ASSUME KeeperInv, NEW k \in Keepers,
             Keeper!Construct(k) \/ Keeper!SaveToRegistry(k) \/ Keeper!AddPassword(k)
      PROVE  KeeperInv'
  BY <1>2, <1>4 DEF Keeper!Construct, Keeper!SaveToRegistry, Keeper!Undefined,
                    Keeper!AddPassword, Keeper!data
<1>5. ASSUME KeeperInv, NEW k \in Keepers, Keeper!LoadFromRegistry(k) PROVE KeeperInv'
  <2>1. CASE Keeper!Undefined
    BY <1>2, <1>5, <2>1 DEF Keeper!Undefined, Keeper!data
  <2>2. QED
    BY <1>5, <2>1, LoadKeeps DEF Keeper!LoadFromRegistry
<1>6. ASSUME KeeperInv, Keeper!SaveArray \/ Keeper!LoadArray PROVE KeeperInv'
  BY <1>2, <1>6 DEF Keeper!SaveArray, Keeper!LoadArray, Keeper!Undefined, Keeper!data
<1>7. ASSUME KeeperInv, [Keeper!Next]_(Keeper!keeperVars) PROVE KeeperInv'
  <2>1. CASE UNCHANGED Keeper!keeperVars
    BY <1>2, <1>7, <2>1 DEF Keeper!keeperVars
  <2>2. QED
    BY <1>3, <1>4, <1>5, <1>6, <1>7, <2>1, SetDataKeeps, AssignKeeperKeeps DEF Keeper!Next
<1>8. QED
  BY <1>1, <1>7, PTL DEF Keeper!Spec

LEMMA KeepersExist == Keeper!Spec => [](keepers \subseteq Keepers)
<1>1. Keeper!Init => keepers \subseteq Keepers
  BY DEF Keeper!Init
<1>2. keepers \subseteq Keepers /\ [Keeper!Next]_(Keeper!keeperVars)
        => (keepers \subseteq Keepers)'
  <2>1. ASSUME NEW k \in Keepers, Keeper!Construct(k) \/ Keeper!Destroy(k)
        PROVE  keepers' \subseteq keepers \cup Keepers
    BY <2>1 DEF Keeper!Construct, Keeper!Destroy
  <2>2. ASSUME Keeper!Next,
               ~ \E k \in Keepers : Keeper!Construct(k) \/ Keeper!Destroy(k)
        PROVE  UNCHANGED keepers
    BY <2>2
       DEF Keeper!Next, Keeper!Free, Keeper!SaveToRegistry, Keeper!LoadFromRegistry,
           Keeper!LoadNothing, Keeper!LoadGarbage, Keeper!AddPassword, Keeper!SetData,
           Keeper!Assign, Keeper!SaveArray, Keeper!LoadArray, Keeper!Undefined
  <2>3. QED
    BY <2>1, <2>2 DEF Keeper!keeperVars
<1>3. QED
  BY <1>1, <1>2, PTL DEF Keeper!Spec

\* What a keeper was given can be read from it, for any texts that are not one character
\* long and any keys, whatever is assigned, replaced, freed, saved and loaded.
THEOREM SecretsAreKept == Keeper!Spec => []SecretsKept
<1>1. ASSUME KeeperInv, keepers \subseteq Keepers PROVE SecretsKept
  <2>1. ASSUME NEW s, NEW key, NEW secret, Conceals(s, key, secret), Keeper!Kept(secret)
        PROVE  Keeper!Decrypted(s, key) = secret
    BY <2>1 DEF Conceals, Keeper!Decrypted
  <2>2. QED
    BY <1>1, <2>1 DEF KeeperInv, SecretsConcealed, SecretsKept, Keeper!SecretsKept
<1>2. QED
  BY <1>1, KeeperInvAlways, KeepersExist, PTL

-----------------------------------------------------------------------------
\* Stack traces

Entries == Errors \cup {None} \cup Nat

TraceTypeOK ==
  /\ id \in [Threads -> Ids \cup {None}] /\ depth \in [Threads -> Nat]
  /\ flying \in [Threads -> Errors \cup Others \cup {None}]
  /\ g_mapStackTrace \in [Ids -> Seq(Entries)]
  /\ passed \in [Threads -> Seq(Nat)]

OneThreadPerId == \A t, u \in Threads : t # u /\ id[t] = id[u] => id[t] = None

\* The trace the exception of t should have by now
Real(t) == IF passed[t] = <<>> THEN <<>> ELSE <<Trace!What(flying[t])>> \o passed[t]

\* What the map has under the id of a thread is the trace of its exception, and under an id
\* that no thread has, nothing; but for ids whose last trace nobody took.
MapIsReal ==
  /\ \A t \in Threads :
       /\ flying[t] # None => id[t] # None
       /\ flying[t] = None => passed[t] = <<>>
       /\ id[t] # None /\ id[t] \notin left => g_mapStackTrace[id[t]] = Real(t)
  /\ \A i \in Ids \ left : (\A t \in Threads : id[t] # i) => g_mapStackTrace[i] = <<>>

TraceInv == TraceTypeOK /\ OneThreadPerId /\ MapIsReal /\ TraceIsOwn

LEMMA NatAppended ==
  ASSUME NEW p \in Seq(Nat), NEW d \in Nat
  PROVE  Append(p, d) \in Seq(Nat) /\ Append(p, d) # <<>>
BY AppendProperties

\* One more function on a trace that has begun, or begins with it
LEMMA OneMore ==
  ASSUME NEW e \in Errors \cup Others \cup {None}, NEW s \in Seq(Entries), NEW p \in Seq(Nat),
         NEW d \in Nat, s = IF p = <<>> THEN <<>> ELSE <<Trace!What(e)>> \o p
  PROVE  /\ Append(Trace!Begun(s, e), d) \in Seq(Entries)
         /\ Append(Trace!Begun(s, e), d) = <<Trace!What(e)>> \o Append(p, d)
         /\ Append(p, d) \in Seq(Nat) /\ Append(p, d) # <<>>
<1> DEFINE w == Trace!What(e)
<1>1. w \in Entries /\ <<w>> \in Seq(Entries) /\ d \in Entries
  BY DEF Trace!What, Entries
<1>2. p \in Seq(Entries)
  BY SeqMonotonic DEF Entries
<1>3. Trace!Begun(s, e) = <<w>> \o p
  <2>1. CASE p = <<>>
    BY <1>1, <2>1, ConcatEmptySeq DEF Trace!Begun
  <2>2. CASE p # <<>>
    <3>1. s # <<>>
      BY <1>1, <1>2, <2>2, ConcatEqualIffEmpty
    <3>2. QED
      BY <2>2, <3>1 DEF Trace!Begun
  <2>3. QED
    BY <2>1, <2>2
<1>4. <<w>> \o p \in Seq(Entries)
  BY <1>1, <1>2, ConcatProperties
<1>5. Append(<<w>> \o p, d) = <<w>> \o Append(p, d)
  <2>1. Append(<<w>> \o p, d) = (<<w>> \o p) \o <<d>> /\ Append(p, d) = p \o <<d>>
    BY <1>1, <1>2, <1>4, AppendIsConcat
  <2>2. <<d>> \in Seq(Entries)
    BY <1>1
  <2>3. (<<w>> \o p) \o <<d>> = <<w>> \o (p \o <<d>>)
    BY <1>1, <1>2, <2>2, ConcatAssociative
  <2>4. QED
    BY <2>1, <2>3
<1>6. Append(<<w>> \o p, d) \in Seq(Entries)
  BY <1>1, <1>4, AppendProperties
<1>7. Append(p, d) \in Seq(Nat) /\ Append(p, d) # <<>>
  BY NatAppended
<1>8. QED
  BY <1>3, <1>5, <1>6, <1>7

LEMMA RethrowKeeps ==
  ASSUME TraceInv, NEW t \in Threads, Trace!Rethrow(t)
  PROVE  TraceInv'
<1> USE DEF TraceInv, TraceTypeOK
<1> DEFINE i == id[t]
           trace == Append(Trace!Begun(g_mapStackTrace[i], flying[t]), depth[t])
<1>1. /\ flying[t] # None /\ depth[t] > 0
      /\ g_mapStackTrace' = [g_mapStackTrace EXCEPT ![i] = trace]
      /\ passed' = [passed EXCEPT ![t] = Append(passed[t], depth[t])]
      /\ depth' = [depth EXCEPT ![t] = depth[t] - 1]
      /\ UNCHANGED <<id, flying, left, taken>>
  BY DEF Trace!Rethrow
<1>2. i \in Ids /\ i # None
  BY <1>1 DEF MapIsReal
<1>3. depth[t] \in Nat /\ depth[t] - 1 \in Nat
  BY <1>1
<1>4. trace \in Seq(Entries)
  <2>1. g_mapStackTrace[i] \in Seq(Entries) /\ Trace!What(flying[t]) \in Entries
    BY <1>2 DEF Trace!What, Entries
  <2>2. Trace!Begun(g_mapStackTrace[i], flying[t]) \in Seq(Entries)
    BY <2>1 DEF Trace!Begun
  <2>3. QED
    BY <1>3, <2>2, AppendProperties DEF Entries
<1>5. passed[t] \in Seq(Nat) /\ Append(passed[t], depth[t]) \in Seq(Nat)
  BY <1>3, AppendProperties
<1>6. i \notin left => trace = Real(t)'
  <2>1. SUFFICES ASSUME i \notin left PROVE trace = Real(t)'
    OBVIOUS
  <2>2. g_mapStackTrace[i] = Real(t)
    BY <1>2, <2>1 DEF MapIsReal
  <2>3. /\ flying[t] \in Errors \cup Others \cup {None}
        /\ g_mapStackTrace[i] \in Seq(Entries)
    BY <1>2
  <2>4. g_mapStackTrace[i] = IF passed[t] = <<>> THEN <<>>
                            ELSE <<Trace!What(flying[t])>> \o passed[t]
    BY <2>2 DEF Real
  <2>5. /\ trace = <<Trace!What(flying[t])>> \o Append(passed[t], depth[t])
        /\ Append(passed[t], depth[t]) # <<>>
    BY <1>3, <1>5, <2>3, <2>4, OneMore, Zenon
  <2>6. flying'[t] = flying[t] /\ passed'[t] = Append(passed[t], depth[t])
    BY <1>1
  <2>7. QED
    BY <2>5, <2>6 DEF Real, Trace!What
<1> HIDE DEF trace
<1>7. TraceTypeOK'
  BY <1>1, <1>2, <1>3, <1>4, <1>5
<1>8. OneThreadPerId'
  BY <1>1 DEF OneThreadPerId
<1>9. MapIsReal'
  <2>1. ASSUME NEW u \in Threads
        PROVE  /\ flying'[u] # None => id'[u] # None
               /\ flying'[u] = None => passed'[u] = <<>>
               /\ id'[u] # None /\ id'[u] \notin left' =>
                    g_mapStackTrace'[id'[u]] = Real(u)'
    <3>1. CASE u = t
      BY <1>1, <1>2, <1>6, <3>1
    <3>2. CASE u # t
      <4>1. id[u] # None => id[u] # i /\ id[u] \in Ids
        BY <1>2, <3>2 DEF OneThreadPerId
      <4>2. Real(u)' = Real(u)
        BY <1>1, <3>2 DEF Real, Trace!What
      <4>3. QED
        BY <1>1, <3>2, <4>1, <4>2 DEF MapIsReal
    <3>3. QED
      BY <3>1, <3>2
  <2>2. ASSUME NEW j \in Ids \ left', \A u \in Threads : id'[u] # j
        PROVE  g_mapStackTrace'[j] = <<>>
    BY <1>1, <2>2 DEF MapIsReal
  <2>3. QED
    BY <2>1, <2>2 DEF MapIsReal
<1>10. TraceIsOwn'
  BY <1>1 DEF TraceIsOwn, Trace!TraceIsOwn
<1>11. QED
  BY <1>7, <1>8, <1>9, <1>10

\* A catch clears the entry, or leaves the id with one.
LEMMA CatchKeeps ==
  ASSUME TraceInv, NEW t \in Threads, Trace!CatchTrace(t) \/ Trace!CatchQuietly(t)
  PROVE  TraceInv'
<1> USE DEF TraceInv, TraceTypeOK
<1> DEFINE i == id[t]
<1>1. /\ flying[t] # None
      /\ flying' = [flying EXCEPT ![t] = None] /\ passed' = [passed EXCEPT ![t] = <<>>]
      /\ UNCHANGED <<id, depth>>
  BY DEF Trace!CatchTrace, Trace!CatchQuietly, Trace!Caught
<1>2. i \in Ids /\ i # None
  BY <1>1 DEF MapIsReal
<1>3. \/ g_mapStackTrace' = [g_mapStackTrace EXCEPT ![i] = <<>>] /\ left' = left \ {i}
      \/ /\ g_mapStackTrace' = g_mapStackTrace
         /\ left' = IF passed[t] = <<>> THEN left ELSE left \cup {i}
  BY DEF Trace!CatchTrace, Trace!CatchQuietly, Trace!Popped
<1>4. <<>> \in Seq(Entries) /\ <<>> \in Seq(Nat)
  OBVIOUS
<1>5. TraceTypeOK'
  BY <1>1, <1>2, <1>3, <1>4
<1>6. OneThreadPerId'
  BY <1>1 DEF OneThreadPerId
<1>7. i \notin left' => g_mapStackTrace'[i] = <<>>
  <2>1. CASE g_mapStackTrace' = [g_mapStackTrace EXCEPT ![i] = <<>>]
    BY <1>2, <2>1
  <2>2. CASE /\ g_mapStackTrace' = g_mapStackTrace
             /\ left' = IF passed[t] = <<>> THEN left ELSE left \cup {i}
    BY <1>2, <2>2 DEF MapIsReal, Real
  <2>3. QED
    BY <1>3, <2>1, <2>2
<1>8. \A j \in Ids : j # i =>
        g_mapStackTrace'[j] = g_mapStackTrace[j] /\ (j \in left' <=> j \in left)
  BY <1>3
<1>9. ASSUME NEW u \in Threads
      PROVE  /\ flying'[u] # None => id'[u] # None
             /\ flying'[u] = None => passed'[u] = <<>>
             /\ id'[u] # None /\ id'[u] \notin left' => g_mapStackTrace'[id'[u]] = Real(u)'
  <2>1. CASE u = t
    BY <1>1, <1>2, <1>7, <2>1 DEF Real
  <2>2. CASE u # t
    <3>1. id[u] # None => id[u] # i /\ id[u] \in Ids
      BY <1>2, <2>2 DEF OneThreadPerId
    <3>2. Real(u)' = Real(u)
      BY <1>1, <2>2 DEF Real, Trace!What
    <3>3. QED
      BY <1>1, <1>8, <2>2, <3>1, <3>2 DEF MapIsReal
  <2>3. QED
    BY <2>1, <2>2
<1>10. MapIsReal'
  <2>1. ASSUME NEW j \in Ids \ left', \A u \in Threads : id'[u] # j
        PROVE  g_mapStackTrace'[j] = <<>>
    BY <1>1, <1>8, <2>1 DEF MapIsReal
  <2>2. QED
    BY <1>9, <2>1 DEF MapIsReal
<1>11. TraceIsOwn'
  <2>1. CASE Trace!CatchTrace(t)
    <3>1. taken' = [text |-> g_mapStackTrace[i], real |-> Real(t), mixed |-> i \in left]
      BY <2>1 DEF Trace!CatchTrace, Real
    <3>2. i \notin left => g_mapStackTrace[i] = Real(t)
      BY <1>2 DEF MapIsReal
    <3>3. QED
      BY <3>1, <3>2 DEF TraceIsOwn, Trace!TraceIsOwn
  <2>2. CASE Trace!CatchQuietly(t)
    BY <2>2 DEF Trace!CatchQuietly, TraceIsOwn, Trace!TraceIsOwn
  <2>3. QED
    BY <2>1, <2>2
<1>12. QED
  BY <1>5, <1>6, <1>10, <1>11

LEMMA TraceInvAlways == Trace!Spec => []TraceInv
<1> USE DEF TraceInv, TraceTypeOK
<1>1. ASSUME Trace!Init PROVE TraceInv
  <2>1. <<>> \in Seq(Entries) /\ <<>> \in Seq(Nat)
    OBVIOUS
  <2>2. QED
    BY <1>1, <2>1 DEF Trace!Init, Trace!NoTrace, OneThreadPerId, MapIsReal, Real, TraceIsOwn,
                      Trace!TraceIsOwn
<1>2. ASSUME TraceInv, NEW t \in Threads, NEW i \in Ids, Trace!ThreadStarts(t, i)
      PROVE  TraceInv'
  <2>1. /\ id[t] = None /\ \A u \in Threads : id[u] # i
        /\ id' = [id EXCEPT ![t] = i] /\ i # None
        /\ UNCHANGED <<depth, flying, g_mapStackTrace, passed, left, taken>>
    BY <1>2, TraceAssumption DEF Trace!ThreadStarts, Trace!TraceAssumption
  <2>2. TraceTypeOK' /\ OneThreadPerId'
    BY <1>2, <2>1 DEF OneThreadPerId
  <2>3. MapIsReal'
    <3>1. \A u \in Threads : Real(u)' = Real(u)
      BY <2>1 DEF Real, Trace!What
    <3>2. flying[t] = None /\ Real(t) = <<>>
      BY <1>2, <2>1 DEF MapIsReal, Real
    <3>3. i \notin left => g_mapStackTrace[i] = <<>>
      BY <1>2, <2>1 DEF MapIsReal
    <3>4. ASSUME NEW u \in Threads
          PROVE  /\ flying'[u] # None => id'[u] # None
                 /\ flying'[u] = None => passed'[u] = <<>>
                 /\ id'[u] # None /\ id'[u] \notin left' =>
                      g_mapStackTrace'[id'[u]] = Real(u)'
      <4>1. CASE u = t
        BY <1>2, <2>1, <3>1, <3>2, <3>3, <4>1 DEF MapIsReal
      <4>2. CASE u # t
        BY <1>2, <2>1, <3>1, <4>2 DEF MapIsReal
      <4>3. QED
        BY <4>1, <4>2
    <3>5. ASSUME NEW j \in Ids \ left', \A u \in Threads : id'[u] # j
          PROVE  g_mapStackTrace'[j] = <<>>
      <4>1. \A u \in Threads : id[u] # j
        <5>1. ASSUME NEW u \in Threads, id[u] = j PROVE FALSE
          <6>1. CASE u = t
            BY <2>1, <5>1, <6>1, TraceAssumption DEF Trace!TraceAssumption
          <6>2. CASE u # t
            BY <1>2, <2>1, <3>5, <5>1, <6>2
          <6>3. QED
            BY <6>1, <6>2
        <5>2. QED
          BY <5>1
      <4>2. QED
        BY <1>2, <2>1, <3>5, <4>1 DEF MapIsReal
    <3>6. QED
      BY <3>4, <3>5 DEF MapIsReal
  <2>4. TraceIsOwn'
    BY <1>2, <2>1 DEF TraceIsOwn, Trace!TraceIsOwn
  <2>5. QED
    BY <2>2, <2>3, <2>4
<1>3. ASSUME TraceInv, NEW t \in Threads, Trace!ThreadEnds(t) PROVE TraceInv'
  <2>1. /\ id[t] # None /\ flying[t] = None
        /\ id' = [id EXCEPT ![t] = None]
        /\ UNCHANGED <<depth, flying, g_mapStackTrace, passed, left, taken>>
    BY <1>3 DEF Trace!ThreadEnds, Trace!Runs
  <2>2. TraceTypeOK' /\ OneThreadPerId'
    BY <1>3, <2>1 DEF OneThreadPerId
  <2>3. id[t] \notin left => g_mapStackTrace[id[t]] = <<>>
    BY <1>3, <2>1 DEF MapIsReal, Real
  <2>4. MapIsReal'
    BY <1>3, <2>1, <2>3 DEF MapIsReal, Real, Trace!What
  <2>5. TraceIsOwn'
    BY <1>3, <2>1 DEF TraceIsOwn, Trace!TraceIsOwn
  <2>6. QED
    BY <2>2, <2>4, <2>5
<1>4. ASSUME TraceInv, NEW t \in Threads, Trace!Call(t) \/ Trace!Return(t) PROVE TraceInv'
  <2>1. /\ \E d \in Nat : depth' = [depth EXCEPT ![t] = d]
        /\ UNCHANGED <<id, flying, g_mapStackTrace, passed, left, taken>>
    BY <1>4 DEF Trace!Call, Trace!Return
  <2>2. QED
    BY <1>4, <2>1 DEF OneThreadPerId, MapIsReal, Real, Trace!What, TraceIsOwn,
                      Trace!TraceIsOwn
<1>5. ASSUME TraceInv, NEW t \in Threads, NEW e \in Errors \cup Others, Trace!Throw(t, e)
      PROVE  TraceInv'
  <2>1. /\ id[t] # None /\ flying[t] = None /\ flying' = [flying EXCEPT ![t] = e]
        /\ taken' = Trace!NoTrace
        /\ UNCHANGED <<id, depth, g_mapStackTrace, passed, left>>
    BY <1>5 DEF Trace!Throw, Trace!Runs
  <2>2. passed[t] = <<>> /\ \A u \in Threads : Real(u)' = Real(u)
    BY <1>5, <2>1 DEF MapIsReal, Real, Trace!What
  <2>3. MapIsReal'
    BY <1>5, <2>1, <2>2 DEF MapIsReal
  <2>4. TraceTypeOK' /\ OneThreadPerId' /\ TraceIsOwn'
    BY <1>5, <2>1 DEF OneThreadPerId, TraceIsOwn, Trace!TraceIsOwn, Trace!NoTrace
  <2>5. QED
    BY <2>3, <2>4
<1>6. ASSUME TraceInv, UNCHANGED Trace!traceVars PROVE TraceInv'
  BY <1>6 DEF Trace!traceVars, OneThreadPerId, MapIsReal, Real, Trace!What, TraceIsOwn,
              Trace!TraceIsOwn
<1>7. TraceInv /\ [Trace!Next]_(Trace!traceVars) => TraceInv'
  BY <1>2, <1>3, <1>4, <1>5, <1>6, RethrowKeeps, CatchKeeps DEF Trace!Next
<1>8. QED
  BY <1>1, <1>7, PTL DEF Trace!Spec

\* The trace a catch takes is that of its own exception, for any threads, ids, exceptions
\* and depths, unless an exception before it was caught without STACK_TRACE.
THEOREM TracesAreOwn == Trace!Spec => []TraceIsOwn
<1>1. TraceInv => TraceIsOwn
  BY DEF TraceInv
<1>2. QED
  BY <1>1, TraceInvAlways, PTL

-----------------------------------------------------------------------------
\* The time of CTimer::Timer

ClockTypeOK ==
  /\ clock \in 0 .. 2 * Half - 1 /\ nTicks \in 0 .. 2 * Half - 1
  /\ nTimeToSleep \in 0 .. Precision
  /\ pc \in {"loop", "asleep", "tick"}
  /\ elapsed \in Nat /\ ticks \in Nat

\* The time the first n ticks take at least, doubled
Due(n) == n * Precision

\* The time since the thread read the clock
Slept == Clock!Unsigned(clock - nTicks)

\* With what the thread still has to sleep, the next tick is not early either.
OnTime ==
  /\ pc \in {"loop", "asleep"} => 2 * elapsed + nTimeToSleep >= Due(ticks + 1)
  /\ pc = "asleep" => nTicks = clock
  /\ pc = "tick" => /\ Slept \in nTimeToSleep .. Precision + MaxLate
                    /\ 2 * (elapsed - Slept) + nTimeToSleep >= Due(ticks + 1)

ClockInv == ClockTypeOK /\ OnTime

LEMMA Wraps ==
  ASSUME NEW n \in Int
  PROVE  /\ Clock!Unsigned(n) \in 0 .. 2 * Half - 1
         /\ n \in 0 .. 2 * Half - 1 => Clock!Unsigned(n) = n
         /\ n \in 2 * Half .. 4 * Half - 1 => Clock!Unsigned(n) = n - 2 * Half
         /\ - 2 * Half <= n /\ n < 0 => Clock!Unsigned(n) = n + 2 * Half
<1> DEFINE N == 2 * Half
<1>1. N \in Nat \ {0} /\ Half \in Nat
  BY ClockAssumption DEF Clock!ClockAssumption
<1> HIDE DEF N
<1>2. n % N \in 0 .. N - 1
  BY <1>1
<1>3. n \in 0 .. N - 1 => n % N = n
  BY <1>1
<1>4. n \in N .. 2 * N - 1 => n % N = n - N
  BY <1>1
<1>5. - N <= n /\ n < 0 => n % N = n + N
  BY <1>1
<1>6. Clock!Unsigned(n) = n % N
  BY DEF Clock!Unsigned, N
<1>7. 4 * Half = 2 * N /\ - 2 * Half = - N
  BY <1>1 DEF N
<1>8. N = 2 * Half
  BY DEF N
<1>9. QED
  BY <1>2, <1>3, <1>4, <1>5, <1>6, <1>7, <1>8

\* A clock that goes on, also over its end, shows the time that has passed.
LEMMA ClockGoesOn ==
  ASSUME NEW c \in 0 .. 2 * Half - 1, NEW n \in 0 .. 2 * Half - 1, NEW d \in Nat,
         d + Clock!Unsigned(c - n) < 2 * Half
  PROVE  /\ Clock!Unsigned(c + d) \in 0 .. 2 * Half - 1
         /\ Clock!Unsigned(Clock!Unsigned(c + d) - n) = Clock!Unsigned(c - n) + d
<1>1. Half \in Nat
  BY ClockAssumption DEF Clock!ClockAssumption
<1>2. Clock!Unsigned(c - n) = IF c >= n THEN c - n ELSE c - n + 2 * Half
  BY <1>1, Wraps
<1>3. Clock!Unsigned(c + d) = IF c + d < 2 * Half THEN c + d ELSE c + d - 2 * Half
  <2>1. d < 2 * Half
    BY <1>1, <1>2
  <2>2. c + d \in 0 .. 4 * Half - 1
    BY <1>1, <2>1
  <2>3. QED
    BY <1>1, <2>2, Wraps
<1>4. Clock!Unsigned(c + d) \in 0 .. 2 * Half - 1
  BY <1>1, Wraps
<1> DEFINE e == Clock!Unsigned(c + d)
<1>5. Clock!Unsigned(e - n) = IF e >= n THEN e - n ELSE e - n + 2 * Half
  <2>1. e \in 0 .. 2 * Half - 1
    BY <1>4
  <2> HIDE DEF e
  <2>2. QED
    BY <1>1, <2>1, Wraps
<1>6. QED
  BY <1>1, <1>2, <1>3, <1>4, <1>5

\* What is left of TIMER_PRECISION when d has passed, and no less than nothing
LEMMA LeftToSleep ==
  ASSUME NEW d \in Nat, d <= Precision + MaxLate + MaxWork
  PROVE  LET n == Clock!Signed(Clock!Unsigned(Precision - d)) IN
         (IF n < 0 THEN 0 ELSE n) = IF d <= Precision THEN Precision - d ELSE 0
<1>1. /\ Half \in Nat /\ Precision \in Nat /\ MaxLate \in Nat /\ MaxWork \in Nat
      /\ Precision + MaxLate + MaxWork < Half
  BY ClockAssumption DEF Clock!ClockAssumption
<1>2. CASE d <= Precision
  <2>1. Clock!Unsigned(Precision - d) = Precision - d
    BY <1>1, <1>2, Wraps
  <2>2. QED
    BY <1>1, <1>2, <2>1 DEF Clock!Signed
<1>3. CASE d > Precision
  <2>1. Clock!Unsigned(Precision - d) = Precision - d + 2 * Half
    BY <1>1, <1>3, Wraps
  <2>2. QED
    BY <1>1, <1>3, <2>1 DEF Clock!Signed
<1>4. QED
  BY <1>1, <1>2, <1>3

LEMMA DueGrows ==
  ASSUME NEW n \in Nat
  PROVE  Due(n) \in Nat /\ Due(n + 1) = Due(n) + Precision
BY ClockAssumption DEF Clock!ClockAssumption, Due

LEMMA WakesKeeps ==
  ASSUME ClockInv, NEW nLate \in 0 .. MaxLate, Clock!Wakes(nLate)
  PROVE  ClockInv'
<1>1. /\ Half \in Nat /\ Precision \in Nat /\ MaxLate \in Nat /\ MaxWork \in Nat
      /\ Precision + MaxLate + MaxWork < Half
  BY ClockAssumption DEF Clock!ClockAssumption
<1>2. ClockTypeOK /\ OnTime
  BY DEF ClockInv
<1>3. /\ nTimeToSleep \in 0 .. Precision /\ elapsed \in Nat /\ ticks \in Nat
      /\ clock \in 0 .. 2 * Half - 1
  BY <1>2 DEF ClockTypeOK
<1> DEFINE d == nTimeToSleep + nLate
<1>4. d \in nTimeToSleep .. Precision + MaxLate /\ d \in Nat
  BY <1>1, <1>3
<1>5. Clock!Unsigned(nTimeToSleep) = nTimeToSleep
  BY <1>1, <1>3, Wraps
<1>6. /\ pc = "asleep" /\ pc' = "tick"
      /\ clock' = Clock!Unsigned(clock + d) /\ elapsed' = elapsed + d
      /\ UNCHANGED <<nTicks, nTimeToSleep, ticks>>
  BY <1>5 DEF Clock!Wakes, Clock!Pass
<1>7. nTicks = clock /\ 2 * elapsed + nTimeToSleep >= Due(ticks + 1)
  BY <1>2, <1>6 DEF OnTime
<1> HIDE DEF d
<1>8. Clock!Unsigned(clock - nTicks) = 0
  BY <1>1, <1>3, <1>7, Wraps
<1>9. /\ clock' \in 0 .. 2 * Half - 1
      /\ Clock!Unsigned(clock' - nTicks) = d
  <2>1. d + Clock!Unsigned(clock - nTicks) < 2 * Half
    BY <1>1, <1>4, <1>8
  <2>2. nTicks \in 0 .. 2 * Half - 1
    BY <1>3, <1>7
  <2>3. /\ Clock!Unsigned(clock + d) \in 0 .. 2 * Half - 1
        /\ Clock!Unsigned(Clock!Unsigned(clock + d) - nTicks) =
             Clock!Unsigned(clock - nTicks) + d
    BY <1>3, <1>4, <2>1, <2>2, ClockGoesOn
  <2>4. QED
    BY <1>4, <1>6, <1>8, <2>3
<1>10. ClockTypeOK'
  BY <1>2, <1>3, <1>4, <1>6, <1>9 DEF ClockTypeOK
<1>11. Slept' = d
  BY <1>6, <1>9 DEF Slept, Clock!Unsigned
<1>12. Due(ticks + 1)' = Due(ticks + 1) /\ Due(ticks + 1) \in Nat
  BY <1>3, <1>6, DueGrows DEF Due
<1>13. 2 * (elapsed' - d) + nTimeToSleep >= Due(ticks + 1)
  BY <1>3, <1>4, <1>6, <1>7, <1>12
<1>14. OnTime'
  BY <1>4, <1>6, <1>11, <1>12, <1>13 DEF OnTime
<1>15. QED
  BY <1>10, <1>14 DEF ClockInv

LEMMA TickKeeps ==
  ASSUME ClockInv, NEW nWork \in 0 .. MaxWork, Clock!Tick(nWork)
  PROVE  ClockInv'
<1>1. /\ Half \in Nat /\ Precision \in Nat /\ MaxLate \in Nat /\ MaxWork \in Nat
      /\ Precision + MaxLate + MaxWork < Half
  BY ClockAssumption DEF Clock!ClockAssumption
<1>2. ClockTypeOK /\ OnTime
  BY DEF ClockInv
<1>3. /\ nTimeToSleep \in 0 .. Precision /\ elapsed \in Nat /\ ticks \in Nat
      /\ clock \in 0 .. 2 * Half - 1 /\ nTicks \in 0 .. 2 * Half - 1
  BY <1>2 DEF ClockTypeOK
<1>4. /\ pc = "tick" /\ pc' = "loop" /\ ticks' = ticks + 1
      /\ clock' = Clock!Unsigned(clock + nWork) /\ elapsed' = elapsed + nWork
      /\ nTimeToSleep' = Clock!TimeToSleep(clock') /\ nTicks' = nTicks
  BY DEF Clock!Tick, Clock!Pass
<1> DEFINE d == Clock!Unsigned(clock - nTicks)
<1>5. /\ d \in nTimeToSleep .. Precision + MaxLate
      /\ 2 * (elapsed - d) + nTimeToSleep >= Due(ticks + 1)
  BY <1>2, <1>4 DEF OnTime, Slept
<1>6. d + nWork <= Precision + MaxLate + MaxWork /\ d \in Nat /\ nWork \in Nat
  BY <1>1, <1>3, <1>5
<1>7. /\ clock' \in 0 .. 2 * Half - 1
      /\ Clock!Unsigned(clock' - nTicks) = d + nWork
  <2>1. nWork + Clock!Unsigned(clock - nTicks) < 2 * Half
    BY <1>1, <1>6
  <2>2. /\ Clock!Unsigned(clock + nWork) \in 0 .. 2 * Half - 1
        /\ Clock!Unsigned(Clock!Unsigned(clock + nWork) - nTicks) = d + nWork
    BY <1>3, <1>6, <2>1, ClockGoesOn
  <2>3. QED
    BY <1>4, <2>2
<1> HIDE DEF d
<1>8. nTimeToSleep' = IF d + nWork <= Precision THEN Precision - (d + nWork) ELSE 0
  <2>1. d + nWork \in Nat
    BY <1>6
  <2>2. QED
    BY <1>4, <1>6, <1>7, <2>1, LeftToSleep DEF Clock!TimeToSleep
<1>9. nTimeToSleep' \in 0 .. Precision /\ nTimeToSleep' >= Precision - (d + nWork)
  BY <1>1, <1>6, <1>8
<1>10. ClockTypeOK'
  BY <1>2, <1>3, <1>4, <1>6, <1>7, <1>9 DEF ClockTypeOK
<1>11. /\ Due(ticks + 1) \in Nat /\ Due((ticks + 1) + 1) = Due(ticks + 1) + Precision
  BY <1>3, DueGrows
<1>12. Due(ticks + 1)' = Due(ticks + 1) + Precision
  BY <1>4, <1>11 DEF Due
<1>13. 2 * elapsed' + nTimeToSleep' >= Due(ticks + 1) + Precision
  BY <1>1, <1>3, <1>4, <1>5, <1>6, <1>9, <1>11
<1>14. OnTime'
  BY <1>4, <1>12, <1>13 DEF OnTime
<1>15. QED
  BY <1>10, <1>14 DEF ClockInv

LEMMA ClockInvAlways == Clock!Spec => []ClockInv
<1>1. ASSUME Clock!Init PROVE ClockInv
  <2>1. Half \in Nat /\ Precision \in Nat /\ Half > 0
    BY ClockAssumption DEF Clock!ClockAssumption
  <2>2. ClockTypeOK
    BY <1>1, <2>1 DEF Clock!Init, ClockTypeOK
  <2>3. OnTime
    BY <1>1, <2>1 DEF Clock!Init, OnTime, Due
  <2>4. QED
    BY <2>2, <2>3 DEF ClockInv
<1>2. ASSUME ClockInv, Clock!Loop PROVE ClockInv'
  <2>1. /\ pc = "loop" /\ pc' = "asleep" /\ nTicks' = clock
        /\ UNCHANGED <<clock, nTimeToSleep, elapsed, ticks>>
    BY <1>2 DEF Clock!Loop
  <2>2. ClockTypeOK'
    BY <1>2, <2>1 DEF ClockInv, ClockTypeOK
  <2>3. OnTime'
    BY <1>2, <2>1 DEF ClockInv, OnTime, Due
  <2>4. QED
    BY <2>2, <2>3 DEF ClockInv
<1>3. ASSUME ClockInv, UNCHANGED Clock!vars PROVE ClockInv'
  BY <1>3 DEF Clock!vars, ClockInv, ClockTypeOK, OnTime, Slept, Clock!Unsigned, Due
<1>4. ClockInv /\ [Clock!Next]_(Clock!vars) => ClockInv'
  BY <1>2, <1>3, WakesKeeps, TickKeeps DEF Clock!Next
<1>5. QED
  BY <1>1, <1>4, PTL DEF Clock!Spec

\* The counting thread never sleeps longer than TIMER_PRECISION, for any range of the
\* clock and any delays that are shorter together than half of it.
THEOREM SleepIsBounded == Clock!Spec => []SleepBounded
<1>1. ClockInv => SleepBounded
  BY DEF ClockInv, ClockTypeOK, SleepBounded, Clock!SleepBounded
<1>2. QED
  BY <1>1, ClockInvAlways, PTL

\* Any n ticks take at least n halves of TIMER_PRECISION, in any length of time.
THEOREM NoTimerIsTwiceAsFast == Clock!Spec => []AtMostTwicePerSecond
<1>1. ASSUME ClockInv PROVE AtMostTwicePerSecond
  <2>1. /\ Precision \in Nat /\ nTimeToSleep \in 0 .. Precision
        /\ elapsed \in Nat /\ ticks \in Nat /\ MaxLate \in Nat
    BY <1>1, ClockAssumption DEF Clock!ClockAssumption, ClockInv, ClockTypeOK
  <2>2. Due(ticks) \in Nat /\ Due(ticks + 1) = Due(ticks) + Precision
    BY <2>1, DueGrows
  <2>3. CASE pc \in {"loop", "asleep"}
    <3>1. 2 * elapsed + nTimeToSleep >= Due(ticks + 1)
      BY <1>1, <2>3 DEF ClockInv, OnTime
    <3>2. Due(ticks) <= 2 * elapsed
      BY <2>1, <2>2, <3>1
    <3>3. QED
      BY <3>2 DEF AtMostTwicePerSecond, Clock!AtMostTwicePerSecond, Due
  <2>4. CASE pc = "tick"
    <3>1. /\ Slept \in nTimeToSleep .. Precision + MaxLate
          /\ 2 * (elapsed - Slept) + nTimeToSleep >= Due(ticks + 1)
      BY <1>1, <2>4 DEF ClockInv, OnTime
    <3>2. Due(ticks) <= 2 * elapsed
      BY <2>1, <2>2, <3>1
    <3>3. QED
      BY <3>2 DEF AtMostTwicePerSecond, Clock!AtMostTwicePerSecond, Due
  <2>5. QED
    BY <1>1, <2>3, <2>4 DEF ClockInv, ClockTypeOK
<1>2. QED
  BY <1>1, ClockInvAlways, PTL
-----------------------------------------------------------------------------
\* Induction and recursion over numbers

Less == {r \in Nat \X Nat : r[1] < r[2]}

\* A set of natural numbers that is not empty has a least one.
LEMMA LeastNumber ==
  ASSUME NEW T \in SUBSET Nat, T # {}
  PROVE  \E x \in T : \A y \in T : x <= y
<1>1. IsWellFoundedOn(Less, Nat)
  BY NatLessThanWellFounded DEF OpToRel, Less
<1>2. PICK x \in T : \A y \in T : <<y, x>> \notin Less
  BY <1>1, WFMin
<1>3. \A a, b \in Nat : a < b => <<a, b>> \in Less
  BY DEF Less
<1>4. ASSUME NEW y \in T PROVE x <= y
  <2>1. x \in Nat /\ y \in Nat
    OBVIOUS
  <2>2. ~(y < x)
    BY <1>2, <1>3, <2>1, Zenon
  <2>3. QED
    BY <2>1, <2>2
<1>5. QED
  BY <1>4

\* A set that has 0 and, with every number below m, the next one has all up to m.
LEMMA AllUpTo ==
  ASSUME NEW m \in Nat, NEW T, 0 \in T, \A k \in 1 .. m : k - 1 \in T => k \in T
  PROVE  0 .. m \subseteq T
<1> DEFINE U == (0 .. m) \ T
<1>1. SUFFICES ASSUME U # {} PROVE FALSE
  OBVIOUS
<1>2. PICK x \in U : \A y \in U : x <= y
  <2>1. U \in SUBSET Nat
    OBVIOUS
  <2>2. QED
    BY <1>1, <2>1, LeastNumber
<1>3. x \in 1 .. m /\ x - 1 \in 0 .. m /\ x - 1 \notin U
  BY <1>2
<1>4. QED
  BY <1>2, <1>3

\* What a definition by recursion up to m defines
Recursively(f, m, a, F) ==
  f[0] = a /\ \A k \in 1 .. m : f[k] = F[<<k, f[k - 1]>>]

LEMMA RecursionExists ==
  ASSUME NEW S, NEW a \in S, NEW m \in Nat, NEW F \in [(1 .. m) \X S -> S]
  PROVE  \E f \in [0 .. m -> S] : Recursively(f, m, a, F)
<1> DEFINE T == {l \in 0 .. m : \E f \in [0 .. l -> S] : Recursively(f, l, a, F)}
<1>1. 0 \in T
  <2> DEFINE f == [k \in 0 .. 0 |-> a]
  <2>1. f \in [0 .. 0 -> S] /\ Recursively(f, 0, a, F)
    BY DEF Recursively
  <2>2. QED
    BY <2>1
<1>2. ASSUME NEW l \in 1 .. m, l - 1 \in T PROVE l \in T
  <2>1. PICK f \in [0 .. l - 1 -> S] : Recursively(f, l - 1, a, F)
    BY <1>2
  <2> DEFINE g == [k \in 0 .. l |-> IF k = l THEN F[<<l, f[l - 1]>>] ELSE f[k]]
  <2>2. l - 1 \in 0 .. l - 1 /\ f[l - 1] \in S /\ F[<<l, f[l - 1]>>] \in S
    BY <2>1
  <2>3. g \in [0 .. l -> S]
    BY <2>1, <2>2
  <2>4. g[0] = a /\ \A k \in 1 .. l - 1 : g[k] = f[k] /\ g[k - 1] = f[k - 1]
    BY <2>1 DEF Recursively
  <2>5. g[l] = F[<<l, g[l - 1]>>]
    <3>1. g[l] = F[<<l, f[l - 1]>>]
      OBVIOUS
    <3>2. l - 1 \in 0 .. l /\ l - 1 # l
      OBVIOUS
    <3>3. g[l - 1] = f[l - 1]
      BY <3>2
    <3>4. QED
      BY <3>1, <3>3
  <2>6. ASSUME NEW k \in 1 .. l PROVE g[k] = F[<<k, g[k - 1]>>]
    <3>1. CASE k = l
      BY <2>5, <3>1
    <3>2. CASE k # l
      <4>1. k \in 1 .. l - 1
        BY <3>2
      <4>2. g[k] = f[k] /\ g[k - 1] = f[k - 1]
        BY <2>4, <4>1
      <4>3. f[k] = F[<<k, f[k - 1]>>]
        BY <2>1, <4>1 DEF Recursively
      <4>4. QED
        BY <4>2, <4>3
    <3>3. QED
      BY <3>1, <3>2
  <2>7. Recursively(g, l, a, F)
    BY <2>4, <2>6 DEF Recursively
  <2>8. QED
    BY <2>3, <2>7
<1> HIDE DEF T
<1>3. m \in T
  BY <1>1, <1>2, AllUpTo
<1>4. QED
  BY <1>3 DEF T

\* A function on 1 .. n is a sequence of length n.
LEMMA FunctionIsSeq ==
  ASSUME NEW S, NEW n \in Nat, NEW f \in [1 .. n -> S]
  PROVE  f \in Seq(S) /\ Len(f) = n /\ DOMAIN f = 1 .. n
<1>1. f \in Seq(S)
  BY SeqDef
<1>2. Len(f) \in Nat /\ DOMAIN f = 1 .. Len(f) /\ DOMAIN f = 1 .. n
  BY <1>1, LenProperties
<1>3. Len(f) = n
  BY <1>2
<1>4. QED
  BY <1>1, <1>2, <1>3

-----------------------------------------------------------------------------
\* The conversions

Byte256 == 0 .. 255

LEMMA HalvesOfByte ==
  ASSUME NEW b \in Byte256
  PROVE  b \div 16 \in 0 .. 15 /\ b % 16 \in 0 .. 15
BY DEF Byte256

LEMMA ByteOfHalves ==
  ASSUME NEW b \in Byte256, NEW q \in Nat, NEW r \in Nat, q = b \div 16, r = b % 16
  PROVE  16 * q + r = b
BY DEF Byte256

LEMMA HexBack ==
  ASSUME NEW data \in Seq(Byte256)
  PROVE  Codec!FromHex(Codec!ToHex(data)) = data
<1> DEFINE n == Len(data)
           c(k) == data[(k + 1) \div 2]
           h == [k \in 1 .. 2 * n |-> IF k % 2 = 1 THEN c(k) \div 16 ELSE c(k) % 16]
<1>1. n \in Nat /\ DOMAIN data = 1 .. n /\ \A k \in 1 .. n : data[k] \in Byte256
  BY LenProperties, ElementOfSeq
<1>2. Codec!ToHex(data) = h
  BY DEF Codec!ToHex
<1> HIDE DEF n
<1>3. h \in [1 .. 2 * n -> 0 .. 15]
  <2>1. ASSUME NEW k \in 1 .. 2 * n
        PROVE  (IF k % 2 = 1 THEN c(k) \div 16 ELSE c(k) % 16) \in 0 .. 15
    <3>1. (k + 1) \div 2 \in 1 .. n
      BY <1>1
    <3>2. c(k) \in Byte256
      BY <1>1, <3>1
    <3> HIDE DEF c
    <3>3. QED
      BY <3>2, HalvesOfByte
  <2> HIDE DEF c
  <2>2. QED
    BY <2>1
<1>4. Len(h) = 2 * n
  <2> HIDE DEF h
  <2>1. 2 * n \in Nat
    BY <1>1
  <2>2. QED
    BY <1>3, <2>1, FunctionIsSeq
<1>5. ASSUME NEW k \in 1 .. n PROVE 16 * h[2 * k - 1] + h[2 * k] = data[k]
  <2>1. /\ 2 * k - 1 \in 1 .. 2 * n /\ 2 * k \in 1 .. 2 * n
        /\ (2 * k - 1) % 2 = 1 /\ (2 * k) % 2 # 1
        /\ ((2 * k - 1) + 1) \div 2 = k /\ (2 * k + 1) \div 2 = k
    BY <1>1
  <2>2. h[2 * k - 1] = data[k] \div 16 /\ h[2 * k] = data[k] % 16
    BY <2>1
  <2>3. data[k] \in Byte256
    BY <1>1
  <2> HIDE DEF h
  <2>4. h[2 * k - 1] \in Nat /\ h[2 * k] \in Nat
    BY <1>3, <2>1
  <2>5. QED
    BY <2>2, <2>3, <2>4, ByteOfHalves
<1> HIDE DEF h
<1>6. (2 * n) \div 2 = n
  BY <1>1
<1>7. Codec!FromHex(h) = [k \in 1 .. n |-> 16 * h[2 * k - 1] + h[2 * k]]
  BY <1>4, <1>6 DEF Codec!FromHex
<1>8. Codec!FromHex(h) = [k \in 1 .. n |-> data[k]]
  BY <1>5, <1>7
<1>9. QED
  BY <1>1, <1>2, <1>8

\* The four characters for three bytes, and the three bytes of four characters
LEMMA CharactersOfBytes ==
  ASSUME NEW b0 \in Byte256, NEW b1 \in Byte256, NEW b2 \in Byte256
  PROVE  /\ b0 \div 4 \in 0 .. 63 /\ (b0 % 4) * 16 + (b1 \div 16) \in 0 .. 63
         /\ (b1 % 16) * 4 + (b2 \div 64) \in 0 .. 63 /\ b2 % 64 \in 0 .. 63
         /\ (b1 % 16) * 4 \in 0 .. 63
BY DEF Byte256

LEMMA FirstByteBack ==
  ASSUME NEW b0 \in Byte256, NEW b1 \in Byte256
  PROVE  (b0 \div 4) * 4 + (((b0 % 4) * 16 + (b1 \div 16)) \div 16) = b0
<1> DEFINE q == b0 \div 4
           r == b0 % 4
           s == b1 \div 16
<1>1. q \in Nat /\ r \in Nat /\ s \in 0 .. 15 /\ b0 = 4 * q + r
  BY DEF Byte256
<1> HIDE DEF q, r, s
<1>2. (r * 16 + s) \div 16 = r
  BY <1>1
<1>3. q * 4 + ((r * 16 + s) \div 16) = b0
  BY <1>1, <1>2
<1>4. QED
  BY <1>3 DEF q, r, s

LEMMA SecondByteBack ==
  ASSUME NEW b0 \in Byte256, NEW b1 \in Byte256, NEW b2 \in Byte256
  PROVE  (((b0 % 4) * 16 + (b1 \div 16)) % 16) * 16
           + (((b1 % 16) * 4 + (b2 \div 64)) \div 4) = b1
<1> DEFINE p == b0 % 4
           q == b1 \div 16
           r == b1 % 16
           s == b2 \div 64
<1>1. p \in Nat /\ q \in 0 .. 15 /\ r \in Nat /\ s \in 0 .. 3 /\ b1 = 16 * q + r
  BY DEF Byte256
<1> HIDE DEF p, q, r, s
<1>2. (p * 16 + q) % 16 = q
  BY <1>1
<1>3. (r * 4 + s) \div 4 = r
  BY <1>1
<1>4. ((p * 16 + q) % 16) * 16 + ((r * 4 + s) \div 4) = b1
  BY <1>1, <1>2, <1>3
<1>5. QED
  BY <1>4 DEF p, q, r, s

LEMMA ThirdByteBack ==
  ASSUME NEW b1 \in Byte256, NEW b2 \in Byte256
  PROVE  (((b1 % 16) * 4 + (b2 \div 64)) % 4) * 64 + (b2 % 64) = b2
<1> DEFINE p == b1 % 16
           q == b2 \div 64
           r == b2 % 64
<1>1. p \in Nat /\ q \in 0 .. 3 /\ r \in Nat /\ b2 = 64 * q + r
  BY DEF Byte256
<1> HIDE DEF p, q, r
<1>2. (p * 4 + q) % 4 = q
  BY <1>1
<1>3. ((p * 4 + q) % 4) * 64 + r = b2
  BY <1>1, <1>2
<1>4. QED
  BY <1>3 DEF p, q, r

\* The padding at the end of a text is as long as one thinks.
LEMMA TrailsFound ==
  ASSUME NEW str, Len(str) \in Nat, NEW t \in 0 .. Len(str),
         \A k \in Len(str) - t + 1 .. Len(str) : str[k] = Codec!Pad,
         t < Len(str) => str[Len(str) - t] # Codec!Pad
  PROVE  Codec!TrailsCnt(str) = t
<1> DEFINE L == Len(str)
           IsCnt(n) == /\ \A k \in (L - n + 1) .. L : str[k] = Codec!Pad
                       /\ n < L => str[L - n] # Codec!Pad
<1>1. L \in Nat /\ t \in 0 .. L /\ IsCnt(t)
  OBVIOUS
<1>2. Codec!TrailsCnt(str) = CHOOSE n \in 0 .. L : IsCnt(n)
  BY DEF Codec!TrailsCnt
<1> HIDE DEF L
<1>3. ASSUME NEW n \in 0 .. L, IsCnt(n) PROVE n = t
  <2>1. CASE n < t
    <3>1. L - n \in L - t + 1 .. L /\ n < L
      BY <1>1, <2>1
    <3>2. QED
      BY <1>1, <1>3, <3>1
  <2>2. CASE n > t
    <3>1. L - t \in L - n + 1 .. L /\ t < L
      BY <1>1, <2>2
    <3>2. QED
      BY <1>1, <1>3, <3>1
  <2>3. QED
    BY <1>1, <2>1, <2>2
<1> HIDE DEF IsCnt
<1>4. QED
  BY <1>1, <1>2, <1>3

LEMMA BytesAround ==
  ASSUME NEW data \in Seq(Byte256), NEW behind \in [1 .. 2 -> Byte256],
         NEW i \in 1 .. Len(data), NEW d \in 0 .. 2
  PROVE  Codec!At(data, i + d, behind) \in Byte256
<1>1. Len(data) \in Nat /\ \A k \in 1 .. Len(data) : data[k] \in Byte256
  BY LenProperties, ElementOfSeq
<1>2. CASE i + d <= Len(data)
  <2>1. i + d \in 1 .. Len(data)
    BY <1>1, <1>2
  <2>2. QED
    BY <1>1, <1>2, <2>1 DEF Codec!At
<1>3. CASE ~(i + d <= Len(data))
  <2>1. (i + d) - Len(data) \in 1 .. 2
    BY <1>1, <1>3
  <2>2. QED
    BY <1>3, <2>1 DEF Codec!At
<1>4. QED
  BY <1>2, <1>3

\* Which characters are padding
LEMMA CharacterFacts ==
  ASSUME NEW data \in Seq(Byte256), NEW behind \in [1 .. 2 -> Byte256],
         NEW i \in 1 .. Len(data)
  PROVE  LET c(j) == Codec!Character(data, behind, i, j) IN
         /\ c(0) \in 0 .. 63 /\ c(1) \in 0 .. 63
         /\ IF i + 1 <= Len(data) THEN c(2) \in 0 .. 63 ELSE c(2) = Codec!Pad
         /\ IF i + 2 <= Len(data) THEN c(3) \in 0 .. 63 ELSE c(3) = Codec!Pad
<1> DEFINE b0 == Codec!At(data, i, behind)
           b1 == Codec!At(data, i + 1, behind)
           b2 == Codec!At(data, i + 2, behind)
<1>1. b0 \in Byte256 /\ b1 \in Byte256 /\ b2 \in Byte256
  <2>1. i + 0 = i
    BY LenProperties
  <2>2. /\ Codec!At(data, i + 0, behind) \in Byte256
        /\ Codec!At(data, i + 1, behind) \in Byte256
        /\ Codec!At(data, i + 2, behind) \in Byte256
    BY BytesAround
  <2>3. QED
    BY <2>1, <2>2
<1>2. /\ Codec!Character(data, behind, i, 0) = b0 \div 4
      /\ Codec!Character(data, behind, i, 1) = (b0 % 4) * 16 + (b1 \div 16)
      /\ Codec!Character(data, behind, i, 2) =
           IF i + 1 <= Len(data) THEN (b1 % 16) * 4 + (b2 \div 64) ELSE Codec!Pad
      /\ Codec!Character(data, behind, i, 3) =
           IF i + 2 <= Len(data) THEN b2 % 64 ELSE Codec!Pad
  BY DEF Codec!Character
<1> HIDE DEF b0, b1, b2
<1>3. QED
  BY <1>1, <1>2, CharactersOfBytes

\* The bytes that the four characters from place i stand for
LEMMA ByteFacts ==
  ASSUME NEW data \in Seq(Byte256), NEW behind \in [1 .. 2 -> Byte256],
         NEW i \in 1 .. Len(data), NEW str, NEW p \in Nat,
         \A j \in 0 .. 3 : str[p + j] = Codec!Character(data, behind, i, j)
  PROVE  /\ Codec!Byte(str, p, 0) = data[i]
         /\ i + 1 <= Len(data) => Codec!Byte(str, p, 1) = data[i + 1]
         /\ i + 2 <= Len(data) => Codec!Byte(str, p, 2) = data[i + 2]
<1> DEFINE b0 == Codec!At(data, i, behind)
           b1 == Codec!At(data, i + 1, behind)
           b2 == Codec!At(data, i + 2, behind)
           c(j) == Codec!Character(data, behind, i, j)
<1>1. b0 \in Byte256 /\ b1 \in Byte256 /\ b2 \in Byte256
  <2>1. i + 0 = i
    BY LenProperties
  <2>2. /\ Codec!At(data, i + 0, behind) \in Byte256
        /\ Codec!At(data, i + 1, behind) \in Byte256
        /\ Codec!At(data, i + 2, behind) \in Byte256
    BY BytesAround
  <2>3. QED
    BY <2>1, <2>2
<1>2. /\ b0 = data[i]
      /\ i + 1 <= Len(data) => b1 = data[i + 1]
      /\ i + 2 <= Len(data) => b2 = data[i + 2]
  BY LenProperties DEF Codec!At
<1>3. /\ c(0) = b0 \div 4 /\ c(1) = (b0 % 4) * 16 + (b1 \div 16)
      /\ i + 1 <= Len(data) => c(2) = (b1 % 16) * 4 + (b2 \div 64)
      /\ i + 2 <= Len(data) => c(3) = b2 % 64
  BY DEF Codec!Character
<1>4. /\ c(0) \in 0 .. 63 /\ c(1) \in 0 .. 63
      /\ i + 1 <= Len(data) => c(2) \in 0 .. 63
      /\ i + 2 <= Len(data) => c(3) \in 0 .. 63
  BY CharacterFacts
<1>5. str[p + 0] = c(0) /\ str[p + 1] = c(1) /\ str[p + 2] = c(2) /\ str[p + 3] = c(3)
  OBVIOUS
<1> HIDE DEF b0, b1, b2, c
<1>6. /\ Codec!Decoded(str[p + 0]) = c(0) /\ Codec!Decoded(str[p + 1]) = c(1)
      /\ i + 1 <= Len(data) => Codec!Decoded(str[p + 2]) = c(2)
      /\ i + 2 <= Len(data) => Codec!Decoded(str[p + 3]) = c(3)
  <2>1. \A x \in 0 .. 63 : Codec!Decoded(x) = x
    BY DEF Codec!Decoded, Codec!Pad
  <2>2. QED
    BY <1>4, <1>5, <2>1
<1>7. Codec!Byte(str, p, 0) = data[i]
  <2>1. Codec!Byte(str, p, 0) = c(0) * 4 + (c(1) \div 16)
    BY <1>6 DEF Codec!Byte
  <2>2. QED
    BY <1>1, <1>2, <1>3, <2>1, FirstByteBack
<1>8. ASSUME i + 1 <= Len(data) PROVE Codec!Byte(str, p, 1) = data[i + 1]
  <2>1. Codec!Byte(str, p, 1) = (c(1) % 16) * 16 + (c(2) \div 4)
    BY <1>6, <1>8 DEF Codec!Byte
  <2>2. QED
    BY <1>1, <1>2, <1>3, <1>8, <2>1, SecondByteBack
<1>9. ASSUME i + 2 <= Len(data) PROVE Codec!Byte(str, p, 2) = data[i + 2]
  <2>1. i + 1 <= Len(data)
    BY <1>9, LenProperties
  <2>2. Codec!Byte(str, p, 2) = (c(2) % 4) * 64 + c(3)
    BY <1>6, <1>9, <2>1 DEF Codec!Byte
  <2>3. QED
    BY <1>1, <1>2, <1>3, <1>9, <2>1, <2>2, ThirdByteBack
<1>10. QED
  BY <1>7, <1>8, <1>9

LEMMA Base64Back ==
  ASSUME NEW data \in Seq(Byte256), NEW behind \in [1 .. 2 -> Byte256]
  PROVE  Codec!FromBase64(Codec!ToBase64(data, behind)) = data
<1> DEFINE n == Len(data)
           G == (n + 2) \div 3
           c(k) == Codec!Character(data, behind, ((k - 1) \div 4) * 3 + 1, (k - 1) % 4)
           b == [k \in 1 .. G * 4 |-> c(k)]
           T == 3 * G - n
<1>1. n \in Nat /\ DOMAIN data = 1 .. n
  BY LenProperties
<1>2. Codec!ToBase64(data, behind) = b
  BY DEF Codec!ToBase64
<1>3. /\ G \in Nat /\ T \in 0 .. 2 /\ n = 3 * G - T
      /\ (G * 4 + 3) \div 4 = G
  <2> DEFINE r == (n + 2) % 3
  <2>1. G \in Nat /\ r \in 0 .. 2 /\ n + 2 = 3 * G + r
    BY <1>1
  <2> HIDE DEF n, G, r
  <2>2. QED
    BY <1>1, <2>1
<1> HIDE DEF n, G, T
<1>4. G = 0 <=> n = 0
  BY <1>1, <1>3
\* The four characters of a group
<1>5. ASSUME NEW m \in 0 .. G - 1, NEW j \in 0 .. 3
      PROVE  /\ (4 * m + 1) + j \in 1 .. G * 4
             /\ b[(4 * m + 1) + j] = Codec!Character(data, behind, 3 * m + 1, j)
  <2>1. m \in Nat /\ j \in Nat
    BY <1>3
  <2>2. (4 * m + 1) + j \in 1 .. G * 4
    BY <1>3, <2>1
  <2>3. /\ (((4 * m + 1) + j) - 1) \div 4 = m /\ (((4 * m + 1) + j) - 1) % 4 = j
        /\ m * 3 + 1 = 3 * m + 1
    BY <2>1
  <2>4. QED
    BY <2>2, <2>3
<1>6. ASSUME NEW m \in 0 .. G - 1
      PROVE  3 * m + 1 \in 1 .. n
  BY <1>1, <1>3
<1>7. Len(b) = G * 4
  <2>1. b \in [1 .. G * 4 -> {c(k) : k \in 1 .. G * 4}]
    OBVIOUS
  <2>2. G * 4 \in Nat
    BY <1>3
  <2> HIDE DEF b, c
  <2>3. QED
    BY <2>1, <2>2, FunctionIsSeq
<1> HIDE DEF b
<1>8. Codec!TrailsCnt(b) = T
  <2>1. CASE G = 0
    <3>1. Len(b) = 0 /\ T = 0
      BY <1>1, <1>3, <1>4, <1>7, <2>1
    <3>2. QED
      BY <3>1, TrailsFound
  <2>2. CASE G # 0
    <3> DEFINE m == G - 1
               i == 3 * m + 1
    <3>1. m \in 0 .. G - 1 /\ i \in 1 .. n /\ i = n + T - 2 /\ 4 * m + 1 = G * 4 - 3
      BY <1>1, <1>3, <1>6, <2>2
    <3>2. /\ b[G * 4] = Codec!Character(data, behind, i, 3)
          /\ b[G * 4 - 1] = Codec!Character(data, behind, i, 2)
          /\ b[G * 4 - 2] = Codec!Character(data, behind, i, 1)
      <4>1. /\ (4 * m + 1) + 3 = G * 4 /\ (4 * m + 1) + 2 = G * 4 - 1
            /\ (4 * m + 1) + 1 = G * 4 - 2
        BY <1>3, <3>1
      <4>2. \A j \in 0 .. 3 : b[(4 * m + 1) + j] = Codec!Character(data, behind, i, j)
        BY <1>5, <3>1
      <4> HIDE DEF m, i
      <4>3. QED
        BY <4>1, <4>2
    <3> HIDE DEF m, i
    <3>3. /\ Codec!Character(data, behind, i, 1) \in 0 .. 63
          /\ IF i + 1 <= n THEN Codec!Character(data, behind, i, 2) \in 0 .. 63
                           ELSE Codec!Character(data, behind, i, 2) = Codec!Pad
          /\ IF i + 2 <= n THEN Codec!Character(data, behind, i, 3) \in 0 .. 63
                           ELSE Codec!Character(data, behind, i, 3) = Codec!Pad
      BY <3>1, CharacterFacts DEF n
    <3>4. /\ b[G * 4 - 2] # Codec!Pad
          /\ b[G * 4 - 1] = Codec!Pad <=> T = 2
          /\ b[G * 4] = Codec!Pad <=> T >= 1
      <4>1. (i + 1 <= n <=> T # 2) /\ (i + 2 <= n <=> T = 0) /\ (T >= 1 <=> T # 0)
        BY <1>1, <1>3, <3>1
      <4>2. \A x \in 0 .. 63 : x # Codec!Pad
        BY DEF Codec!Pad
      <4>3. /\ Codec!Character(data, behind, i, 1) # Codec!Pad
            /\ Codec!Character(data, behind, i, 2) = Codec!Pad <=> ~(i + 1 <= n)
            /\ Codec!Character(data, behind, i, 3) = Codec!Pad <=> ~(i + 2 <= n)
        BY <3>3, <4>2
      <4>4. QED
        BY <3>2, <4>1, <4>3
    <3>5. \A k \in G * 4 - T + 1 .. G * 4 : b[k] = Codec!Pad
      <4> TAKE k \in G * 4 - T + 1 .. G * 4
      <4>1. (k = G * 4 /\ T >= 1) \/ (k = G * 4 - 1 /\ T = 2)
        BY <1>3
      <4>2. QED
        BY <3>4, <4>1
    <3>6. b[G * 4 - T] # Codec!Pad
      BY <1>3, <3>4
    <3>7. T \in 0 .. G * 4 /\ G * 4 \in Nat
      BY <1>3, <2>2
    <3>8. QED
      BY <1>7, <3>5, <3>6, <3>7, TrailsFound
  <2>3. QED
    BY <2>1, <2>2
<1>9. Codec!FinalLen(b) - (((Codec!TrailsCnt(b) + 1) * 3) \div 4) = n
  <2>1. Codec!FinalLen(b) = 3 * G
    BY <1>3, <1>7 DEF Codec!FinalLen
  <2>2. ((T + 1) * 3) \div 4 = T
    BY <1>3
  <2>3. QED
    BY <1>1, <1>3, <1>8, <2>1, <2>2
<1>10. ASSUME NEW k \in 1 .. n
       PROVE  Codec!Byte(b, ((k - 1) \div 3) * 4 + 1, (k - 1) % 3) = data[k]
  <2> DEFINE m == (k - 1) \div 3
             j == (k - 1) % 3
  <2>1. m \in 0 .. G - 1 /\ j \in 0 .. 2 /\ k = (3 * m + 1) + j /\ m * 4 + 1 = 4 * m + 1
    BY <1>1, <1>3
  <2> HIDE DEF m, j
  <2>2. 3 * m + 1 \in 1 .. n /\ 4 * m + 1 \in Nat
    BY <1>3, <1>6, <2>1
  <2>3. \A l \in 0 .. 3 : b[(4 * m + 1) + l] = Codec!Character(data, behind, 3 * m + 1, l)
    BY <1>5, <2>1
  <2>4. /\ Codec!Byte(b, 4 * m + 1, 0) = data[3 * m + 1]
        /\ (3 * m + 1) + 1 <= n => Codec!Byte(b, 4 * m + 1, 1) = data[(3 * m + 1) + 1]
        /\ (3 * m + 1) + 2 <= n => Codec!Byte(b, 4 * m + 1, 2) = data[(3 * m + 1) + 2]
    BY <2>2, <2>3, ByteFacts DEF n
  <2>5. Codec!Byte(b, 4 * m + 1, j) = data[k]
    <3>1. k <= n /\ 3 * m + 1 \in Nat
      BY <2>2
    <3>2. CASE j = 0
      <4>1. k = 3 * m + 1
        BY <2>1, <3>1, <3>2
      <4>2. QED
        BY <2>4, <3>2, <4>1
    <3>3. CASE j = 1
      BY <2>1, <2>4, <3>1, <3>3
    <3>4. CASE j = 2
      BY <2>1, <2>4, <3>1, <3>4
    <3>5. QED
      BY <2>1, <3>2, <3>3, <3>4
  <2>6. QED
    BY <2>1, <2>5 DEF m, j
<1>11. Codec!FromBase64(b) =
         [k \in 1 .. n |-> Codec!Byte(b, ((k - 1) \div 3) * 4 + 1, (k - 1) % 3)]
  BY <1>9 DEF Codec!FromBase64
<1>12. Codec!FromBase64(b) = [k \in 1 .. n |-> data[k]]
  BY <1>10, <1>11
<1>13. QED
  BY <1>1, <1>2, <1>12

-----------------------------------------------------------------------------
\* itoa

LEMMA QuotientOf ==
  ASSUME NEW b \in Nat \ {0}, NEW q \in Nat, NEW r \in 0 .. b - 1
  PROVE  (q * b + r) \div b = q /\ (q * b + r) % b = r
OBVIOUS

LEMMA DivisionOf ==
  ASSUME NEW x \in Nat, NEW b \in Nat \ {0}
  PROVE  /\ x \div b \in Nat /\ x % b \in 0 .. b - 1
         /\ x = (x \div b) * b + (x % b)
<1> DEFINE T == {k \in 0 .. x : \E q \in Nat, r \in 0 .. b - 1 : k = q * b + r}
<1>1. 0 \in T
  <2>1. 0 \in Nat /\ 0 \in 0 .. b - 1 /\ 0 = 0 * b + 0
    OBVIOUS
  <2>2. QED
    BY <2>1
<1>2. ASSUME NEW k \in 1 .. x, k - 1 \in T PROVE k \in T
  <2>1. PICK q \in Nat, r \in 0 .. b - 1 : k - 1 = q * b + r
    BY <1>2
  <2>2. CASE r = b - 1
    <3>1. q + 1 \in Nat /\ 0 \in 0 .. b - 1 /\ k = (q + 1) * b + 0
      BY <2>1, <2>2
    <3>2. QED
      BY <3>1
  <2>3. CASE r # b - 1
    <3>1. r + 1 \in 0 .. b - 1 /\ k = q * b + (r + 1)
      BY <2>1, <2>3
    <3>2. QED
      BY <3>1
  <2>4. QED
    BY <2>2, <2>3
<1> HIDE DEF T
<1>3. x \in T
  BY <1>1, <1>2, AllUpTo
<1>4. PICK q \in Nat, r \in 0 .. b - 1 : x = q * b + r
  BY <1>3 DEF T
<1>5. x \div b = q /\ x % b = r
  BY <1>4, QuotientOf
<1> DEFINE d == x \div b
           e == x % b
<1>6. d = q /\ e = r
  BY <1>5
<1> HIDE DEF d, e
<1>7. d \in Nat /\ e \in 0 .. b - 1 /\ x = d * b + e
  BY <1>4, <1>6, Zenon
<1>8. QED
  BY <1>7 DEF d, e

LEMMA DivisionNat ==
  ASSUME NEW b \in Nat \ {0}
  PROVE  \A m \in Nat : m \div b \in Nat /\ m % b \in Nat
<1>1. TAKE m \in Nat
<1>2. m \div b \in Nat /\ m % b \in 0 .. b - 1
  BY DivisionOf
<1>3. QED
  BY <1>2

LEMMA Halved ==
  ASSUME NEW x \in Nat, NEW b \in Nat \ {0, 1}, NEW c \in Nat, x <= 2 * c + 1
  PROVE  x \div b <= c
<1> DEFINE d == x \div b
           r == x % b
<1>1. d \in Nat /\ r \in Nat /\ x = d * b + r
  BY DivisionOf
<1> HIDE DEF d, r
<1>2. d * b >= d * 2
  BY <1>1
<1>3. d <= c
  BY <1>1, <1>2
<1>4. QED
  BY <1>3 DEF d

\* The least int is left out, so no quotient needs more than 31 digits.
LEMMA DigitsOf ==
  ASSUME NEW n \in Nat, n <= Codec!GreatestInt, NEW b \in Nat \ {0, 1}
  PROVE  \E q \in [0 .. 31 -> Nat], c \in 1 .. 31 :
           /\ q[0] = n /\ q[c] = 0
           /\ \A k \in 1 .. 31 : q[k] = q[k - 1] \div b
           /\ Codec!Digits(n, b) = [k \in 1 .. c |-> q[c - k] % b]
<1> DEFINE F == [p \in (1 .. 31) \X Nat |-> p[2] \div b]
           Q(f) == [k \in 0 .. 31 |-> IF k = 0 THEN n ELSE f[k - 1] \div b]
           q == CHOOSE f : f = Q(f)
           C(c) == q[c] = 0 /\ (c > 1 => q[c - 1] # 0)
           count == CHOOSE c \in 1 .. 31 : C(c)
<1>1. q = Q(q)
  <2>1. F \in [(1 .. 31) \X Nat -> Nat]
    <3>1. \A k \in Nat : k \div b \in Nat
      BY DivisionNat
    <3>2. QED
      BY <3>1
  <2>2. PICK f \in [0 .. 31 -> Nat] : Recursively(f, 31, n, F)
    <3> HIDE DEF F
    <3>1. QED
      BY <2>1, RecursionExists
  <2>3. ASSUME NEW k \in 0 .. 31 PROVE f[k] = Q(f)[k]
    <3>1. CASE k = 0
      BY <2>2, <3>1 DEF Recursively
    <3>2. CASE k # 0
      <4>1. k \in 1 .. 31 /\ k - 1 \in 0 .. 31
        BY <3>2
      <4>2. f[k - 1] \in Nat /\ f[k] = F[<<k, f[k - 1]>>]
        BY <2>2, <4>1 DEF Recursively
      <4>3. QED
        BY <3>2, <4>1, <4>2
    <3>3. QED
      BY <3>1, <3>2
  <2>4. f = Q(f)
    BY <2>2, <2>3
  <2> HIDE DEF Q
  <2>5. QED
    BY <2>4
<1>2. DOMAIN q = 0 .. 31 /\ q[0] = n /\ \A k \in 1 .. 31 : q[k] = q[k - 1] \div b
  <2> HIDE DEF q
  <2>1. DOMAIN q = 0 .. 31
    BY <1>1
  <2>2. \A k \in 0 .. 31 : q[k] = Q(q)[k]
    BY <1>1
  <2>3. QED
    BY <2>1, <2>2
<1>3. Codec!Digits(n, b) = [k \in 1 .. count |-> q[count - k] % b]
  BY DEF Codec!Digits
<1> HIDE DEF q, Q, F
<1>4. \A k \in 0 .. 31 : q[k] \in Nat
  <2> DEFINE T == {k \in 0 .. 31 : q[k] \in Nat}
  <2>1. 0 \in T
    BY <1>2
  <2>2. ASSUME NEW k \in 1 .. 31, k - 1 \in T PROVE k \in T
    <3>1. q[k - 1] \in Nat /\ b \in Nat \ {0} /\ q[k] = q[k - 1] \div b
      BY <1>2, <2>2
    <3>2. \A m \in Nat : m \div b \in Nat
      BY <3>1, DivisionNat
    <3>3. QED
      BY <3>1, <3>2
  <2> HIDE DEF T
  <2>3. 0 .. 31 \subseteq T
    BY <2>1, <2>2, AllUpTo
  <2>4. QED
    BY <2>3 DEF T
<1>5. q \in [0 .. 31 -> Nat]
  BY <1>1, <1>4 DEF Q
<1>6. q[31] = 0
  <2>1. ASSUME NEW k \in 1 .. 31, NEW c \in Nat, q[k - 1] <= 2 * c + 1 PROVE q[k] <= c
    <3>1. q[k - 1] \in Nat /\ q[k] = q[k - 1] \div b
      BY <1>2, <1>4
    <3>2. QED
      BY <2>1, <3>1, Halved
  <2>2. ASSUME NEW k \in 0 .. 29, NEW c \in Nat, q[k] <= 4 * c + 3 PROVE q[k + 2] <= c
    <3>1. q[k + 1] <= 2 * c + 1
      BY <2>1, <2>2
    <3>2. QED
      BY <2>1, <3>1
  <2>3. ASSUME NEW k \in 0 .. 27, NEW c \in Nat, q[k] <= 16 * c + 15 PROVE q[k + 4] <= c
    <3>1. q[k + 2] <= 4 * c + 3
      BY <2>2, <2>3
    <3>2. q[(k + 2) + 2] <= c
      BY <2>2, <3>1
    <3>3. QED
      BY <3>2
  <2>4. ASSUME NEW k \in 0 .. 23, NEW c \in Nat, q[k] <= 256 * c + 255 PROVE q[k + 8] <= c
    <3>1. q[k + 4] <= 16 * c + 15
      BY <2>3, <2>4
    <3>2. q[(k + 4) + 4] <= c
      BY <2>3, <3>1
    <3>3. QED
      BY <3>2
  <2>5. q[16] <= 32767
    <3>1. q[8] <= 256 * 32767 + 255
      <4>1. q[0] <= 256 * (256 * 32767 + 255) + 255
        BY <1>2, SMT DEF Codec!GreatestInt
      <4>2. QED
        BY <2>4, <4>1, SMT
    <3>2. QED
      BY <2>4, <3>1, SMT
  <2>7. q[24] <= 127
    BY <2>4, <2>5, SMT
  <2>8. q[28] <= 7
    BY <2>3, <2>7
  <2>9. q[30] <= 1
    BY <2>2, <2>8
  <2>10. q[31] <= 0
    BY <2>1, <2>9
  <2>11. QED
    BY <1>4, <2>10
<1>7. \E c \in 1 .. 31 : C(c)
  <2> DEFINE T == {c \in 1 .. 31 : q[c] = 0}
  <2>1. T \in SUBSET Nat /\ T # {}
    BY <1>6
  <2>2. PICK c \in T : \A d \in T : c <= d
    BY <2>1, LeastNumber
  <2>3. c > 1 => q[c - 1] # 0
    <3>1. SUFFICES ASSUME c > 1 PROVE c - 1 \notin T
      OBVIOUS
    <3>2. c \in Nat /\ ~(c <= c - 1)
      BY <2>1
    <3>3. QED
      BY <2>2, <3>2
  <2>4. QED
    BY <2>3
<1>8. count \in 1 .. 31 /\ q[count] = 0
  <2>1. count \in 1 .. 31 /\ C(count)
    <3> HIDE DEF C
    <3>1. QED
      BY <1>7
  <2>2. QED
    BY <2>1
<1> HIDE DEF count
<1>9. QED
  BY <1>2, <1>3, <1>5, <1>8

LEMMA NumberOfDigits ==
  ASSUME NEW n \in Nat, n <= Codec!GreatestInt, NEW b \in Nat \ {0, 1}, NEW str,
         str.digits = Codec!Digits(n, b)
  PROVE  Codec!NumberOf(str, b) = IF str.minus THEN 0 - n ELSE n
<1>1. PICK q \in [0 .. 31 -> Nat], c \in 1 .. 31 :
        /\ q[0] = n /\ q[c] = 0
        /\ \A k \in 1 .. 31 : q[k] = q[k - 1] \div b
        /\ Codec!Digits(n, b) = [k \in 1 .. c |-> q[c - k] % b]
  BY DigitsOf
<1> DEFINE d == [k \in 1 .. c |-> q[c - k] % b]
           F == [p \in (1 .. c) \X Nat |-> p[2] * b + d[p[1]]]
           V(f) == [k \in 0 .. Len(str.digits) |->
                      IF k = 0 THEN 0 ELSE f[k - 1] * b + str.digits[k]]
           v == CHOOSE f : f = V(f)
<1>2. /\ d \in [1 .. c -> Nat] /\ Len(d) = c
      /\ c \in Nat /\ str.digits = d
  <2>1. \A k \in 1 .. c : q[c - k] % b \in Nat
    <3>1. b \in Nat \ {0} /\ \A k \in 1 .. c : q[c - k] \in Nat
      OBVIOUS
    <3>2. \A m \in Nat : m % b \in Nat
      BY <3>1, DivisionNat
    <3>3. QED
      BY <3>1, <3>2
  <2>2. d \in [1 .. c -> Nat]
    BY <2>1
  <2>3. str.digits = d
    BY <1>1
  <2> HIDE DEF d
  <2>4. c \in Nat
    OBVIOUS
  <2>5. Len(d) = c
    BY <2>2, <2>4, FunctionIsSeq
  <2>6. QED
    BY <2>2, <2>3, <2>4, <2>5
<1>3. v = V(v)
  <2>1. F \in [(1 .. c) \X Nat -> Nat]
    <3>1. \A k \in 1 .. c : d[k] \in Nat
      BY <1>2
    <3> HIDE DEF d
    <3>2. \A k \in 1 .. c, m \in Nat : m * b + d[k] \in Nat
      BY <3>1
    <3>3. QED
      BY <3>2
  <2>2. PICK f \in [0 .. c -> Nat] : Recursively(f, c, 0, F)
    <3> HIDE DEF F
    <3>1. 0 \in Nat /\ c \in Nat
      OBVIOUS
    <3>2. QED
      BY <2>1, <3>1, RecursionExists
  <2>3. ASSUME NEW k \in 0 .. Len(str.digits) PROVE f[k] = V(f)[k]
    <3> HIDE DEF d
    <3>1. CASE k = 0
      BY <2>2, <3>1 DEF Recursively
    <3>2. CASE k # 0
      <4>1. k \in 1 .. c /\ k - 1 \in 0 .. c
        <5>1. Len(str.digits) = c
          BY <1>2
        <5>2. QED
          BY <3>2, <5>1
      <4>2. f[k - 1] \in Nat /\ f[k] = F[<<k, f[k - 1]>>]
        BY <2>2, <4>1 DEF Recursively
      <4>3. f[k] = f[k - 1] * b + d[k]
        BY <4>1, <4>2
      <4>4. QED
        BY <1>2, <3>2, <4>3
    <3>3. QED
      BY <3>1, <3>2
  <2>4. f = V(f)
    BY <1>2, <2>2, <2>3
  <2> HIDE DEF V
  <2>5. QED
    BY <2>4
<1> HIDE DEF d
<1>4. v[0] = 0 /\ \A k \in 1 .. c : v[k] = v[k - 1] * b + d[k]
  <2> HIDE DEF v
  <2>1. \A k \in 0 .. c : v[k] = V(v)[k]
    BY <1>3
  <2>2. ASSUME NEW k \in 1 .. c PROVE v[k] = v[k - 1] * b + d[k]
    <3>1. k \in 0 .. c /\ k # 0
      OBVIOUS
    <3>2. Len(str.digits) = c /\ str.digits = d
      BY <1>2
    <3>3. k \in 0 .. Len(str.digits)
      BY <3>1, <3>2
    <3>4. V(v)[k] = v[k - 1] * b + str.digits[k]
      BY <3>1, <3>3
    <3>5. QED
      BY <2>1, <3>1, <3>2, <3>4
  <2>3. v[0] = 0
    <3>1. 0 \in 0 .. Len(str.digits) /\ 0 \in 0 .. c
      BY <1>2
    <3>2. V(v)[0] = 0
      BY <3>1
    <3>3. QED
      BY <2>1, <3>1, <3>2
  <2>4. QED
    BY <2>2, <2>3
<1> HIDE DEF V, F
<1>5. \A k \in 0 .. c : v[k] = q[c - k]
  <2> DEFINE T == {k \in 0 .. c : v[k] = q[c - k]}
  <2> HIDE DEF v
  <2>1. 0 \in T
    <3>1. c - 0 = c /\ 0 \in 0 .. c
      OBVIOUS
    <3>2. QED
      BY <1>1, <1>4, <3>1
  <2>2. ASSUME NEW k \in 1 .. c, k - 1 \in T PROVE k \in T
    <3>1. c - k \in 0 .. 31 /\ (c - k) + 1 \in 1 .. 31 /\ c - (k - 1) = (c - k) + 1
      OBVIOUS
    <3>2. q[(c - k) + 1] = q[c - k] \div b
      <4>1. ((c - k) + 1) - 1 = c - k
        OBVIOUS
      <4>2. QED
        BY <1>1, <3>1, <4>1
    <3>3. v[k - 1] = q[c - k] \div b
      BY <2>2, <3>1, <3>2
    <3>4. d[k] = q[c - k] % b
      BY DEF d
    <3>5. q[c - k] \in Nat
      BY <3>1
    <3>6. q[c - k] = (q[c - k] \div b) * b + (q[c - k] % b)
      BY <3>5, DivisionOf
    <3>7. v[k] = v[k - 1] * b + d[k]
      BY <1>4
    <3>8. v[k] = q[c - k]
      BY <3>3, <3>4, <3>6, <3>7
    <3>9. QED
      BY <3>8
  <2> HIDE DEF T
  <2>3. 0 .. c \subseteq T
    BY <2>1, <2>2, AllUpTo
  <2>4. QED
    BY <2>3 DEF T
<1>6. v[c] = n
  <2>1. c \in 0 .. c /\ c - c = 0
    BY <1>2
  <2>2. QED
    BY <1>1, <1>5, <2>1
<1>7. Codec!NumberOf(str, b) = IF str.minus THEN 0 - v[Len(str.digits)] ELSE v[Len(str.digits)]
  BY DEF Codec!NumberOf, v, V
<1>8. QED
  BY <1>2, <1>6, <1>7

LEMMA NumberBack ==
  ASSUME NEW value \in Int, 0 - Codec!GreatestInt <= value, value <= Codec!GreatestInt,
         NEW b \in Codec!AcceptedBases
  PROVE  Codec!NumberOf(Codec!itoa(value, b), b) = value
<1> b \in Nat \ {0, 1}
  BY DEF Codec!AcceptedBases
<1>1. Codec!GreatestInt \in Int
  BY SMT DEF Codec!GreatestInt
<1>2. CASE value < 0
  <2> DEFINE n == 0 - value
  <2>1. n \in Nat /\ n <= Codec!GreatestInt /\ 0 - n = value
    BY <1>1, <1>2
  <2>2. /\ Codec!itoa(value, b).minus
        /\ Codec!itoa(value, b).digits = Codec!Digits(n, b)
    BY <1>2 DEF Codec!itoa
  <2> HIDE DEF n
  <2>3. QED
    BY <2>1, <2>2, NumberOfDigits
<1>3. CASE ~(value < 0)
  <2>1. value \in Nat /\ value <= Codec!GreatestInt
    BY <1>3
  <2>2. /\ ~Codec!itoa(value, b).minus
        /\ Codec!itoa(value, b).digits = Codec!Digits(value, b)
    BY <1>3 DEF Codec!itoa
  <2>3. QED
    BY <2>1, <2>2, NumberOfDigits
<1>4. QED
  BY <1>2, <1>3

-----------------------------------------------------------------------------
\* The cipher

Bits == {0, 1}

LEMMA XorFacts ==
  /\ \A a, b \in Bits : Codec!Xor(a, b) \in Bits
  /\ \A a, b, c \in Bits : Codec!Xor(Codec!Xor(Codec!Xor(Codec!Xor(a, b), c), b), c) = a
BY DEF Bits, Codec!Xor

\* One step changes the bit at one place, by its neighbour and by a bit of the key.
LEMMA MixIs ==
  ASSUME NEW n \in Nat \ {0}, NEW x \in [1 .. n -> Bits],
         NEW key \in Seq(Bits), key # <<>>, NEW i \in Int, NEW j \in 0 .. n - 1
  PROVE  \E c \in Bits :
           /\ c = key[((i + j) % Len(key)) + 1]
           /\ x[j + 1] \in Bits /\ x[((j + 1) % n) + 1] \in Bits
           /\ Codec!Mix(x, key, i, j)
                = [x EXCEPT ![j + 1] = Codec!Xor(Codec!Xor(@, x[((j + 1) % n) + 1]), c)]
<1> DEFINE l == Len(key)
           c == key[((i + j) % l) + 1]
<1>1. Len(x) = n
  BY FunctionIsSeq
<1>2. l \in Nat \ {0}
  BY EmptySeq, LenProperties
<1>3. c \in Bits
  <2> HIDE DEF l
  <2>1. ((i + j) % l) + 1 \in 1 .. l
    BY <1>2
  <2>2. QED
    BY <2>1, ElementOfSeq DEF l
<1>4. j + 1 \in 1 .. n /\ ((j + 1) % n) + 1 \in 1 .. n
  OBVIOUS
<1>5. QED
  BY <1>1, <1>3, <1>4 DEF Codec!Mix

LEMMA MixTyped ==
  ASSUME NEW n \in Nat \ {0}, NEW x \in [1 .. n -> Bits],
         NEW key \in Seq(Bits), key # <<>>, NEW i \in Int, NEW j \in 0 .. n - 1
  PROVE  Codec!Mix(x, key, i, j) \in [1 .. n -> Bits]
<1>1. PICK c \in Bits :
        /\ x[j + 1] \in Bits /\ x[((j + 1) % n) + 1] \in Bits
        /\ Codec!Mix(x, key, i, j)
             = [x EXCEPT ![j + 1] = Codec!Xor(Codec!Xor(@, x[((j + 1) % n) + 1]), c)]
  BY MixIs
<1>2. Codec!Xor(Codec!Xor(x[j + 1], x[((j + 1) % n) + 1]), c) \in Bits
  BY <1>1, XorFacts
<1>3. QED
  BY <1>1, <1>2

\* With two places or more a neighbour is another place, and the same step undoes itself.
LEMMA MixTwice ==
  ASSUME NEW n \in Nat \ {0, 1}, NEW x \in [1 .. n -> Bits],
         NEW key \in Seq(Bits), key # <<>>, NEW i \in Int, NEW j \in 0 .. n - 1
  PROVE  Codec!Mix(Codec!Mix(x, key, i, j), key, i, j) = x
<1> DEFINE y == Codec!Mix(x, key, i, j)
           p == j + 1
           o == ((j + 1) % n) + 1
<1>1. y \in [1 .. n -> Bits]
  BY MixTyped
<1>2. PICK c \in Bits :
        /\ c = key[((i + j) % Len(key)) + 1] /\ x[p] \in Bits /\ x[o] \in Bits
        /\ y = [x EXCEPT ![p] = Codec!Xor(Codec!Xor(@, x[o]), c)]
  BY MixIs
<1> HIDE DEF y
<1>3. Codec!Mix(y, key, i, j) = [y EXCEPT ![p] = Codec!Xor(Codec!Xor(@, y[o]), c)]
  <2>1. PICK e \in Bits :
          /\ e = key[((i + j) % Len(key)) + 1]
          /\ Codec!Mix(y, key, i, j) = [y EXCEPT ![p] = Codec!Xor(Codec!Xor(@, y[o]), e)]
    BY <1>1, MixIs
  <2>2. e = c
    BY <1>2, <2>1
  <2>3. QED
    BY <2>1, <2>2
<1>4. p \in 1 .. n /\ o \in 1 .. n /\ o # p
  <2>1. CASE j = n - 1
    <3>1. (j + 1) % n = 0
      BY <2>1
    <3>2. QED
      BY <2>1, <3>1
  <2>2. CASE j # n - 1
    <3>1. (j + 1) % n = j + 1
      BY <2>2
    <3>2. QED
      BY <2>2, <3>1
  <2>3. QED
    BY <2>1, <2>2
<1> HIDE DEF p, o
<1>5. y[o] = x[o] /\ y[p] = Codec!Xor(Codec!Xor(x[p], x[o]), c)
  BY <1>2, <1>4
<1>6. Codec!Xor(Codec!Xor(y[p], y[o]), c) = x[p]
  <2>1. Codec!Xor(Codec!Xor(y[p], y[o]), c)
          = Codec!Xor(Codec!Xor(Codec!Xor(Codec!Xor(x[p], x[o]), c), x[o]), c)
    BY <1>5
  <2>2. Codec!Xor(Codec!Xor(Codec!Xor(Codec!Xor(x[p], x[o]), c), x[o]), c) = x[p]
    BY <1>2, XorFacts
  <2>3. QED
    BY <2>1, <2>2
<1>7. Codec!Mix(y, key, i, j) = [y EXCEPT ![p] = x[p]]
  BY <1>3, <1>6
<1>8. \A k \in 1 .. n : [y EXCEPT ![p] = x[p]][k] = x[k]
  BY <1>1, <1>2, <1>4
<1>9. QED
  BY <1>1, <1>7, <1>8 DEF y

\* The places of the loops of Decrypt are those of Encrypt, last first.
LEMMA OppositePlaces ==
  ASSUME NEW n \in Nat \ {0}, NEW k \in Nat \ {0}, k <= n * n
  PROVE  /\ n * n - k \in Nat
         /\ (n * n - k) \div n = (n - 1) - ((k - 1) \div n)
         /\ (n * n - k) % n = (n - 1) - ((k - 1) % n)
<1> DEFINE q == (k - 1) \div n
           r == (k - 1) % n
<1>1. q \in Nat /\ r \in 0 .. n - 1 /\ k - 1 = q * n + r
  <2>1. k - 1 \in Nat
    OBVIOUS
  <2>2. QED
    BY <2>1, DivisionOf
<1> HIDE DEF q, r
<1>2. q <= n - 1
  <2>1. SUFFICES ASSUME q >= n PROVE FALSE
    BY <1>1
  <2>2. q * n >= n * n
    BY <1>1, <2>1
  <2>3. q * n \in Int /\ n * n \in Int
    BY <1>1
  <2>4. QED
    BY <1>1, <2>2, <2>3
<1> DEFINE s == (n - 1) - q
           t == (n - 1) - r
<1>3. s \in Nat /\ t \in 0 .. n - 1
  BY <1>1, <1>2
<1>4. n * n - k = s * n + t
  <2>1. s * n = (n * n - n) - q * n
    BY <1>1
  <2>2. q * n \in Int /\ n * n \in Int /\ s * n \in Int
    BY <1>1
  <2> HIDE DEF s
  <2>3. QED
    BY <1>1, <2>1, <2>2
<1>5. n * n - k \in Nat
  <2>1. n * n \in Int
    OBVIOUS
  <2>2. QED
    BY <2>1
<1>6. (n * n - k) \div n = s /\ (n * n - k) % n = t
  <2> HIDE DEF s, t
  <2>1. (s * n + t) \div n = s /\ (s * n + t) % n = t
    BY <1>3, QuotientOf
  <2>2. QED
    BY <1>4, <2>1
<1>7. QED
  BY <1>5, <1>6 DEF q, r

\* What the loops of Encrypt leave after every step
LEMMA EncryptPasses ==
  ASSUME NEW n \in Nat, NEW x \in [1 .. n -> Bits], NEW key \in Seq(Bits), key # <<>>
  PROVE  \E f \in [0 .. n * n -> [1 .. n -> Bits]] :
           /\ f[0] = x /\ Codec!Encrypt(x, key) = f[n * n]
           /\ \A k \in 1 .. n * n :
                f[k] = Codec!Mix(f[k - 1], key, (k - 1) \div n, (k - 1) % n)
<1> DEFINE S == [1 .. n -> Bits]
           N == n * n
           I(k) == (k - 1) \div n
           J(k) == (k - 1) % n
           F == [p \in (1 .. N) \X S |-> Codec!Mix(p[2], key, I(p[1]), J(p[1]))]
           A(f) == [k \in 0 .. N |-> IF k = 0 THEN x ELSE Codec!Mix(f[k - 1], key, I(k), J(k))]
           a == CHOOSE f : f = A(f)
<1>1. N \in Nat
  OBVIOUS
<1>2. Codec!Encrypt(x, key) = a[N]
  <2>1. Len(x) = n
    BY FunctionIsSeq
  <2> DEFINE m == Len(x)
             B(f) == [k \in 0 .. m * m |->
                        IF k = 0 THEN x
                        ELSE Codec!Mix(f[k - 1], key, (k - 1) \div m, (k - 1) % m)]
             b == CHOOSE f : f = B(f)
  <2>2. Codec!Encrypt(x, key) = b[m * m]
    BY DEF Codec!Encrypt
  <2>3. m = n
    BY <2>1
  <2> HIDE DEF m
  <2>4. QED
    BY <2>2, <2>3
<1>3. ASSUME NEW k \in 1 .. N, NEW y \in S PROVE Codec!Mix(y, key, I(k), J(k)) \in S
  <2>1. n \in Nat \ {0}
    <3>1. n # 0
      <4>1. SUFFICES ASSUME n = 0 PROVE FALSE
        OBVIOUS
      <4>2. N = 0
        BY <4>1
      <4>3. QED
        BY <4>2
    <3>2. QED
      BY <3>1
  <2>2. k - 1 \in Nat
    OBVIOUS
  <2>3. (k - 1) \div n \in Nat /\ (k - 1) % n \in 0 .. n - 1
    BY <2>1, <2>2, DivisionOf
  <2>4. I(k) \in Int /\ J(k) \in 0 .. n - 1
    BY <2>1, <2>3
  <2> HIDE DEF I, J, N
  <2>5. QED
    BY <2>1, <2>4, MixTyped
<1> HIDE DEF I, J, N
<1>4. a = A(a)
  <2>1. F \in [(1 .. N) \X S -> S]
    <3> HIDE DEF S
    <3>1. QED
      BY <1>3
  <2>2. PICK f \in [0 .. N -> S] : Recursively(f, N, x, F)
    <3> HIDE DEF F
    <3>1. x \in S
      OBVIOUS
    <3> HIDE DEF S
    <3>2. QED
      BY <1>1, <2>1, <3>1, RecursionExists
  <2> HIDE DEF S
  <2>3. ASSUME NEW k \in 0 .. N PROVE f[k] = A(f)[k]
    <3>1. CASE k = 0
      BY <2>2, <3>1 DEF Recursively
    <3>2. CASE k # 0
      <4>1. k \in 1 .. N /\ k - 1 \in 0 .. N
        BY <1>1, <3>2
      <4>2. f[k - 1] \in S /\ f[k] = F[<<k, f[k - 1]>>]
        BY <2>2, <4>1 DEF Recursively
      <4>3. f[k] = Codec!Mix(f[k - 1], key, I(k), J(k))
        BY <4>1, <4>2
      <4>4. QED
        BY <3>2, <4>3
    <3>3. QED
      BY <3>1, <3>2
  <2>4. f = A(f)
    <3>1. DOMAIN f = 0 .. N /\ DOMAIN A(f) = 0 .. N
      BY <2>2
    <3>2. f = [k \in 0 .. N |-> f[k]]
      BY <2>2
    <3> HIDE DEF F
    <3>3. QED
      BY <2>3, <3>1, <3>2
  <2> HIDE DEF A
  <2>5. QED
    BY <2>4
<1> HIDE DEF S, F, a
<1>5. DOMAIN a = 0 .. N /\ a[0] = x
  <2>1. DOMAIN a = 0 .. N
    BY <1>4
  <2>2. 0 \in 0 .. N
    BY <1>1
  <2>3. A(a)[0] = x
    BY <2>2
  <2> HIDE DEF A
  <2>4. QED
    BY <1>4, <2>1, <2>3
<1>6. ASSUME NEW k \in 1 .. N PROVE a[k] = Codec!Mix(a[k - 1], key, I(k), J(k))
  <2>1. k \in 0 .. N /\ k # 0
    BY <1>1
  <2>2. A(a)[k] = Codec!Mix(a[k - 1], key, I(k), J(k))
    BY <2>1
  <2> HIDE DEF A
  <2>3. QED
    BY <1>4, <2>2
<1>7. \A k \in 0 .. N : a[k] \in S
  <2> DEFINE T == {k \in 0 .. N : a[k] \in S}
  <2>1. 0 \in T
    <3>1. 0 \in 0 .. N
      BY <1>1
    <3>2. QED
      BY <1>5, <3>1 DEF S
  <2>2. ASSUME NEW k \in 1 .. N, k - 1 \in T PROVE k \in T
    <3>1. a[k - 1] \in S /\ k \in 0 .. N
      BY <1>1, <2>2
    <3>2. Codec!Mix(a[k - 1], key, I(k), J(k)) \in S
      BY <1>3, <3>1
    <3>3. QED
      BY <1>6, <3>1, <3>2
  <2> HIDE DEF T
  <2>3. 0 .. N \subseteq T
    BY <1>1, <2>1, <2>2, AllUpTo
  <2>4. QED
    BY <2>3 DEF T
<1>8. a \in [0 .. N -> S]
  <2>1. a = [k \in 0 .. N |-> a[k]]
    BY <1>4, <1>5
  <2>2. QED
    BY <1>7, <2>1
<1>9. QED
  BY <1>2, <1>5, <1>6, <1>8 DEF S, N, I, J

\* What the loops of Decrypt leave after every step
LEMMA DecryptPasses ==
  ASSUME NEW n \in Nat, NEW x \in [1 .. n -> Bits], NEW key \in Seq(Bits), key # <<>>
  PROVE  \E f \in [0 .. n * n -> [1 .. n -> Bits]] :
           /\ f[0] = x /\ Codec!Decrypt(x, key) = f[n * n]
           /\ \A k \in 1 .. n * n :
                f[k] = Codec!Mix(f[k - 1], key, n - 1 - ((k - 1) \div n), n - 1 - ((k - 1) % n))
<1> DEFINE S == [1 .. n -> Bits]
           N == n * n
           I(k) == n - 1 - ((k - 1) \div n)
           J(k) == n - 1 - ((k - 1) % n)
           F == [p \in (1 .. N) \X S |-> Codec!Mix(p[2], key, I(p[1]), J(p[1]))]
           A(f) == [k \in 0 .. N |-> IF k = 0 THEN x ELSE Codec!Mix(f[k - 1], key, I(k), J(k))]
           a == CHOOSE f : f = A(f)
<1>1. N \in Nat
  OBVIOUS
<1>2. Codec!Decrypt(x, key) = a[N]
  <2>1. Len(x) = n
    BY FunctionIsSeq
  <2> DEFINE m == Len(x)
             B(f) == [k \in 0 .. m * m |->
                        IF k = 0 THEN x
                        ELSE Codec!Mix(f[k - 1], key,
                                       m - 1 - ((k - 1) \div m), m - 1 - ((k - 1) % m))]
             b == CHOOSE f : f = B(f)
  <2>2. Codec!Decrypt(x, key) = b[m * m]
    BY DEF Codec!Decrypt
  <2>3. m = n
    BY <2>1
  <2> HIDE DEF m
  <2>4. QED
    BY <2>2, <2>3
<1>3. ASSUME NEW k \in 1 .. N, NEW y \in S PROVE Codec!Mix(y, key, I(k), J(k)) \in S
  <2>1. n \in Nat \ {0}
    <3>1. n # 0
      <4>1. SUFFICES ASSUME n = 0 PROVE FALSE
        OBVIOUS
      <4>2. N = 0
        BY <4>1
      <4>3. QED
        BY <4>2
    <3>2. QED
      BY <3>1
  <2>2. k - 1 \in Nat
    OBVIOUS
  <2>3. (k - 1) \div n \in Nat /\ (k - 1) % n \in 0 .. n - 1
    BY <2>1, <2>2, DivisionOf
  <2>4. I(k) \in Int /\ J(k) \in 0 .. n - 1
    BY <2>1, <2>3
  <2> HIDE DEF I, J, N
  <2>5. QED
    BY <2>1, <2>4, MixTyped
<1> HIDE DEF I, J, N
<1>4. a = A(a)
  <2>1. F \in [(1 .. N) \X S -> S]
    <3> HIDE DEF S
    <3>1. QED
      BY <1>3
  <2>2. PICK f \in [0 .. N -> S] : Recursively(f, N, x, F)
    <3> HIDE DEF F
    <3>1. x \in S
      OBVIOUS
    <3> HIDE DEF S
    <3>2. QED
      BY <1>1, <2>1, <3>1, RecursionExists
  <2> HIDE DEF S
  <2>3. ASSUME NEW k \in 0 .. N PROVE f[k] = A(f)[k]
    <3>1. CASE k = 0
      BY <2>2, <3>1 DEF Recursively
    <3>2. CASE k # 0
      <4>1. k \in 1 .. N /\ k - 1 \in 0 .. N
        BY <1>1, <3>2
      <4>2. f[k - 1] \in S /\ f[k] = F[<<k, f[k - 1]>>]
        BY <2>2, <4>1 DEF Recursively
      <4>3. f[k] = Codec!Mix(f[k - 1], key, I(k), J(k))
        BY <4>1, <4>2
      <4>4. QED
        BY <3>2, <4>3
    <3>3. QED
      BY <3>1, <3>2
  <2>4. f = A(f)
    <3>1. DOMAIN f = 0 .. N /\ DOMAIN A(f) = 0 .. N
      BY <2>2
    <3>2. f = [k \in 0 .. N |-> f[k]]
      BY <2>2
    <3> HIDE DEF F
    <3>3. QED
      BY <2>3, <3>1, <3>2
  <2> HIDE DEF A
  <2>5. QED
    BY <2>4
<1> HIDE DEF S, F, a
<1>5. DOMAIN a = 0 .. N /\ a[0] = x
  <2>1. DOMAIN a = 0 .. N
    BY <1>4
  <2>2. 0 \in 0 .. N
    BY <1>1
  <2>3. A(a)[0] = x
    BY <2>2
  <2> HIDE DEF A
  <2>4. QED
    BY <1>4, <2>1, <2>3
<1>6. ASSUME NEW k \in 1 .. N PROVE a[k] = Codec!Mix(a[k - 1], key, I(k), J(k))
  <2>1. k \in 0 .. N /\ k # 0
    BY <1>1
  <2>2. A(a)[k] = Codec!Mix(a[k - 1], key, I(k), J(k))
    BY <2>1
  <2> HIDE DEF A
  <2>3. QED
    BY <1>4, <2>2
<1>7. \A k \in 0 .. N : a[k] \in S
  <2> DEFINE T == {k \in 0 .. N : a[k] \in S}
  <2>1. 0 \in T
    <3>1. 0 \in 0 .. N
      BY <1>1
    <3>2. QED
      BY <1>5, <3>1 DEF S
  <2>2. ASSUME NEW k \in 1 .. N, k - 1 \in T PROVE k \in T
    <3>1. a[k - 1] \in S /\ k \in 0 .. N
      BY <1>1, <2>2
    <3>2. Codec!Mix(a[k - 1], key, I(k), J(k)) \in S
      BY <1>3, <3>1
    <3>3. QED
      BY <1>6, <3>1, <3>2
  <2> HIDE DEF T
  <2>3. 0 .. N \subseteq T
    BY <1>1, <2>1, <2>2, AllUpTo
  <2>4. QED
    BY <2>3 DEF T
<1>8. a \in [0 .. N -> S]
  <2>1. a = [k \in 0 .. N |-> a[k]]
    BY <1>4, <1>5
  <2>2. QED
    BY <1>7, <2>1
<1>9. QED
  BY <1>2, <1>5, <1>6, <1>8 DEF S, N, I, J

LEMMA SecretBack ==
  ASSUME NEW n \in Nat \ {1}, NEW x \in [1 .. n -> Bits], NEW key \in Seq(Bits), key # <<>>
  PROVE  Codec!Decrypt(Codec!Encrypt(x, key), key) = x
<1> DEFINE N == n * n
<1>1. PICK e \in [0 .. N -> [1 .. n -> Bits]] :
        /\ e[0] = x /\ Codec!Encrypt(x, key) = e[N]
        /\ \A k \in 1 .. N : e[k] = Codec!Mix(e[k - 1], key, (k - 1) \div n, (k - 1) % n)
  BY EncryptPasses
<1>2. N \in Nat
  OBVIOUS
<1> DEFINE y == Codec!Encrypt(x, key)
<1>3. y \in [1 .. n -> Bits]
  BY <1>1, <1>2
<1>4. PICK d \in [0 .. N -> [1 .. n -> Bits]] :
        /\ d[0] = y /\ Codec!Decrypt(y, key) = d[N]
        /\ \A k \in 1 .. N :
             d[k] = Codec!Mix(d[k - 1], key, n - 1 - ((k - 1) \div n), n - 1 - ((k - 1) % n))
  <2> HIDE DEF y
  <2>1. QED
    BY <1>3, DecryptPasses
<1> DEFINE T == {k \in 0 .. N : d[k] = e[N - k]}
<1>5. 0 \in T
  <2> HIDE DEF N
  <2>1. N - 0 = N /\ 0 \in 0 .. N
    BY <1>2
  <2>2. QED
    BY <1>1, <1>4, <2>1
<1>6. ASSUME NEW k \in 1 .. N, k - 1 \in T PROVE k \in T
  <2> DEFINE l == N - k
             i == l \div n
             j == l % n
  <2>1. n \in Nat \ {0, 1}
    <3>1. n # 0
      <4>1. SUFFICES ASSUME n = 0 PROVE FALSE
        OBVIOUS
      <4>2. N = 0
        BY <4>1
      <4>3. QED
        BY <4>2
    <3>2. QED
      BY <3>1
  <2>2. k \in Nat \ {0} /\ k <= n * n
    BY <1>2
  <2>3. l \in Nat /\ i = (n - 1) - ((k - 1) \div n) /\ j = (n - 1) - ((k - 1) % n)
    BY <2>1, <2>2, OppositePlaces
  <2>4. i \in Nat /\ j \in 0 .. n - 1
    BY <2>1, <2>3, DivisionOf
  <2>5. d[k] = Codec!Mix(d[k - 1], key, i, j)
    BY <1>4, <2>3
  <2> HIDE DEF i, j
  <2> HIDE DEF N
  <2>6. l + 1 \in 1 .. N /\ l \in 0 .. N /\ (l + 1) - 1 = l /\ N - (k - 1) = l + 1
    BY <1>2, <2>3
  <2>7. e[l + 1] = Codec!Mix(e[l], key, i, j)
    BY <1>1, <2>6 DEF i, j
  <2>8. d[k - 1] = e[l + 1]
    BY <1>6, <2>6
  <2> HIDE DEF l
  <2>9. e[l] \in [1 .. n -> Bits]
    BY <1>1, <2>6
  <2>10. Codec!Mix(Codec!Mix(e[l], key, i, j), key, i, j) = e[l]
    <3> DEFINE z == e[l]
    <3>1. z \in [1 .. n -> Bits] /\ i \in Int
      BY <2>4, <2>9
    <3> HIDE DEF z
    <3>2. Codec!Mix(Codec!Mix(z, key, i, j), key, i, j) = z
      BY <2>1, <2>4, <3>1, MixTwice
    <3>3. QED
      BY <3>2 DEF z
  <2>11. d[k] = e[l]
    BY <2>5, <2>7, <2>8, <2>10
  <2>12. k \in 0 .. N
    BY <1>2
  <2>13. QED
    BY <2>11, <2>12 DEF l
<1> HIDE DEF T, N
<1>7. N \in T
  <2>1. 0 .. N \subseteq T
    BY <1>2, <1>5, <1>6, AllUpTo
  <2>2. QED
    BY <1>2, <2>1
<1>8. d[N] = e[0]
  <2>1. N - N = 0
    BY <1>2
  <2>2. QED
    BY <1>7, <2>1 DEF T
<1>9. QED
  BY <1>1, <1>4, <1>8

-----------------------------------------------------------------------------
\* The program that writes a value and reads it back

\* Between writing and reading the text is what was written, and the job does not change.
TextIsWritten ==
  stage = "written" =>
    /\ job.kind = "hex" => text = Codec!ToHex(job.plain)
    /\ job.kind = "base64" => text = Codec!ToBase64(job.plain, job.behind)
    /\ job.kind = "number" => text = Codec!itoa(job.plain, job.base)
    /\ job.kind = "cipher" => text = Codec!Encrypt(job.plain, job.key)

CodecInv ==
  /\ job \in Codec!Jobs
  /\ TextIsWritten
  /\ Codec!TextsRoundTrip
  /\ Codec!SecretsRoundTrip

LEMMA DataIsSeq ==
  ASSUME NEW S, NEW x \in Codec!Data(S)
  PROVE  \E n \in Nat : x \in [1 .. n -> S] /\ Len(x) = n /\ x \in Seq(S)
<1>1. PICK n \in 0 .. MaxLen : x \in [1 .. n -> S]
  BY DEF Codec!Data
<1>2. n \in Nat
  OBVIOUS
<1>3. QED
  BY <1>1, <1>2, FunctionIsSeq

LEMMA NumbersAreInts ==
  \A k \in Numbers : k \in Int /\ 0 - Codec!GreatestInt <= k /\ k <= Codec!GreatestInt
BY CodecAssumption DEF Codec!CodecAssumption

LEMMA BytesAreBytes == Bytes \subseteq Byte256
BY CodecAssumption DEF Codec!CodecAssumption, Byte256

LEMMA JobFields ==
  ASSUME job \in Codec!Jobs
  PROVE  /\ job.kind \in {"hex", "base64", "number", "cipher"}
         /\ job.kind = "hex" => job.plain \in Codec!Data(Bytes)
         /\ job.kind = "base64" =>
              job.plain \in Codec!Data(Bytes) /\ job.behind \in [1 .. 2 -> Bytes]
         /\ job.kind = "number" => job.plain \in Numbers /\ job.base \in Radixes
         /\ job.kind = "cipher" => job.plain \in Codec!Data({0, 1}) /\ job.key \in Keys
BY DEF Codec!Jobs

\* What is read back from what was written
LEMMA ReadingUndoesWriting ==
  ASSUME CodecInv
  PROVE  /\ job.kind = "hex" => Codec!FromHex(Codec!ToHex(job.plain)) = job.plain
         /\ job.kind = "base64" =>
              Codec!FromBase64(Codec!ToBase64(job.plain, job.behind)) = job.plain
         /\ job.kind = "number" /\ job.base \in Codec!AcceptedBases =>
              Codec!NumberOf(Codec!itoa(job.plain, job.base), job.base) = job.plain
         /\ job.kind = "cipher" /\ Len(job.plain) # 1 =>
              Codec!Decrypt(Codec!Encrypt(job.plain, job.key), job.key) = job.plain
<1>1. job \in Codec!Jobs
  BY DEF CodecInv
<1>2. ASSUME job.kind = "hex" PROVE Codec!FromHex(Codec!ToHex(job.plain)) = job.plain
  <2>1. job.plain \in Seq(Byte256)
    <3>1. job.plain \in Codec!Data(Bytes)
      BY <1>1, <1>2, JobFields
    <3>2. job.plain \in Seq(Bytes)
      BY <3>1, DataIsSeq
    <3>3. QED
      BY <3>2, BytesAreBytes
  <2>2. QED
    BY <2>1, HexBack
<1>3. ASSUME job.kind = "base64"
      PROVE  Codec!FromBase64(Codec!ToBase64(job.plain, job.behind)) = job.plain
  <2>1. job.plain \in Codec!Data(Bytes) /\ job.behind \in [1 .. 2 -> Bytes]
    BY <1>1, <1>3, JobFields
  <2>2. job.plain \in Seq(Bytes)
    BY <2>1, DataIsSeq
  <2>3. job.plain \in Seq(Byte256) /\ job.behind \in [1 .. 2 -> Byte256]
    BY <2>1, <2>2, BytesAreBytes
  <2>4. QED
    BY <2>3, Base64Back
<1>4. ASSUME job.kind = "number", job.base \in Codec!AcceptedBases
      PROVE  Codec!NumberOf(Codec!itoa(job.plain, job.base), job.base) = job.plain
  <2>1. job.plain \in Numbers
    BY <1>1, <1>4, JobFields
  <2>2. /\ job.plain \in Int
        /\ 0 - Codec!GreatestInt <= job.plain /\ job.plain <= Codec!GreatestInt
    BY <2>1, NumbersAreInts
  <2>3. QED
    BY <1>4, <2>2, NumberBack
<1>5. ASSUME job.kind = "cipher", Len(job.plain) # 1
      PROVE  Codec!Decrypt(Codec!Encrypt(job.plain, job.key), job.key) = job.plain
  <2>1. job.plain \in Codec!Data(Bits) /\ job.key \in Keys
    BY <1>1, <1>5, JobFields DEF Bits
  <2>2. PICK n \in Nat : job.plain \in [1 .. n -> Bits] /\ Len(job.plain) = n
    BY <2>1, DataIsSeq
  <2>3. job.key \in Seq(Bits) /\ job.key # <<>>
    BY <2>1, CodecAssumption DEF Codec!CodecAssumption, Bits
  <2>4. n \in Nat \ {1}
    BY <1>5, <2>2
  <2>5. QED
    BY <2>2, <2>3, <2>4, SecretBack
<1>6. QED
  BY <1>2, <1>3, <1>4, <1>5

LEMMA CodecInit == Codec!Init => CodecInv
BY DEF CodecInv, Codec!Init, TextIsWritten, Codec!TextsRoundTrip, Codec!SecretsRoundTrip

LEMMA CodecStep ==
  ASSUME CodecInv, [Codec!Next]_Codec!codecVars
  PROVE  CodecInv'
<1> USE DEF CodecInv
<1>1. CASE UNCHANGED Codec!codecVars
  BY <1>1 DEF Codec!codecVars, TextIsWritten, Codec!TextsRoundTrip, Codec!SecretsRoundTrip
<1>2. CASE Codec!Next
  <2>1. CASE Codec!WriteHex \/ Codec!WriteBase64 \/ Codec!WriteNumber \/ Codec!WriteSecret
    <3>1. job' = job /\ stage' = "written" /\ TextIsWritten'
      BY <2>1
      DEF Codec!WriteHex, Codec!WriteBase64, Codec!WriteNumber, Codec!WriteSecret, Codec!Write,
          TextIsWritten
    <3>2. QED
      BY <3>1 DEF Codec!TextsRoundTrip, Codec!SecretsRoundTrip
  <2>2. CASE Codec!ReadHex \/ Codec!ReadBase64 \/ Codec!ReadNumber
    <3>1. /\ job' = job /\ stage' = "read" /\ job.kind # "cipher"
          /\ (job.kind = "number" => job.base \in Codec!AcceptedBases) => answer' = job.plain
      <4>1. CASE Codec!ReadHex
        BY <4>1, ReadingUndoesWriting DEF Codec!ReadHex, Codec!Read, TextIsWritten
      <4>2. CASE Codec!ReadBase64
        BY <4>2, ReadingUndoesWriting DEF Codec!ReadBase64, Codec!Read, TextIsWritten
      <4>3. CASE Codec!ReadNumber
        BY <4>3, ReadingUndoesWriting DEF Codec!ReadNumber, Codec!Read, TextIsWritten
      <4>4. QED
        BY <2>2, <4>1, <4>2, <4>3
    <3>2. QED
      BY <3>1 DEF TextIsWritten, Codec!TextsRoundTrip, Codec!SecretsRoundTrip
  <2>3. CASE Codec!ReadSecret
    <3>1. /\ job' = job /\ stage' = "read" /\ job.kind = "cipher"
          /\ Len(job.plain) # 1 => answer' = job.plain
      BY <2>3, ReadingUndoesWriting DEF Codec!ReadSecret, Codec!Read, TextIsWritten
    <3>2. QED
      BY <3>1 DEF TextIsWritten, Codec!TextsRoundTrip, Codec!SecretsRoundTrip
  <2>4. CASE Codec!RefuseHex
    BY <2>4 DEF Codec!RefuseHex, TextIsWritten, Codec!TextsRoundTrip, Codec!SecretsRoundTrip
  <2>5. CASE Codec!RefuseBase64
    BY <2>5 DEF Codec!RefuseBase64, TextIsWritten, Codec!TextsRoundTrip, Codec!SecretsRoundTrip
  <2>6. QED
    BY <1>2, <2>1, <2>2, <2>3, <2>4, <2>5 DEF Codec!Next
<1>3. QED
  BY <1>1, <1>2

LEMMA CodecInvHolds == Codec!Spec => []CodecInv
BY CodecInit, CodecStep, PTL DEF Codec!Spec

\* What the conversions write they read back, for all bytes, all data, every base that itoa
\* accepts, 2 to 35, and every int but the least (ToHex, FromHex, ToBase64, FromBase64 and
\* itoa of Common.cpp).
THEOREM TextsComeBack == Codec!Spec => []TextsRoundTrip
<1>1. CodecInv => TextsRoundTrip
  BY DEF CodecInv, TextsRoundTrip
<1>2. QED
  BY <1>1, CodecInvHolds, PTL

\* Decrypt undoes Encrypt for every key and every secret that has not just one character
\* (CPasswordKeeper::Encrypt and Decrypt).
THEOREM SecretsComeBack == Codec!Spec => []SecretsRoundTrip
<1>1. CodecInv => SecretsRoundTrip
  BY DEF CodecInv, SecretsRoundTrip
<1>2. QED
  BY <1>1, CodecInvHolds, PTL
==============================================================================

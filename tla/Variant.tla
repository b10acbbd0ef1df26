------------------------------ MODULE Variant --------------------------------
(***************************************************************************)
(* CVariant (Variant.cpp, Variant.h): a value kept as a text on the heap   *)
(* and as two numbers.  A call is a step.                                  *)
(*                                                                         *)
(* A text is what _atoi64 and atof read from it: of "1.5e3" the whole 1    *)
(* and the number 1500.  Doubles are counted in halves: 3 is 1.5.  That    *)
(* (double)nVal rounds is left out: atof rounds its digits the same way.   *)
(***************************************************************************)
EXTENDS Integers

CONSTANTS
  Variants,
  Buffers,     \* bound: the texts the program allocates
  Values,      \* bound: what is assigned
  MaxInt,      \* the greatest int; the least is 0 - MaxInt - 1
  Unreadable,  \* a text that is cut short, or has characters outside the table of lltoa
  Garbage,     \* what memory holds that was not written, or an undefined conversion gives
  Null

\* What can be assigned.  The form of a double is what "%.20g" makes of it: digits and a
\* point, an exponent behind a digit that is not 0, or more than the 20 characters that
\* the buffer has room for.
Given ==
  [kind : {"string"}, text : [whole : Int, number : Int]]
    \cup [kind : {"int"}, whole : Int]
    \cup [kind : {"double"}, number : Int, form : {"digits", "exponent", "cut"}]
    \cup [kind : {"bool"}, whole : {0, 1}]

Text(whole, number) == [whole |-> whole, number |-> number]

\* "(int)dVal" drops the fraction.
Truncated(number) == IF number < 0 THEN 0 - ((0 - number) \div 2) ELSE number \div 2

Fits(whole) == 0 - MaxInt - 1 <= whole /\ whole <= MaxInt

\* _i64toa is lltoa on linux: div takes the low half of the magnitude, as an int.
lltoa(whole) ==
  LET negative == whole < 0
      low == (IF negative THEN 0 - whole ELSE whole) % (2 * (MaxInt + 1))
      n == IF negative THEN 0 - low ELSE low
  IN  IF low <= MaxInt THEN Text(n, 2 * n) ELSE Unreadable

\* _snprintf with "%.20g" and a buffer of 21 bytes, which is left without a 0 on win32
snprintf(number, form) ==
  CASE form = "digits" -> Text(Truncated(number), number)
    [] form = "exponent" -> Text(1, number)
    [] form = "cut" -> Unreadable

\* The text that SetString, SetNumber and SetBool make.  "true" and "false" read as 0.
TextOf(x, windows) ==
  CASE x.kind = "string" -> x.text
    [] x.kind = "int" -> IF windows THEN Text(x.whole, 2 * x.whole) ELSE lltoa(x.whole)
    [] x.kind = "double" -> snprintf(x.number, x.form)
    [] x.kind = "bool" -> Text(0, 0)

\* The m_nVal they make
IntOf(x) ==
  CASE x.kind = "string" -> x.text.whole
    [] x.kind = "double" -> IF Fits(Truncated(x.number)) THEN Truncated(x.number) ELSE Garbage
    [] x.kind \in {"int", "bool"} -> x.whole

\* The m_dVal they make
DoubleOf(x) ==
  CASE x.kind = "string" -> x.text.number
    [] x.kind = "double" -> x.number
    [] x.kind \in {"int", "bool"} -> 2 * x.whole

\* Values whose text does not read as their numbers: true, doubles with an exponent, with
\* too many digits or beyond int, and, on linux, integers beyond int
Odd(x, windows) ==
  \/ x.kind = "bool" /\ x.whole = 1
  \/ x.kind = "double" /\ (x.form # "digits" \/ ~Fits(Truncated(x.number)))
  \/ x.kind = "int" /\ ~windows /\ ~(x.whole \in 0 - MaxInt .. MaxInt)

\* An assumption on the constants
VariantAssumption ==
  /\ MaxInt \in Nat
  /\ Values \subseteq Given
  /\ Garbage # Null /\ Null \notin Buffers
  /\ \A x \in Values, windows \in BOOLEAN : TextOf(x, windows) \notin {Null, Garbage}

VARIABLES
  win32,          \* the platform
  exists,         \* the objects that exist
  m_szVal, m_nVal, m_dVal,
  heap,           \* the text in each buffer; Null if it is free
  shared,         \* auxiliary: an object was made by the copy constructor of the compiler
  torn,           \* auxiliary: objects whose text was not replaced with the numbers
  odd             \* auxiliary: objects that were given an Odd value, or one that has it

variantVars == <<win32, exists, m_szVal, m_nVal, m_dVal, heap, shared, torn, odd>>

Init ==
  /\ win32 \in BOOLEAN
  /\ exists = {}
  /\ m_szVal = [v \in Variants |-> Null]
  /\ m_nVal = [v \in Variants |-> Garbage] /\ m_dVal = [v \in Variants |-> Garbage]
  /\ heap = [b \in Buffers |-> Null]
  /\ shared = FALSE /\ torn = {} /\ odd = {}

\* The text of v is deleted; a text that has been deleted already is left out.
MayDelete(v) == m_szVal[v] # Null => heap[m_szVal[v]] # Null

Cleared(v) == [b \in Buffers |-> IF b = m_szVal[v] THEN Null ELSE heap[b]]

SetNumbers(v, n, d) == m_nVal' = [m_nVal EXCEPT ![v] = n] /\ m_dVal' = [m_dVal EXCEPT ![v] = d]

\* v, which is in S or not, is in it if holds.
Marked(S, v, holds) == IF holds THEN S \cup {v} ELSE S \ {v}

Construct(v) ==
  /\ v \notin exists
  /\ exists' = exists \cup {v}
  /\ m_szVal' = [m_szVal EXCEPT ![v] = Null]
  /\ SetNumbers(v, Garbage, Garbage)
  /\ UNCHANGED <<win32, heap, shared, torn, odd>>

\* operator = of a string, a number or a bool: Clear, then SetString, SetNumber, SetBool
Give(v, x) ==
  /\ v \in exists /\ MayDelete(v)
  /\ \E b \in {c \in Buffers : Cleared(v)[c] = Null} :
       /\ heap' = [Cleared(v) EXCEPT ![b] = TextOf(x, win32)]
       /\ m_szVal' = [m_szVal EXCEPT ![v] = b]
  /\ SetNumbers(v, IntOf(x), DoubleOf(x))
  /\ torn' = torn \ {v} /\ odd' = Marked(odd, v, Odd(x, win32))
  /\ UNCHANGED <<win32, exists, shared>>

\* operator = of "" or NULL
GiveEmpty(v) ==
  /\ v \in exists /\ MayDelete(v)
  /\ m_szVal' = [m_szVal EXCEPT ![v] = Null] /\ heap' = Cleared(v)
  /\ SetNumbers(v, 0, 0)
  /\ torn' = torn \ {v} /\ odd' = odd \ {v}
  /\ UNCHANGED <<win32, exists, shared>>

\* mutant of Duplicate: the pointer is copied
DuplicateNot(v, w) ==
  /\ m_szVal' = [m_szVal EXCEPT ![v] = m_szVal[w]]
  /\ UNCHANGED heap

\* "m_szVal = new char[nLen + 1]": what v had is lost.  If w is v, its text is read from
\* the new buffer.
Duplicate(v, w) ==
  \E b \in Buffers :
    /\ heap[b] = Null
    /\ heap' = [heap EXCEPT ![b] = IF v = w THEN Garbage ELSE heap[m_szVal[w]]]
    /\ m_szVal' = [m_szVal EXCEPT ![v] = b]

\* "if (nLen)": what was not written may read as an empty text.
NoText(w) == m_szVal[w] # Null => heap[m_szVal[w]] = Garbage

\* A v with a text keeps it when w has none.
Assign(v, w) ==
  /\ v \in exists /\ w \in exists /\ MayDelete(w)
  /\ \/ /\ NoText(w)
        /\ UNCHANGED <<m_szVal, heap>>
        /\ torn' = Marked(torn, v, m_szVal[v] # Null \/ w \in torn)
     \/ /\ m_szVal[w] # Null
        /\ Duplicate(v, w)
        /\ torn' = Marked(torn, v, v = w \/ w \in torn)
  /\ SetNumbers(v, m_nVal[w], m_dVal[w])
  /\ odd' = Marked(odd, v, w \in odd)
  /\ UNCHANGED <<win32, exists, shared>>

\* Copying a const object or a temporary takes the constructor of the compiler; the
\* templates serve the others: they set m_szVal to 0 and assign.
CopyConst(v, w) ==
  /\ v \notin exists /\ w \in exists
  /\ exists' = exists \cup {v}
  /\ m_szVal' = [m_szVal EXCEPT ![v] = m_szVal[w]]
  /\ SetNumbers(v, m_nVal[w], m_dVal[w])
  /\ shared' = (shared \/ m_szVal[w] # Null)
  /\ torn' = Marked(torn, v, w \in torn) /\ odd' = Marked(odd, v, w \in odd)
  /\ UNCHANGED <<win32, heap>>

Destroy(v) ==
  /\ v \in exists /\ MayDelete(v)
  /\ exists' = exists \ {v}
  /\ heap' = Cleared(v)
  /\ m_szVal' = [m_szVal EXCEPT ![v] = Null]
  /\ SetNumbers(v, Garbage, Garbage)
  /\ torn' = torn \ {v} /\ odd' = odd \ {v}
  /\ UNCHANGED <<win32, shared>>

Next ==
  \E v \in Variants :
    \/ Construct(v) \/ Destroy(v) \/ GiveEmpty(v)
    \/ \E x \in Values : Give(v, x)
    \/ \E w \in Variants : Assign(v, w) \/ CopyConst(v, w)

Spec == Init /\ [][Next]_variantVars

-----------------------------------------------------------------------------
\* Properties

\* Every text belongs to one object, and lives as long as it does: none is deleted twice
\* or read after it was deleted, as long as no object is made by the copy constructor of
\* the compiler, which copies the pointer.
TextsOwned ==
  ~shared =>
    \A v, w \in exists :
      m_szVal[v] # Null => heap[m_szVal[v]] # Null /\ (v # w => m_szVal[v] # m_szVal[w])

\* After any assignments between objects, m_nVal and m_dVal of an object are what _atoi64
\* and atof read from its own text.  This leaves out values whose text does not read as
\* their numbers (Odd); an object that was assigned to itself, or had a text and was
\* assigned an object without one; and every object once a pointer was copied.
TextReadsAsNumbers ==
  ~shared =>
    \A v \in exists \ (torn \cup odd) :
      IF m_szVal[v] = Null
      THEN <<m_nVal[v], m_dVal[v]>> \in {<<0, 0>>, <<Garbage, Garbage>>}
      ELSE heap[m_szVal[v]] = Text(m_nVal[v], m_dVal[v])
=============================================================================

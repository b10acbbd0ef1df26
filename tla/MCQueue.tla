------------------------------- MODULE MCQueue -------------------------------
(***************************************************************************)
(* Instances of Queue for TLC.                                             *)
(***************************************************************************)
EXTENDS Queue

CONSTANTS r1, r2, w1, w2

\* Two readers and two writers that call every method between them
AllCalls == [t \in {r1, r2, w1, w2} |->
  CASE t = r1 -> {"Pop"}
    [] t = r2 -> {"PopEx", "Peek"}
    [] t = w1 -> {"Push"}
    [] t = w2 -> {"Push", "Clear"}]

\* Three threads, any two of which may wait for the same or for opposite things
MixedCalls == [t \in {r1, r2, w1} |->
  CASE t = r1 -> {"Pop", "Push", "Clear"}
    [] t = r2 -> {"Pop", "PopEx", "Peek"}
    [] t = w1 -> {"Push"}]

\* One reader and two writers
OneReaderCalls == [t \in {r1, w1, w2} |-> IF t = r1 THEN {"Pop"} ELSE {"Push"}]

\* Two readers and one writer
TwoReaderCalls == [t \in {r1, r2, w1} |-> IF t = w1 THEN {"Push"} ELSE {"Pop"}]
=============================================================================

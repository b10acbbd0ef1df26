----------------------------- MODULE MCSemaphore -----------------------------
(***************************************************************************)
(* Instances of Semaphore for TLC: two semaphores, and threads named in    *)
(* the order of their addresses.                                           *)
(***************************************************************************)
EXTENDS Semaphore

CONSTANTS t1, t2, t3, s1, s2

TwoSems == <<s1, s2>>

Addresses == [t \in Threads |-> CASE t = t1 -> 1 [] t = t2 -> 2 [] t = t3 -> 3]

\* Two threads may wait for any at once, and two may signal at once.
AnyCalls == [t \in Threads |->
  CASE t = t1 -> {"WaitAny"}
    [] t = t2 -> {"WaitAny", "Signal"}
    [] t = t3 -> {"Signal", "Wait", "WaitAll"}]
=============================================================================

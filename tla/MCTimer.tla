------------------------------- MODULE MCTimer -------------------------------
(***************************************************************************)
(* Instances of Timer for TLC.  The threads are interchangeable, and so    *)
(* are the addresses.                                                      *)
(***************************************************************************)
EXTENDS Timer

CONSTANTS t1, t2, t3, o1, o2

Interchangeable == Permutations(m_vecThreads) \cup Permutations(STimers)
=============================================================================

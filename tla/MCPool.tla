------------------------------- MODULE MCPool --------------------------------
(***************************************************************************)
(* An instance of Pool for TLC: two threads, two resources, two places.    *)
(***************************************************************************)
EXTENDS Pool

CONSTANTS t1, t2, r1, r2
=============================================================================

---------------------------- MODULE MCNetReceive -----------------------------
(***************************************************************************)
(* Instances of NetReceive for TLC.                                        *)
(***************************************************************************)
EXTENDS NetReceive

CONSTANTS t1, t2, c1, c2, h1, h2

\* Each connection is of another host.
TwoHosts == [c \in {c1, c2} |-> IF c = c1 THEN h1 ELSE h2]
=============================================================================

---------------------------- MODULE BlockingQueue ----------------------------
(***************************************************************************)
(* What CQueue (Queue.h) promises to its callers: a first-in first-out     *)
(* queue of at most Capacity items (0: no limit) on which every call takes *)
(* effect in one step, at a moment its condition holds.  No lock, no       *)
(* waiting thread and no pulse is left in it; module Queue is shown to     *)
(* implement it.                                                           *)
(***************************************************************************)
EXTENDS Naturals, Sequences

CONSTANTS
  Threads,    \* the callers
  Values,     \* what is queued
  NoValue,    \* the result of a call that returns nothing
  Capacity    \* m_nMaxSize

VARIABLES
  items,      \* the queue, oldest item first
  op,         \* what each thread is calling
  arg,        \* the argument of its Push
  result      \* what its last call returned

absVars == <<items, op, arg, result>>

Ops == {"Push", "Pop", "PopEx", "Peek", "Clear"}

IsRoom == Capacity = 0 \/ Len(items) < Capacity

Init ==
  /\ items = <<>>
  /\ op = [t \in Threads |-> "none"]
  /\ arg = [t \in Threads |-> NoValue]
  /\ result = [t \in Threads |-> NoValue]

Invoke(t) ==
  /\ op[t] = "none"
  /\ \E o \in Ops, v \in Values \cup {NoValue} :
       /\ op' = [op EXCEPT ![t] = o]
       /\ arg' = [arg EXCEPT ![t] = v]
  /\ result' = [result EXCEPT ![t] = NoValue]
  /\ UNCHANGED items

\* The call of t ends and returns r.
Respond(t, r) ==
  /\ op' = [op EXCEPT ![t] = "none"]
  /\ result' = [result EXCEPT ![t] = r]
  /\ UNCHANGED arg

Push(t) ==
  /\ op[t] = "Push"
  /\ IsRoom
  /\ items' = Append(items, arg[t])
  /\ Respond(t, NoValue)

Peek(t) ==
  /\ op[t] = "Peek"
  /\ items # <<>>
  /\ UNCHANGED items
  /\ Respond(t, Head(items))

Pop(t) ==
  /\ op[t] \in {"Pop", "PopEx"}
  /\ items # <<>>
  /\ items' = Tail(items)
  /\ Respond(t, Head(items))

\* PopEx may give up, but only when there is nothing to take.
GiveUp(t) ==
  /\ op[t] = "PopEx"
  /\ items = <<>>
  /\ UNCHANGED items
  /\ Respond(t, NoValue)

Clear(t) ==
  /\ op[t] = "Clear"
  /\ items' = <<>>
  /\ Respond(t, NoValue)

Next ==
  \E t \in Threads :
    Invoke(t) \/ Push(t) \/ Peek(t) \/ Pop(t) \/ GiveUp(t) \/ Clear(t)

Spec == Init /\ [][Next]_absVars
=============================================================================

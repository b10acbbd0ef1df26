------------------------------- MODULE NetUdp --------------------------------
(***************************************************************************)
(* CNetUdp (CNetUdp.h, CNet.h): one object on each host, over a network    *)
(* that loses datagrams, delivers them twice and in any order.  An object  *)
(* has the threads that setReceiveEvent started, and a thread that calls   *)
(* get(); all of them receive to their own buffers, and the address of the *)
(* sender to the member addr.  What the messages say is left out: one has  *)
(* a number.  select is called with a timeout of 0 and its answer is not   *)
(* looked at, so that BLOCK and UNBLOCK differ only in the time spent.     *)
(***************************************************************************)
EXTENDS Naturals, Sequences

CONSTANTS
  Hosts,
  Listening,    \* bound: the hosts whose clients receive
  Threads,      \* bound: the threads setReceiveEvent starts at a host
  MaxSent,      \* bound: the messages sent
  MaxWaiting,   \* bound: the datagrams that wait at a socket
  All,          \* INADDR_BROADCAST
  Nowhere       \* no address

\* An assumption on the constants
UdpAssumption == Listening \subseteq Hosts

VARIABLES
  sockets,     \* hosts whose object made its sockets: initMulticast makes none
  mayBroadcast,   \* hosts with SO_BROADCAST
  out,         \* the default destination; Nowhere while it is being set
  sent,        \* the sender of each message
  network,     \* [id, at]: message id on its way to a host
  waiting,     \* of each host: the messages at s_in
  addr,
  at,          \* where each thread is: "off", "recv" or "name"
  got,         \* the message it received
  overtaken,   \* auxiliary: at each host, who received and was overtaken before naming the sender
  told         \* auxiliary: what the last callback, or get, was given

destination == <<mayBroadcast, sockets, out>>
traffic == <<sent, network>>
receivers == <<waiting, addr, at, got, overtaken, told>>
udpVars == <<destination, traffic, receivers>>

Get == "get"
Users == Threads \cup {Get}

Untold == [id |-> 0, from |-> Nowhere, late |-> TRUE]

\* The constructors: for a broadcast, a destination or a multicast
Init ==
  /\ sockets \in SUBSET Hosts
  /\ mayBroadcast \in SUBSET sockets
  /\ out \in [Hosts -> Hosts \cup {All, Nowhere}]
  /\ \A h \in Hosts : out[h] = All <=> h \in mayBroadcast
  /\ \A h \in Hosts : out[h] = Nowhere <=> h \notin sockets
  /\ sent = <<>> /\ network = {}
  /\ waiting = [h \in Hosts |-> <<>>]
  /\ addr = [h \in Hosts |-> Nowhere]
  /\ at = [h \in Hosts |-> [u \in Users |-> "off"]]
  /\ got = [h \in Hosts |-> [u \in Users |-> 0]]
  /\ overtaken = [h \in Hosts |-> {}]
  /\ told = Untold

\* sendto makes datagrams for the hosts that dest names.  Its failures go unnoticed: the
\* answer of send is true.
Reached(h, dest) ==
  IF h \notin sockets THEN {}
  ELSE IF dest = All THEN IF h \in mayBroadcast THEN Listening ELSE {}
  ELSE {dest} \cap Listening

SendTo(h, dest) ==
  /\ Len(sent) < MaxSent
  /\ sent' = Append(sent, h)
  /\ network' = network \cup {[id |-> Len(sent) + 1, at |-> r] : r \in Reached(h, dest)}
  /\ UNCHANGED <<destination, receivers>>

Send(h) == SendTo(h, out[h])

SendDest(h, dest) == SendTo(h, dest)

\* setDefaultDestination, with "memset(&out, 0, ...)" first: there is no lock.
ClearDestination(h) ==
  /\ h \in sockets /\ out[h] # Nowhere
  /\ out' = [out EXCEPT ![h] = Nowhere]
  /\ UNCHANGED <<sockets, mayBroadcast, traffic, receivers>>

SetDestination(h, dest) ==
  /\ h \in sockets /\ out[h] = Nowhere
  /\ out' = [out EXCEPT ![h] = dest]
  /\ UNCHANGED <<sockets, mayBroadcast, traffic, receivers>>

-----------------------------------------------------------------------------
\* The network

Lose(d) ==
  /\ network' = network \ {d}
  /\ UNCHANGED <<sent, destination, receivers>>

\* A datagram may come again.
Arrive(d) ==
  /\ d.at \in sockets /\ Len(waiting[d.at]) < MaxWaiting
  /\ waiting' = [waiting EXCEPT ![d.at] = Append(@, d.id)]
  /\ \/ network' = network \ {d}
     \/ UNCHANGED network
  /\ UNCHANGED <<sent, destination, addr, at, got, overtaken, told>>

-----------------------------------------------------------------------------
\* Receiving

Moved(h, u, place) == at' = [at EXCEPT ![h] = [@ EXCEPT ![u] = place]]

\* setReceiveEvent starts one more thread each time it is called; get is called.
Begin(h, u) ==
  /\ h \in Listening /\ at[h][u] = "off"
  /\ Moved(h, u, "recv")
  /\ UNCHANGED <<destination, traffic, waiting, addr, got, overtaken, told>>

\* mutant of From: recvfrom is called without an address to fill in
FromNobody(h, id) == addr[h]

From(h, id) == sent[id]

\* recvfrom
Recv(h, u) ==
  /\ at[h][u] = "recv" /\ waiting[h] # <<>>
  /\ addr' = [addr EXCEPT ![h] = From(h, Head(waiting[h]))]
  /\ got' = [got EXCEPT ![h] = [@ EXCEPT ![u] = Head(waiting[h])]]
  /\ waiting' = [waiting EXCEPT ![h] = Tail(@)]
  /\ overtaken' = [overtaken EXCEPT ![h] = {v \in Users \ {u} : at[h][v] = "name"}]
  /\ Moved(h, u, "name")
  /\ UNCHANGED <<destination, traffic, told>>

\* get finds nothing, with UNBLOCK.
RecvNothing(h) ==
  /\ at[h][Get] = "recv" /\ waiting[h] = <<>>
  /\ Moved(h, Get, "off")
  /\ UNCHANGED <<destination, traffic, waiting, addr, got, overtaken, told>>

\* "from = inet_ntoa( addr.sin_addr )", and the callback.  get gives its caller from,
\* and a reference to a text that is gone.
Tell(h, u) ==
  /\ at[h][u] = "name"
  /\ told' = [id |-> got[h][u], from |-> addr[h], late |-> u \in overtaken[h]]
  /\ got' = [got EXCEPT ![h] = [@ EXCEPT ![u] = 0]]
  /\ Moved(h, u, IF u = Get THEN "off" ELSE "recv")
  /\ UNCHANGED <<destination, traffic, waiting, addr, overtaken>>

Next ==
  \/ \E d \in network : Lose(d) \/ Arrive(d)
  \/ \E h \in Hosts :
       \/ Send(h) \/ ClearDestination(h) \/ RecvNothing(h)
       \/ \E dest \in Hosts : SendDest(h, dest) \/ SetDestination(h, dest)
       \/ \E u \in Users : Begin(h, u) \/ Recv(h, u) \/ Tell(h, u)

Spec == Init /\ [][Next]_udpVars

-----------------------------------------------------------------------------
\* Properties

\* A callback, and the caller of get, is told who sent the message it is given, whatever
\* is lost, doubled or overtaken on the way and however many receive at the host, unless
\* another of them receives before it has named the sender.
FromIsReal == ~told.late => told.from = sent[told.id]
=============================================================================

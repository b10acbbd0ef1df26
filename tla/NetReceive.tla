----------------------------- MODULE NetReceive ------------------------------
(***************************************************************************)
(* The receiving half of CNetTcp (CNetTcp.h, CNet.h): a listening socket,  *)
(* threads started by setReceiveEvent that accept a connection, read from  *)
(* it once and call the client back, and get(), which accepts and reads on *)
(* the thread of the caller.  All of them keep the connection they         *)
(* accepted and the address of its host in the members accpt and addr.     *)
(*                                                                         *)
(* A host is a sender such as CNetTcp::send; TCP may hand over what it     *)
(* sent in pieces, and a read returns some of those that have arrived.     *)
(* What the pieces say is left out.  The object lives as long as its       *)
(* threads, and a host that goes hangs up: a connection is not reset, and  *)
(* select, on a socket that is open, does not fail.                        *)
(***************************************************************************)
EXTENDS Naturals, FiniteSets, Sequences

CONSTANTS
  Conns,       \* bound: the connections hosts make
  Host,        \* the host of each connection
  Threads,     \* bound: the threads setReceiveEvent starts
  MaxPieces,   \* bound: the pieces sent on a connection
  Nobody       \* no connection, no host

ASSUME NetReceiveAssumption ==
  /\ IsFiniteSet(Conns) /\ IsFiniteSet(Threads)
  /\ Nobody \notin Conns /\ DOMAIN Host = Conns
  /\ MaxPieces \in Nat

VARIABLES
  receiveopt,  \* given to the constructor: "BLOCK" or "UNBLOCK"
  listening,
  backlog,     \* connections to be accepted, oldest first
  accpt,
  addr,
  accepted,    \* the connections accepted so far
  sent, read,  \* pieces sent and read on each connection
  hungUp,      \* connections their host has closed
  shut,        \* connections get() has closed
  at,          \* where each thread is, and the caller of get()
  conn,        \* the connection it has read from
  shared,      \* auxiliary: accpt and addr have had two users
  delivered    \* auxiliary: what the callback was given

network == <<listening, backlog, sent, hungUp>>
members == <<accpt, addr>>
locals == <<at, conn>>
ghosts == <<shared, delivered>>
vars == <<receiveopt, network, members, accepted, read, shut, locals, ghosts>>

Get == "get"
Users == Threads \cup {Get}

\* "off"   not started; get() is not being called
\* "loop"  at select and accept
\* "recv"  goes on to recvfrom
\* "name"  has read something, goes on to addr and the callback
Places == {"off", "loop", "recv", "name"}

Hosts == {Host[c] : c \in Conns}

Deliveries == [conn : Conns, from : Hosts \cup {Nobody}]

\* Type invariant
NetReceiveTypeOK ==
  /\ receiveopt \in {"BLOCK", "UNBLOCK"}
  /\ listening \in BOOLEAN
  /\ backlog \in Seq(Conns)
  /\ accpt \in Conns \cup {Nobody}
  /\ addr \in Hosts \cup {Nobody}
  /\ accepted \subseteq Conns /\ shut \subseteq accepted /\ hungUp \subseteq Conns
  /\ sent \in [Conns -> 0 .. MaxPieces] /\ read \in [Conns -> 0 .. MaxPieces]
  /\ \A c \in Conns : read[c] <= sent[c]
  /\ at \in [Users -> Places] /\ conn \in [Users -> Conns \cup {Nobody}]
  /\ shared \in BOOLEAN
  /\ delivered \subseteq Deliveries

Init ==
  /\ receiveopt \in {"BLOCK", "UNBLOCK"}
  /\ listening = FALSE
  /\ backlog = <<>>
  /\ accpt = Nobody /\ addr = Nobody
  /\ accepted = {} /\ hungUp = {} /\ shut = {}
  /\ sent = [c \in Conns |-> 0] /\ read = [c \in Conns |-> 0]
  /\ at = [u \in Users |-> "off"] /\ conn = [u \in Users |-> Nobody]
  /\ shared = FALSE /\ delivered = {}

Goto(u, place, c) ==
  /\ at' = [at EXCEPT ![u] = place]
  /\ conn' = [conn EXCEPT ![u] = c]

-----------------------------------------------------------------------------
\* Hosts

Arrived(c) == c \in accepted \/ \E k \in DOMAIN backlog : backlog[k] = c

Connect(c) ==
  /\ listening
  /\ ~Arrived(c)
  /\ backlog' = Append(backlog, c)
  /\ UNCHANGED <<listening, sent, hungUp>>

Send(c) ==
  /\ Arrived(c) /\ c \notin hungUp \cup shut
  /\ sent[c] < MaxPieces
  /\ sent' = [sent EXCEPT ![c] = @ + 1]
  /\ UNCHANGED <<listening, backlog, hungUp>>

HangUp(c) ==
  /\ Arrived(c) /\ c \notin hungUp
  /\ hungUp' = hungUp \cup {c}
  /\ UNCHANGED <<listening, backlog, sent>>

HostStep(c) ==
  /\ Connect(c) \/ Send(c) \/ HangUp(c)
  /\ UNCHANGED <<receiveopt, members, accepted, read, shut, locals, ghosts>>

-----------------------------------------------------------------------------
\* setReceiveEvent and get

\* A second user of accpt and addr comes.
Begin(u) ==
  /\ at[u] = "off"
  /\ Goto(u, "loop", Nobody)
  /\ listening' = TRUE
  /\ shared' = (shared \/ \E v \in Users : at[v] # "off")
  /\ UNCHANGED <<receiveopt, backlog, sent, hungUp, members, accepted, read, shut, delivered>>

\* The handle of a thread that was started before is closed; the thread runs on.  A new
\* thread that comes before listen fails to accept and tries again.
SetReceiveEvent(t) == Begin(t)

CallGet == Begin(Get)

-----------------------------------------------------------------------------
\* accept

\* mutant of FillsAddress: accept is called without the address, as getBlock does
FillsNoAddress(u) == FALSE

\* getBlock calls accept(s_in, 0, 0).
FillsAddress(u) == u # Get \/ receiveopt = "UNBLOCK"

Accept(u) ==
  /\ at[u] = "loop"
  /\ backlog # <<>>
  /\ LET c == Head(backlog)
     IN  /\ accpt' = c
         /\ accepted' = accepted \cup {c}
         /\ addr' = IF FillsAddress(u) THEN Host[c] ELSE addr
  /\ backlog' = Tail(backlog)
  /\ Goto(u, "recv", Nobody)
  /\ UNCHANGED <<receiveopt, listening, sent, hungUp, read, shut, ghosts>>

\* A non-blocking accept finds no connection and accpt is INVALID_SOCKET.  A receive
\* thread loops; getUnBlock, which tests whether an unsigned accpt is below 0, goes on.
AcceptNothing(u) ==
  /\ at[u] = "loop"
  /\ receiveopt = "UNBLOCK"
  /\ backlog = <<>>
  /\ accpt' = Nobody
  /\ Goto(u, IF u = Get THEN "recv" ELSE "loop", Nobody)
  /\ UNCHANGED <<receiveopt, network, addr, accepted, read, shut, ghosts>>

-----------------------------------------------------------------------------
\* recvfrom, on what accpt holds by now

Readable(c) == c # Nobody /\ c \notin shut /\ read[c] < sent[c]

\* recvfrom returns 0 or an error.  An accepted socket blocks if s_in does: a
\* non-blocking one has nothing to read while the host has not sent anything.
Unreadable(c) ==
  ~Readable(c) /\ (c \in hungUp \cup shut \cup {Nobody} \/ receiveopt = "UNBLOCK")

\* A receive thread forgets the connection, get() closes it and returns.
Leave(u) ==
  /\ Goto(u, IF u = Get THEN "off" ELSE "loop", Nobody)
  /\ shut' = IF u = Get THEN shut \cup ({accpt} \ {Nobody}) ELSE shut

\* mutant of Recv: "recsize > 1"
RecvOffByOne(u) ==
  /\ at[u] = "recv"
  /\ Readable(accpt)
  /\ \E n \in 1 .. sent[accpt] - read[accpt] :
       /\ read' = [read EXCEPT ![accpt] = @ + n]
       /\ Goto(u, IF n = 1 THEN "loop" ELSE "name", accpt)
  /\ UNCHANGED <<receiveopt, network, members, accepted, shut, ghosts>>

Recv(u) ==
  /\ at[u] = "recv"
  /\ Readable(accpt)
  /\ \E n \in 1 .. sent[accpt] - read[accpt] :
       read' = [read EXCEPT ![accpt] = @ + n]
  /\ Goto(u, "name", accpt)
  /\ UNCHANGED <<receiveopt, network, members, accepted, shut, ghosts>>

\* mutant of RecvNothing: a receive thread ends with the first silent connection
RecvNothingEnds(u) ==
  /\ at[u] = "recv"
  /\ Unreadable(accpt)
  /\ Goto(u, "off", Nobody)
  /\ UNCHANGED <<receiveopt, network, members, accepted, read, shut, ghosts>>

RecvNothing(u) ==
  /\ at[u] = "recv"
  /\ Unreadable(accpt)
  /\ Leave(u)
  /\ UNCHANGED <<receiveopt, network, members, accepted, read, ghosts>>

\* inet_ntoa(addr.sin_addr) and the callback.  get() hands over the same address, with
\* a reference to a local variable: what its caller reads through it is undefined.
Deliver(u) ==
  /\ at[u] = "name"
  /\ delivered' = IF u = Get THEN delivered
                  ELSE delivered \cup {[conn |-> conn[u], from |-> addr]}
  /\ Leave(u)
  /\ UNCHANGED <<receiveopt, network, members, accepted, read, shared>>

Receive(u) == Accept(u) \/ AcceptNothing(u) \/ Recv(u) \/ RecvNothing(u) \/ Deliver(u)

Next ==
  \/ \E c \in Conns : HostStep(c)
  \/ \E t \in Threads : SetReceiveEvent(t)
  \/ CallGet
  \/ \E u \in Users : Receive(u)

Spec == Init /\ [][Next]_vars

\* Threads run; a host that has connected sends or hangs up, as CNetTcp::send does,
\* which connects and sends in one call.
FairSpec ==
  /\ Spec
  /\ \A u \in Users : WF_vars(Receive(u))
  /\ \A c \in Conns : WF_vars((Send(c) \/ HangUp(c)) /\ HostStep(c))

-----------------------------------------------------------------------------
\* Properties, for an object with one user: one receive thread, or calls of get()
\* one at a time.  Two users overwrite each other's accpt and addr.

\* The callback is told the host that sent what it is given.
SenderIsReal == ~shared => \A d \in delivered : d.from = Host[d.conn]

\* A receive thread that blocks gives every connection it has accepted to the callback,
\* unless the host has hung up without a word: none is forgotten unread.
NothingSkipped ==
  ~shared /\ receiveopt = "BLOCK" /\ at[Get] = "off" =>
    \A c \in accepted \ (shut \cup {accpt}) :
      (\E d \in delivered : d.conn = c) \/ (c \in hungUp /\ sent[c] = 0)

\* A connection is accepted in the end, when a receive thread runs: the thread reads once
\* from each connection and goes on.  (A host that is silent for ever, which the fairness
\* excludes, would keep a blocking thread for ever.)
AcceptedInTheEnd ==
  [](~shared) =>
    \A c \in Conns :
      (Arrived(c) /\ \E t \in Threads : at[t] # "off") ~> (c \in accepted)
=============================================================================

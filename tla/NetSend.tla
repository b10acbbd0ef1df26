------------------------------- MODULE NetSend -------------------------------
(***************************************************************************)
(* The sending half of CNetTcp (CNetTcp.h, CNet.h), for several objects of *)
(* one process: a stream socket that send() makes and keeps in s_out.  A   *)
(* socket handle is a number of the process, which the system gives out    *)
(* again once the socket is closed.  A call is one step; making a socket,  *)
(* connecting and sending may fail whenever they like.                     *)
(***************************************************************************)
EXTENDS Naturals, FiniteSets

CONSTANTS
  Nets,      \* the CNetTcp objects
  Hosts,     \* the destinations
  Handles,   \* bound: the handles the system gives out
  NoSocket,  \* s_out is 0 or INVALID_SOCKET, which every call of the system refuses
  Nobody     \* owns a handle that is free; the peer of a socket not connected

\* An assumption on the constants
SendAssumption == Nobody \notin Nets /\ NoSocket \notin Handles

VARIABLES
  nets,       \* the objects that exist
  s_out,
  connected,
  out,        \* the default destination
  owner,      \* of each handle: the object that opened it
  peer,       \* of each handle: the host it is connected to
  stale       \* auxiliary: a close hit a handle that was no longer the object's

sendVars == <<nets, s_out, connected, out, owner, peer, stale>>

Init ==
  /\ nets = Nets
  /\ s_out = [n \in Nets |-> NoSocket]
  /\ connected = [n \in Nets |-> FALSE]
  /\ out \in [Nets -> Hosts]
  /\ owner = [h \in Handles |-> Nobody]
  /\ peer = [h \in Handles |-> Nobody]
  /\ stale = FALSE

\* A table of the system after a close of h, whoever owns it, and with n entered for g
Closed(table, h) == [x \in Handles |-> IF x = h THEN Nobody ELSE table[x]]

Opened(table, g, n) == [x \in Handles |-> IF x = g THEN n ELSE table[x]]

Open(n, h) == h \in Handles /\ owner[h] = n

\* s_out is the handle of a socket that n has closed already.
Foreign(n) == s_out[n] # NoSocket /\ ~Open(n, s_out[n])

\* mutants of Fails: the flag is not reset; the socket is not closed
FailsConnected(n, h, owners, peers) ==
  /\ connected' = [connected EXCEPT ![n] = TRUE]
  /\ owner' = Closed(owners, h) /\ peer' = Closed(peers, h)

FailsOpen(n, h, owners, peers) ==
  /\ connected' = [connected EXCEPT ![n] = FALSE]
  /\ owner' = owners /\ peer' = peers

\* "shutdown, closesocket, connected = false"
Fails(n, h, owners, peers) ==
  /\ connected' = [connected EXCEPT ![n] = FALSE]
  /\ owner' = Closed(owners, h) /\ peer' = Closed(peers, h)

\* sendto on h, which needs a peer.  s_out keeps the handle of a socket that failed.
SendTo(n, h, owners, peers) ==
  /\ s_out' = [s_out EXCEPT ![n] = h]
  /\ \/ /\ peers[h] # Nobody
        /\ connected' = [connected EXCEPT ![n] = TRUE]
        /\ owner' = owners /\ peer' = peers
     \/ Fails(n, h, owners, peers)

\* send(str): a socket is made when connected is false; the result of connect, which
\* fails on a socket that is connected, is ignored.
Send(n) ==
  /\ n \in nets
  /\ \/ /\ ~connected[n]
        /\ \E h \in Handles, p \in {out[n], Nobody} :
             /\ owner[h] = Nobody
             /\ SendTo(n, h, Opened(owner, h, n), Opened(peer, h, p))
     \/ /\ connected[n]
        /\ SendTo(n, s_out[n], owner, peer)
  /\ stale' = (stale \/ (connected[n] /\ Foreign(n)))
  /\ UNCHANGED <<nets, out>>

\* send(str, dest): the connect fails, because s_out is connected, closed or 0 (no call
\* leaves an open socket that is not connected).  s_out is closed, whatever it is by
\* now, and a new socket is made and connected, or not.
SendDest(n, dest) ==
  /\ n \in nets
  /\ LET owners == Closed(owner, s_out[n])
         peers == Closed(peer, s_out[n])
     IN  \E h \in Handles, p \in {dest, Nobody} :
           /\ owners[h] = Nobody
           /\ SendTo(n, h, Opened(owners, h, n), Opened(peers, h, p))
  /\ stale' = (stale \/ Foreign(n))
  /\ UNCHANGED <<nets, out>>

\* socket() fails, and with it all that follows in send.
SocketFails(n, owners, peers) ==
  /\ s_out' = [s_out EXCEPT ![n] = NoSocket]
  /\ connected' = [connected EXCEPT ![n] = FALSE]
  /\ owner' = owners /\ peer' = peers
  /\ UNCHANGED <<nets, out>>

SendNoSocket(n) ==
  /\ n \in nets /\ ~connected[n]
  /\ SocketFails(n, owner, peer)
  /\ UNCHANGED stale

SendDestNoSocket(n) ==
  /\ n \in nets
  /\ SocketFails(n, Closed(owner, s_out[n]), Closed(peer, s_out[n]))
  /\ stale' = (stale \/ Foreign(n))

SetDefaultDestination(n, host) ==
  /\ n \in nets
  /\ out' = [out EXCEPT ![n] = host]
  /\ UNCHANGED <<nets, s_out, connected, owner, peer, stale>>

\* ~CNet: "if(s_out) closesocket(s_out)"
Delete(n) ==
  /\ n \in nets
  /\ nets' = nets \ {n}
  /\ owner' = Closed(owner, s_out[n]) /\ peer' = Closed(peer, s_out[n])
  /\ stale' = (stale \/ Foreign(n))
  /\ UNCHANGED <<s_out, connected, out>>

Next ==
  \E n \in Nets :
    \/ Send(n) \/ SendNoSocket(n) \/ SendDestNoSocket(n)
    \/ \E host \in Hosts : SendDest(n, host) \/ SetDefaultDestination(n, host)
    \/ Delete(n)

Spec == Init /\ [][Next]_sendVars

-----------------------------------------------------------------------------
\* Properties

\* Every open socket can still be closed by its object, which exists and has it in
\* s_out: no path of send forgets one.
NoSocketLeak ==
  \A h \in Handles : owner[h] # Nobody => owner[h] \in nets /\ s_out[owner[h]] = h

\* An object that believes it is connected has a socket of its own that is connected,
\* as long as nobody has closed a handle it no longer owned: an object whose send
\* failed keeps the handle in s_out, and send(str, dest) and the destructor close it.
ConnectedIsOwn ==
  ~stale =>
    \A n \in nets : connected[n] => Open(n, s_out[n]) /\ peer[s_out[n]] # Nobody
=============================================================================

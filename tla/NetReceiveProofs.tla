--------------------------- MODULE NetReceiveProofs --------------------------
(***************************************************************************)
(* Theorems about NetReceive, for any number of hosts, connections, pieces *)
(* and threads.                                                            *)
(***************************************************************************)
EXTENDS NetReceive, SequenceTheorems, TLAPS

AtMostOne(S) == \A x, y \in S : x = y

\* A connection is accepted once, and nothing is read from it before.
Fresh ==
  /\ \A k \in DOMAIN backlog : backlog[k] \notin accepted
  /\ \A j, k \in DOMAIN backlog : backlog[j] = backlog[k] => j = k
  /\ \A c \in Conns : read[c] # 0 => c \in accepted

\* accpt is a connection that was accepted, and a user that goes on to the callback has
\* read from one.
AccptAccepted ==
  /\ accpt \in accepted \cup {Nobody}
  /\ \A u \in Users : at[u] = "name" => conn[u] \in Conns

\* What a user of accpt and addr finds in them, when there is no other
Active == {u \in Users : at[u] # "off"}

OwnMembers ==
  /\ AtMostOne(Active)
  /\ \A u \in Users : /\ u # Get /\ at[u] \in {"recv", "name"} =>
                           accpt \in Conns /\ addr = Host[accpt]
                      /\ at[u] = "recv" /\ accpt \in Conns => read[accpt] = 0
                      /\ at[u] = "name" => conn[u] = accpt

\* The callback has been given something of c, or c has nothing to give.
Done(c) == (\E d \in delivered : d.conn = c) \/ (c \in hungUp /\ sent[c] = 0)

\* A blocking user works on one connection, and is done with the others.
OthersDone ==
  \A c \in accepted \ shut :
    Done(c) \/ (c = accpt /\ \E u \in Users : at[u] \in {"recv", "name"})

IInv ==
  /\ NetReceiveTypeOK
  /\ Fresh /\ AccptAccepted
  /\ ~shared => /\ OwnMembers /\ SenderIsReal
                /\ receiveopt = "BLOCK" => OthersDone

-----------------------------------------------------------------------------
\* Types

LEMMA BacklogFacts ==
  ASSUME NetReceiveTypeOK
  PROVE  /\ Len(backlog) \in Nat /\ DOMAIN backlog = 1 .. Len(backlog)
         /\ \A k \in DOMAIN backlog : backlog[k] \in Conns
         /\ backlog # <<>> =>
              /\ Head(backlog) = backlog[1] /\ 1 \in DOMAIN backlog
              /\ Tail(backlog) \in Seq(Conns)
              /\ DOMAIN Tail(backlog) = 1 .. Len(backlog) - 1
              /\ \A k \in 1 .. Len(backlog) - 1 : Tail(backlog)[k] = backlog[k + 1]
<1>1. backlog \in Seq(Conns)
  BY DEF NetReceiveTypeOK
<1>2. Len(backlog) \in Nat /\ DOMAIN backlog = 1 .. Len(backlog)
  BY <1>1, LenProperties
<1>3. \A k \in DOMAIN backlog : backlog[k] \in Conns
  BY <1>1, <1>2, ElementOfSeq
<1>4. ASSUME backlog # <<>>
      PROVE  /\ Head(backlog) = backlog[1] /\ 1 \in DOMAIN backlog
             /\ Tail(backlog) \in Seq(Conns)
             /\ DOMAIN Tail(backlog) = 1 .. Len(backlog) - 1
             /\ \A k \in 1 .. Len(backlog) - 1 : Tail(backlog)[k] = backlog[k + 1]
  <2>1. Len(backlog) # 0
    BY <1>1, <1>4, EmptySeq
  <2>2. /\ Tail(backlog) \in Seq(Conns) /\ Len(Tail(backlog)) = Len(backlog) - 1
        /\ \A k \in 1 .. Len(Tail(backlog)) : Tail(backlog)[k] = backlog[k + 1]
    BY <1>1, <1>4, HeadTailProperties
  <2>3. DOMAIN Tail(backlog) = 1 .. Len(backlog) - 1
    BY <2>2, LenProperties
  <2>4. 1 \in DOMAIN backlog
    BY <1>2, <2>1
  <2>5. Head(backlog) = backlog[1]
    BY <1>1
  <2>6. QED
    BY <2>2, <2>3, <2>4, <2>5
<1>5. QED
  BY <1>2, <1>3, <1>4

LEMMA HostsAreHosts == \A c \in Conns : Host[c] \in Hosts
BY DEF Hosts

LEMMA TypeStep ==
  ASSUME IInv, Next
  PROVE  NetReceiveTypeOK'
<1> USE DEF IInv, NetReceiveTypeOK, Places
<1>1. ASSUME NEW c \in Conns, HostStep(c) PROVE NetReceiveTypeOK'
  <2> USE <1>1 DEF HostStep, locals, ghosts, members
  <2>1. CASE Connect(c)
    <3>1. backlog' \in Seq(Conns)
      BY <2>1, AppendProperties DEF Connect
    <3>2. QED
      BY <2>1, <3>1 DEF Connect
  <2>2. CASE Send(c)
    <3>1. sent[c] \in Nat /\ sent[c] + 1 \in 0 .. MaxPieces
      BY <2>2, NetReceiveAssumption DEF Send
    <3>2. sent' \in [Conns -> 0 .. MaxPieces]
      BY <2>2, <3>1 DEF Send
    <3>3. \A d \in Conns : sent[d] <= sent'[d]
      BY <2>2, <3>1, NetReceiveAssumption DEF Send
    <3>4. \A d \in Conns : read'[d] <= sent'[d]
      <4> TAKE d \in Conns
      <4>1. read[d] \in Nat /\ sent[d] \in Nat /\ sent'[d] \in Nat
        BY <3>2, NetReceiveAssumption
      <4>2. read[d] <= sent[d] /\ sent[d] <= sent'[d] /\ read' = read
        BY <3>3
      <4>3. QED
        BY <4>1, <4>2
    <3>5. QED
      BY <2>2, <3>2, <3>4 DEF Send
  <2>3. CASE HangUp(c)
    BY <2>3 DEF HangUp
  <2>4. QED
    BY <2>1, <2>2, <2>3
<1>2. ASSUME NEW u \in Users, Begin(u) PROVE NetReceiveTypeOK'
  <2>1. shared' \in BOOLEAN
    BY <1>2, Zenon DEF Begin
  <2>2. QED
    BY <1>2, <2>1 DEF Begin, Goto, members
<1>3. ASSUME NEW u \in Users, Accept(u) PROVE NetReceiveTypeOK'
  <2>1. backlog' \in Seq(Conns) /\ Head(backlog) \in Conns
    BY <1>3, BacklogFacts DEF Accept
  <2>2. addr' \in Hosts \cup {Nobody}
    BY <1>3, <2>1, HostsAreHosts DEF Accept
  <2>3. QED
    BY <1>3, <2>1, <2>2 DEF Accept, Goto, ghosts
<1>4. ASSUME NEW u \in Users, AcceptNothing(u) PROVE NetReceiveTypeOK'
  BY <1>4 DEF AcceptNothing, Goto, ghosts, network
<1>5. ASSUME NEW u \in Users, Recv(u) PROVE NetReceiveTypeOK'
  <2>1. accpt \in Conns /\ read[accpt] < sent[accpt]
    BY <1>5 DEF Recv, Readable
  <2>2. PICK n \in 1 .. sent[accpt] - read[accpt] :
               read' = [read EXCEPT ![accpt] = read[accpt] + n]
    BY <1>5 DEF Recv
  <2>3. read[accpt] \in Nat /\ sent[accpt] \in 0 .. MaxPieces
    BY <2>1
  <2>4. read[accpt] + n \in 0 .. MaxPieces /\ read[accpt] + n <= sent[accpt]
    BY <2>2, <2>3, NetReceiveAssumption
  <2>5. read' \in [Conns -> 0 .. MaxPieces] /\ \A c \in Conns : read'[c] <= sent[c]
    BY <2>1, <2>2, <2>4
  <2>6. QED
    BY <1>5, <2>5 DEF Recv, Goto, ghosts, network, members
<1>6. ASSUME NEW u \in Users, Leave(u)
      PROVE  shut' \subseteq accepted /\ at' \in [Users -> Places]
                                             /\ conn' \in [Users -> Conns \cup {Nobody}]
  BY <1>6 DEF Leave, Goto, AccptAccepted
<1>7. ASSUME NEW u \in Users, RecvNothing(u) PROVE NetReceiveTypeOK'
  BY <1>6, <1>7 DEF RecvNothing, ghosts, network, members
<1>8. ASSUME NEW u \in Users, Deliver(u) PROVE NetReceiveTypeOK'
  <2>1. [conn |-> conn[u], from |-> addr] \in Deliveries
    BY <1>8 DEF Deliver, AccptAccepted, Deliveries
  <2>2. delivered' \subseteq Deliveries
    BY <1>8, <2>1 DEF Deliver
  <2>3. QED
    BY <1>6, <1>8, <2>2 DEF Deliver, network, members
<1>9. QED
  BY <1>1, <1>2, <1>3, <1>4, <1>5, <1>7, <1>8
     DEF Next, SetReceiveEvent, CallGet, Receive, Users

\* Connections are accepted in the order of the backlog, each once.
LEMMA FreshStep ==
  ASSUME IInv, Next
  PROVE  Fresh' /\ AccptAccepted'
<1> USE DEF IInv
<1>1. ASSUME NEW c \in Conns, HostStep(c) PROVE Fresh' /\ AccptAccepted'
  <2>1. UNCHANGED <<accpt, accepted, read, at, conn>>
    BY <1>1 DEF HostStep, members, locals
  <2>2. CASE Connect(c)
    <3> DEFINE n == Len(backlog)
    <3>1. c \notin accepted /\ \A k \in DOMAIN backlog : backlog[k] # c
      BY <2>2 DEF Connect, Arrived
    <3>2. /\ backlog' \in Seq(Conns) /\ Len(backlog') = n + 1 /\ backlog'[n + 1] = c
          /\ \A k \in 1 .. n : backlog'[k] = backlog[k]
      BY <2>2, AppendProperties DEF Connect, NetReceiveTypeOK
    <3>3. n \in Nat /\ DOMAIN backlog = 1 .. n /\ DOMAIN backlog' = 1 .. n + 1
      BY <3>2, BacklogFacts, LenProperties
    <3> HIDE DEF n
    <3>4. 1 .. n + 1 = (1 .. n) \cup {n + 1}
      BY <3>3
    <3>5. \A k \in DOMAIN backlog' : backlog'[k] \notin accepted
      BY <3>1, <3>2, <3>3, <3>4 DEF Fresh
    <3>6. \A j, k \in DOMAIN backlog' : backlog'[j] = backlog'[k] => j = k
      BY <3>1, <3>2, <3>3, <3>4 DEF Fresh
    <3>7. QED
      BY <2>1, <3>5, <3>6 DEF Fresh, AccptAccepted
  <2>3. CASE Send(c) \/ HangUp(c)
    <3>1. UNCHANGED backlog
      BY <2>3 DEF Send, HangUp
    <3>2. QED
      BY <2>1, <3>1 DEF Fresh, AccptAccepted
  <2>4. QED
    BY <1>1, <2>2, <2>3 DEF HostStep
<1>2. ASSUME NEW u \in Users, Begin(u) PROVE Fresh' /\ AccptAccepted'
  BY <1>2 DEF Begin, Goto, members, Fresh, AccptAccepted, NetReceiveTypeOK
<1>3. ASSUME NEW u \in Users, Accept(u) PROVE Fresh' /\ AccptAccepted'
  <2> DEFINE c == Head(backlog)
             n == Len(backlog)
  <2>1. /\ c = backlog[1] /\ 1 \in DOMAIN backlog /\ n \in Nat /\ DOMAIN backlog = 1 .. n
        /\ DOMAIN Tail(backlog) = 1 .. n - 1
        /\ \A k \in 1 .. n - 1 : Tail(backlog)[k] = backlog[k + 1]
    BY <1>3, BacklogFacts DEF Accept
  <2>2. backlog' = Tail(backlog) /\ accepted' = accepted \cup {c} /\ accpt' = c /\ read' = read
    BY <1>3 DEF Accept
  <2> HIDE DEF c, n
  <2>3. \A k \in 1 .. n - 1 : k + 1 \in 1 .. n /\ k + 1 # 1
    BY <2>1
  <2>4. \A k \in DOMAIN backlog' : backlog'[k] \notin accepted'
    BY <2>1, <2>2, <2>3 DEF Fresh
  <2>5. ASSUME NEW j \in DOMAIN backlog', NEW k \in DOMAIN backlog', backlog'[j] = backlog'[k]
        PROVE  j = k
    <3>1. j \in 1 .. n - 1 /\ k \in 1 .. n - 1 /\ backlog[j + 1] = backlog[k + 1]
      BY <2>1, <2>2, <2>5
    <3>2. j + 1 = k + 1
      BY <2>1, <2>3, <3>1 DEF Fresh
    <3>3. QED
      BY <2>1, <3>1, <3>2
  <2>6. Fresh'
    BY <2>2, <2>4, <2>5 DEF Fresh
  <2>7. AccptAccepted'
    BY <1>3, <2>2 DEF Accept, Goto, AccptAccepted, NetReceiveTypeOK
  <2>8. QED
    BY <2>6, <2>7
<1>4. ASSUME NEW u \in Users, AcceptNothing(u) PROVE Fresh' /\ AccptAccepted'
  BY <1>4 DEF AcceptNothing, Goto, network, Fresh, AccptAccepted, NetReceiveTypeOK
<1>5. ASSUME NEW u \in Users, Recv(u) PROVE Fresh' /\ AccptAccepted'
  <2>1. accpt \in accepted /\ accpt \in Conns
    BY <1>5 DEF Recv, Readable, AccptAccepted, NetReceiveTypeOK
  <2>2. \A c \in Conns : c # accpt => read'[c] = read[c]
    BY <1>5 DEF Recv, NetReceiveTypeOK
  <2>3. UNCHANGED <<backlog, accepted, accpt>>
    BY <1>5 DEF Recv, network, members
  <2>4. Fresh'
    BY <2>1, <2>2, <2>3 DEF Fresh
  <2>5. AccptAccepted'
    BY <1>5, <2>1, <2>3 DEF Recv, Goto, AccptAccepted, NetReceiveTypeOK
  <2>6. QED
    BY <2>4, <2>5
<1>6. ASSUME NEW u \in Users, RecvNothing(u) \/ Deliver(u) PROVE Fresh' /\ AccptAccepted'
  <2>1. Leave(u) /\ UNCHANGED <<backlog, accepted, accpt, read>>
    BY <1>6 DEF RecvNothing, Deliver, network, members
  <2>2. QED
    BY <2>1 DEF Leave, Goto, Fresh, AccptAccepted, NetReceiveTypeOK
<1>7. QED
  BY <1>1, <1>2, <1>3, <1>4, <1>5, <1>6 DEF Next, SetReceiveEvent, CallGet, Receive, Users

-----------------------------------------------------------------------------
\* One user

\* While there is one user of the members, the one that acts is the only one.
LEMMA OthersAreOff ==
  ASSUME OwnMembers, NEW u \in Users, at[u] # "off"
  PROVE  \A v \in Users : v # u => at[v] = "off"
BY DEF OwnMembers, AtMostOne, Active

\* What a move of u does to at and conn
LEMMA Moved ==
  ASSUME NetReceiveTypeOK, NEW u \in Users, NEW place, NEW c, Goto(u, place, c)
  PROVE  /\ at'[u] = place /\ conn'[u] = c
         /\ \A v \in Users : v # u => at'[v] = at[v] /\ conn'[v] = conn[v]
BY DEF Goto, NetReceiveTypeOK

\* While u is the only user, what the members must agree with is where u is.
LEMMA OneUser ==
  ASSUME NEW u \in Users,
         \A v \in Users : v # u => at'[v] = "off",
         u # Get /\ at'[u] \in {"recv", "name"} => accpt' \in Conns /\ addr' = Host[accpt'],
         at'[u] = "recv" /\ accpt' \in Conns => read'[accpt'] = 0,
         at'[u] = "name" => conn'[u] = accpt'
  PROVE  OwnMembers'
<1>1. AtMostOne(Active)'
  BY DEF AtMostOne, Active
<1>2. ASSUME NEW v \in Users
      PROVE  /\ v # Get /\ at'[v] \in {"recv", "name"} =>
                  accpt' \in Conns /\ addr' = Host[accpt']
             /\ at'[v] = "recv" /\ accpt' \in Conns => read'[accpt'] = 0
             /\ at'[v] = "name" => conn'[v] = accpt'
  BY <1>2
<1>3. QED
  BY <1>1, <1>2 DEF OwnMembers

\* A user keeps the members to itself until another one comes.
LEMMA OwnMembersStep ==
  ASSUME IInv, Next, ~shared'
  PROVE  OwnMembers'
<1> USE DEF IInv
<1>1. ASSUME NEW c \in Conns, HostStep(c) PROVE OwnMembers'
  <2>1. UNCHANGED <<accpt, addr, read, at, conn, shared>>
    BY <1>1 DEF HostStep, members, locals, ghosts
  <2>2. OwnMembers
    BY <2>1
  <2>3. QED
    BY <2>1, <2>2 DEF OwnMembers, AtMostOne, Active
<1>2. ASSUME NEW u \in Users, Begin(u) PROVE OwnMembers'
  <2>1. \A v \in Users : at[v] = "off"
    BY <1>2 DEF Begin
  <2>2. at'[u] = "loop" /\ \A v \in Users : v # u => at'[v] = "off"
    BY <1>2, <2>1, Moved DEF Begin
  <2>3. QED
    BY <2>2, OneUser
<1>3. ASSUME NEW u \in Users, Receive(u) PROVE OwnMembers'
  <2>1. shared' = shared /\ at[u] # "off"
    BY <1>3 DEF Receive, Accept, AcceptNothing, Recv, RecvNothing, Deliver, ghosts
  <2>2. OwnMembers
    BY <2>1
  <2>3. \A v \in Users : v # u => at[v] = "off"
    BY <2>1, <2>2, OthersAreOff
  <2>4. CASE Accept(u)
    <3>1. accpt' \in Conns /\ accpt' \notin accepted
      BY <2>4, BacklogFacts DEF Accept, Fresh
    <3>2. u # Get => addr' = Host[accpt']
      BY <2>4 DEF Accept, FillsAddress
    <3>3. read' = read /\ read[accpt'] = 0
      BY <2>4, <3>1 DEF Accept, Fresh
    <3>4. at'[u] = "recv" /\ \A v \in Users : v # u => at'[v] = "off"
      BY <2>3, <2>4, Moved DEF Accept
    <3>5. QED
      BY <3>1, <3>2, <3>3, <3>4, OneUser
  <2>5. CASE AcceptNothing(u)
    <3>1. accpt' = Nobody /\ Nobody \notin Conns
      BY <2>5, NetReceiveAssumption DEF AcceptNothing
    <3>2. /\ at'[u] = IF u = Get THEN "recv" ELSE "loop"
          /\ \A v \in Users : v # u => at'[v] = "off"
      BY <2>3, <2>5, Moved DEF AcceptNothing
    <3>3. at'[u] # "name" /\ (u # Get => at'[u] = "loop")
      BY <3>2
    <3>4. QED
      BY <3>1, <3>2, <3>3, OneUser
  <2>6. CASE Recv(u)
    <3>1. /\ at'[u] = "name" /\ conn'[u] = accpt
          /\ \A v \in Users : v # u => at'[v] = "off"
      BY <2>3, <2>6, Moved DEF Recv
    <3>2. UNCHANGED <<accpt, addr>> /\ at[u] = "recv"
      BY <2>6 DEF Recv, members
    <3>3. u # Get => accpt \in Conns /\ addr = Host[accpt]
      BY <2>2, <3>2 DEF OwnMembers
    <3>4. QED
      BY <3>1, <3>2, <3>3, OneUser
  <2>7. CASE RecvNothing(u) \/ Deliver(u)
    <3>1. Leave(u)
      BY <2>7 DEF RecvNothing, Deliver
    <3>2. /\ at'[u] = IF u = Get THEN "off" ELSE "loop"
          /\ \A v \in Users : v # u => at'[v] = "off"
      BY <2>3, <3>1, Moved DEF Leave
    <3>3. at'[u] \notin {"recv", "name"}
      BY <3>2
    <3>4. QED
      BY <3>2, <3>3, OneUser
  <2>8. QED
    BY <1>3, <2>4, <2>5, <2>6, <2>7 DEF Receive
<1>4. QED
  BY <1>1, <1>2, <1>3 DEF Next, SetReceiveEvent, CallGet, Users

\* The callback is told an address that the one user has not changed since it accepted.
LEMMA SenderStep ==
  ASSUME IInv, Next, ~shared'
  PROVE  SenderIsReal'
<1>1. ASSUME UNCHANGED delivered, ~shared PROVE SenderIsReal'
  BY <1>1 DEF IInv, SenderIsReal
<1>2. ASSUME NEW u \in Users, Deliver(u) PROVE SenderIsReal'
  <2>1. ~shared /\ at[u] = "name"
    BY <1>2 DEF Deliver
  <2>2. OwnMembers /\ SenderIsReal
    BY <2>1 DEF IInv
  <2>3. CASE u = Get
    BY <1>1, <1>2, <2>1, <2>3 DEF Deliver
  <2>4. CASE u # Get
    <3>1. conn[u] = accpt /\ addr = Host[accpt]
      BY <2>1, <2>2, <2>4 DEF OwnMembers
    <3>2. delivered' = delivered \cup {[conn |-> conn[u], from |-> addr]}
      BY <1>2, <2>4 DEF Deliver
    <3>3. \A d \in delivered' : d.from = Host[d.conn]
      BY <2>1, <2>2, <3>1, <3>2 DEF SenderIsReal
    <3>4. QED
      BY <3>3 DEF SenderIsReal
  <2>5. QED
    BY <2>3, <2>4
<1>3. ASSUME NEW u \in Users, Begin(u) PROVE SenderIsReal'
  <2>1. UNCHANGED delivered /\ ~shared
    BY <1>3 DEF Begin
  <2>2. QED
    BY <1>1, <2>1
<1>4. ASSUME NEW u \in Users, Receive(u), ~Deliver(u) PROVE SenderIsReal'
  <2>1. UNCHANGED <<delivered, shared>>
    BY <1>4 DEF Receive, Accept, AcceptNothing, Recv, RecvNothing, ghosts
  <2>2. QED
    BY <1>1, <2>1
<1>5. ASSUME NEW c \in Conns, HostStep(c) PROVE SenderIsReal'
  <2>1. UNCHANGED <<delivered, shared>>
    BY <1>5 DEF HostStep, ghosts
  <2>2. QED
    BY <1>1, <2>1
<1>6. QED
  BY <1>2, <1>3, <1>4, <1>5 DEF Next, SetReceiveEvent, CallGet, Users

-----------------------------------------------------------------------------
\* What a blocking user is done with

\* A connection that is done with stays so.
LEMMA DoneStays ==
  ASSUME IInv, Next, NEW d \in Conns, Done(d)
  PROVE  Done(d)'
<1>1. delivered \subseteq delivered'
  BY DEF Next, HostStep, SetReceiveEvent, CallGet, Begin, Receive, Accept, AcceptNothing,
         Recv, RecvNothing, Deliver, ghosts
<1>2. ASSUME d \in hungUp, sent[d] = 0 PROVE d \in hungUp' /\ sent'[d] = 0
  <2>1. ASSUME NEW c \in Conns, HostStep(c) PROVE d \in hungUp' /\ sent'[d] = 0
    BY <1>2, <2>1 DEF HostStep, Connect, Send, HangUp, IInv, NetReceiveTypeOK
  <2>2. ASSUME UNCHANGED <<hungUp, sent>> PROVE d \in hungUp' /\ sent'[d] = 0
    BY <1>2, <2>2
  <2>3. QED
    BY <2>1, <2>2 DEF Next, SetReceiveEvent, CallGet, Begin, Receive, Accept,
                      AcceptNothing, Recv, RecvNothing, Deliver, network
<1>3. QED
  BY <1>1, <1>2 DEF Done

\* A blocking user leaves a connection only when it has handed something over, the host
\* has hung up, or get() closes it.
LEMMA LeftIsDone ==
  ASSUME IInv, OwnMembers, receiveopt = "BLOCK", NEW u \in Users,
         RecvNothing(u) \/ Deliver(u), accpt \in accepted \ shut'
  PROVE  Done(accpt)'
<1>1. accpt \in Conns /\ accpt # Nobody /\ u # Get /\ shut' = shut /\ accpt \notin shut
  BY NetReceiveAssumption DEF RecvNothing, Deliver, Leave, IInv, NetReceiveTypeOK
<1>2. CASE RecvNothing(u)
  <2>1. accpt \in hungUp /\ ~(read[accpt] < sent[accpt])
    BY <1>1, <1>2 DEF RecvNothing, Unreadable, Readable
  <2>2. read[accpt] = 0 /\ sent[accpt] \in Nat
    BY <1>1, <1>2, NetReceiveAssumption DEF RecvNothing, OwnMembers, IInv, NetReceiveTypeOK
  <2>3. sent[accpt] = 0
    BY <2>1, <2>2
  <2>4. UNCHANGED <<accpt, hungUp, sent>>
    BY <1>2 DEF RecvNothing, network, members
  <2>5. QED
    BY <2>1, <2>3, <2>4 DEF Done
<1>3. CASE Deliver(u)
  <2>1. conn[u] = accpt
    BY <1>3 DEF Deliver, OwnMembers
  <2>2. [conn |-> accpt, from |-> addr] \in delivered' /\ accpt' = accpt
    BY <1>1, <1>3, <2>1 DEF Deliver, members
  <2>3. \E d \in delivered' : d.conn = accpt
    BY <2>2
  <2>4. QED
    BY <2>2, <2>3 DEF Done
<1>4. QED
  BY <1>2, <1>3

LEMMA OthersDoneStep ==
  ASSUME IInv, Next, ~shared', receiveopt' = "BLOCK"
  PROVE  OthersDone'
<1>1. receiveopt = "BLOCK"
  BY DEF Next, HostStep, SetReceiveEvent, CallGet, Begin, Receive, Accept, AcceptNothing,
         Recv, RecvNothing, Deliver
<1>2. ~shared
  BY DEF Next, HostStep, SetReceiveEvent, CallGet, Begin, Receive, Accept, AcceptNothing,
         Recv, RecvNothing, Deliver, ghosts
<1>3. OwnMembers /\ OthersDone /\ accepted \subseteq Conns
  BY <1>1, <1>2 DEF IInv, NetReceiveTypeOK
<1>4. ASSUME NEW c \in Conns, HostStep(c) PROVE OthersDone'
  <2>1. UNCHANGED <<accpt, accepted, shut, at>>
    BY <1>4 DEF HostStep, members, locals
  <2>2. QED
    BY <1>3, <2>1, DoneStays DEF OthersDone
<1>5. ASSUME NEW u \in Users, Begin(u) PROVE OthersDone'
  <2>1. \A v \in Users : at[v] = "off"
    BY <1>5 DEF Begin
  <2>2. UNCHANGED <<accepted, shut>>
    BY <1>5 DEF Begin
  <2>3. \A c \in accepted \ shut : Done(c)
    BY <1>3, <2>1 DEF OthersDone
  <2>4. QED
    BY <1>3, <2>2, <2>3, DoneStays DEF OthersDone
<1>6. ASSUME NEW u \in Users, Accept(u) PROVE OthersDone'
  <2>1. at[u] = "loop" /\ \A v \in Users : v # u => at[v] = "off"
    BY <1>3, <1>6, OthersAreOff DEF Accept
  <2>2. \A c \in accepted \ shut : Done(c)
    BY <1>3, <2>1 DEF OthersDone
  <2>3. accepted' = accepted \cup {accpt'} /\ shut' = shut
    BY <1>6 DEF Accept
  <2>4. at'[u] = "recv"
    BY <1>6, Moved DEF Accept, IInv
  <2>5. QED
    BY <1>3, <2>2, <2>3, <2>4, DoneStays DEF OthersDone
<1>7. ASSUME NEW u \in Users, AcceptNothing(u) PROVE OthersDone'
  BY <1>1, <1>7 DEF AcceptNothing
<1>8. ASSUME NEW u \in Users, Recv(u) PROVE OthersDone'
  <2>1. at'[u] = "name" /\ UNCHANGED <<accpt, accepted, shut>>
    BY <1>8, Moved DEF Recv, IInv, members
  <2>2. QED
    BY <1>3, <2>1, DoneStays DEF OthersDone
<1>9. ASSUME NEW u \in Users, RecvNothing(u) \/ Deliver(u) PROVE OthersDone'
  <2>1. UNCHANGED <<accpt, accepted>> /\ shut \subseteq shut'
    BY <1>9 DEF RecvNothing, Deliver, Leave, members
  <2>2. ASSUME NEW c \in accepted' \ shut' PROVE Done(c)'
    <3>1. CASE c = accpt
      <4>1. Done(accpt)'
        BY <1>1, <1>3, <1>9, <2>1, <2>2, <3>1, LeftIsDone
      <4>2. QED
        BY <2>1, <3>1, <4>1 DEF Done
    <3>2. CASE c # accpt
      BY <1>3, <2>1, <2>2, <3>2, DoneStays DEF OthersDone
    <3>3. QED
      BY <3>1, <3>2
  <2>3. QED
    BY <2>2 DEF OthersDone
<1>10. QED
  BY <1>4, <1>5, <1>6, <1>7, <1>8, <1>9 DEF Next, SetReceiveEvent, CallGet, Receive, Users

-----------------------------------------------------------------------------
\* The theorems

LEMMA IInvInit == ASSUME Init PROVE IInv
<1> USE DEF Init
<1>1. NetReceiveTypeOK
  <2>1. /\ sent \in [Conns -> 0 .. MaxPieces] /\ read \in [Conns -> 0 .. MaxPieces]
        /\ \A c \in Conns : read[c] <= sent[c]
    BY NetReceiveAssumption
  <2>2. at \in [Users -> Places] /\ conn \in [Users -> Conns \cup {Nobody}]
    BY DEF Places
  <2>3. listening \in BOOLEAN /\ shared \in BOOLEAN
    BY Zenon
  <2>4. QED
    BY <2>1, <2>2, <2>3 DEF NetReceiveTypeOK
<1>2. Fresh /\ AccptAccepted
  BY DEF Fresh, AccptAccepted
<1>3. OwnMembers /\ SenderIsReal /\ OthersDone
  BY DEF OwnMembers, AtMostOne, Active, SenderIsReal, OthersDone
<1>4. QED
  BY <1>1, <1>2, <1>3 DEF IInv

LEMMA IInvStutters == ASSUME IInv, UNCHANGED vars PROVE IInv'
<1> USE DEF vars, network, members, locals, ghosts
<1>1. NetReceiveTypeOK'
  BY DEF IInv, NetReceiveTypeOK
<1>2. Fresh' /\ AccptAccepted'
  BY DEF IInv, Fresh, AccptAccepted
<1>3. ASSUME ~shared PROVE OwnMembers' /\ SenderIsReal'
  BY <1>3 DEF IInv, OwnMembers, AtMostOne, Active, SenderIsReal
<1>4. ASSUME ~shared, receiveopt = "BLOCK" PROVE OthersDone'
  BY <1>4 DEF IInv, OthersDone, Done
<1>5. QED
  BY <1>1, <1>2, <1>3, <1>4 DEF IInv

LEMMA IInvAlways == Spec => []IInv
<1>1. Init => IInv
  BY IInvInit
<1>2. IInv /\ [Next]_vars => IInv'
  <2>1. ASSUME IInv, Next PROVE IInv'
    BY <2>1, TypeStep, FreshStep, OwnMembersStep, SenderStep, OthersDoneStep DEF IInv
  <2>2. QED
    BY <2>1, IInvStutters
<1>3. QED
  BY <1>1, <1>2, PTL DEF Spec

\* Every variable has its type, and no more is read from a connection than was sent on it.
THEOREM TypesKept == Spec => []NetReceiveTypeOK
<1>1. IInv => NetReceiveTypeOK
  BY DEF IInv
<1>2. QED
  BY <1>1, IInvAlways, PTL

\* While accpt and addr have one user, the callback is told the host that sent what it is
\* given: nothing comes between accept and inet_ntoa(addr.sin_addr) to change addr.
THEOREM TheSenderIsReal == Spec => []SenderIsReal
<1>1. IInv => SenderIsReal
  BY DEF IInv, SenderIsReal
<1>2. QED
  BY <1>1, IInvAlways, PTL

\* A blocking receive thread that has accpt to itself gives every connection it accepts to
\* the callback before it takes the next, unless the host hung up without a word.
THEOREM NobodyIsSkipped == Spec => []NothingSkipped
<1>1. IInv => NothingSkipped
  BY DEF IInv, OthersDone, Done, NothingSkipped
<1>2. QED
  BY <1>1, IInvAlways, PTL
=============================================================================

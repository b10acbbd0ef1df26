---------------------------- MODULE ChannelProofs ----------------------------
(***************************************************************************)
(* Theorems about the parts that send, receive and log, for every value of *)
(* their constants.  An inductive invariant for each says what the other   *)
(* objects and threads have to keep.                                       *)
(*                                                                         *)
(*   ComPort  PortsAreOwned: who has which handle, and who is in Read      *)
(*            ReadersSleepOnlyWhenEmpty: who knows of the bytes queued     *)
(*   NetSend  NoSocketIsLost, ConnectionsAreOwn: an object has no open     *)
(*            socket but the one it believes connected                     *)
(*   NetUdp   SendersAreReal: the address filled in is that of the message *)
(*            received, until another thread comes between the two         *)
(*   Logger   MessagesGoWhereAsked: the members are what Init asked for    *)
(***************************************************************************)
EXTENDS MCParts, SequenceTheorems, FiniteSetTheorems, TLAPS

-----------------------------------------------------------------------------
\* CComPort

PortTypeOK ==
  /\ platform \in {"win32", "linux"}
  /\ open \subseteq PortHandles
  /\ inQue \in Nat /\ event \in BOOLEAN /\ early \in BOOLEAN
  /\ m_hPort \in [Coms -> PortHandles \cup {0}]
  /\ made \in [Coms -> {"none", "opening", "live"}]
  /\ reader \in [Coms -> {"out", "waiting", "woken", "reading", "undefined"}]
  /\ cbInQue \in [Coms -> Nat]
  /\ checking \in PortHandles \cup {0}

\* Handles have one owner each, and only objects that exist have one.
OneOwner ==
  /\ \A c \in Coms : made[c] = "none" => m_hPort[c] = 0
  /\ \A c, d \in Coms : c # d /\ m_hPort[c] = m_hPort[d] => m_hPort[c] = 0
  /\ \A c \in Coms : m_hPort[c] = checking => checking = 0

\* win32 opens the port once.
OpenOnce == platform = "win32" => 0 \notin open /\ \A g, h \in open : g = h

\* Only an object of win32 that has the port is in Read.
ReadersHaveThePort ==
  \A c \in Coms :
    reader[c] # "out" => platform = "win32" /\ made[c] = "live" /\ m_hPort[c] \in open

\* For every byte in the queue somebody knows: the driver has recorded it, or the reader
\* is past its wait and will take it, but for bytes without an event.
Known(c) ==
  \/ reader[c] \in {"woken", "undefined"}
  \/ reader[c] = "reading" /\ inQue <= cbInQue[c]

BytesKnown ==
  platform = "win32" => inQue = 0 \/ early \/ event \/ \E c \in Coms : Known(c)

\* Nothing is recorded for nobody as long as somebody waits for it.
WaitersMissNothing == \A c \in Coms : reader[c] = "waiting" => ~event

PortInv ==
  /\ PortTypeOK
  /\ PortsOwned /\ OneOwner /\ OpenOnce
  /\ ReadersHaveThePort
  /\ BytesKnown
  /\ WaitersMissNothing

-----------------------------------------------------------------------------
\* Nobody holds a handle that is not open, but for 0.
LEMMA HeldIsOpen ==
  ASSUME PortsOwned
  PROVE  /\ \A c \in Coms : m_hPort[c] # 0 => m_hPort[c] \in open
         /\ checking # 0 => checking \in open
BY DEF PortsOwned

LEMMA PortInvInit ==
  ASSUME PortInit PROVE PortInv
BY DEF PortInit, PortInv, PortTypeOK, PortsOwned, OneOwner, OpenOnce, ReadersHaveThePort,
   BytesKnown,
       WaitersMissNothing

\* What opening and closing do to the driver
LEMMA OpenEffect ==
  ASSUME PortTypeOK, NEW h, OpenPort(h)
  PROVE  /\ h \in PortHandles \ open /\ open' = open \cup {h}
         /\ inQue' \in Nat /\ event' \in BOOLEAN /\ early' \in BOOLEAN
         /\ platform = "win32" => open = {} /\ h # 0 /\ early' = (inQue' > 0)
<1>1. h \in PortHandles \ open /\ open' = open \cup {h}
  BY DEF OpenPort
<1>2. CASE platform = "win32"
  <2>1. open = {} /\ h # 0 /\ inQue' \in 0 .. MaxBytes /\ event' = FALSE
    BY <1>2 DEF OpenPort
  <2>2. early' = (inQue' > 0)
    BY <1>2, Zenon DEF OpenPort
  <2>3. inQue' \in Nat
    BY <2>1, ComPortAssumption
  <2>4. early' \in BOOLEAN
    BY <2>2, <2>3
  <2>5. QED
    BY <1>1, <2>1, <2>2, <2>3, <2>4, Zenon
<1>3. CASE platform # "win32"
  BY <1>1, <1>3, Zenon DEF OpenPort, PortTypeOK
<1>4. QED
  BY <1>2, <1>3

LEMMA CloseEffect ==
  ASSUME PortTypeOK, NEW h, ClosePort(h)
  PROVE  /\ open' = IF h = 0 THEN open ELSE open \ {h}
         /\ inQue' \in Nat /\ event' \in BOOLEAN /\ early' \in BOOLEAN
         /\ open' = {} => inQue' = 0 /\ event' = FALSE
         /\ open' # {} => inQue' = inQue /\ event' = event /\ early' = early
<1>1. open' = (IF h = 0 THEN open ELSE open \ {h})
  BY DEF ClosePort
<1>2. inQue' \in Nat /\ (open' = {} => inQue' = 0) /\ (open' # {} => inQue' = inQue)
  BY DEF ClosePort, PortTypeOK
<1>3. early' \in BOOLEAN /\ event' \in BOOLEAN
  BY Zenon DEF ClosePort
<1>4. CASE open' = {}
  BY <1>1, <1>2, <1>3, <1>4, Zenon DEF ClosePort
<1>5. CASE open' # {}
  <2>1. early' = early /\ event' = event
    BY <1>5, Zenon DEF ClosePort, PortTypeOK
  <2>2. QED
    BY <1>1, <1>2, <1>3, <1>5, <2>1, Zenon
<1>6. QED
  BY <1>4, <1>5

\* Types: every action writes values of the right kind.
LEMMA PortTypeStep ==
  ASSUME PortTypeOK, [PortNext]_portVars PROVE PortTypeOK'
<1> USE DEF PortTypeOK
<1>1. CASE Arrive
  <2>1. reader' \in [Coms -> {"out", "waiting", "woken", "reading", "undefined"}]
    BY <1>1 DEF Arrive
  <2>2. event' \in BOOLEAN /\ early' \in BOOLEAN
    BY <1>1, Zenon DEF Arrive
  <2>3. QED
    BY <1>1, <2>1, <2>2 DEF Arrive, objects
<1>2. CASE CheckCloses
  <2>1. ClosePort(checking) /\ checking' = 0
    BY <1>2 DEF CheckCloses
  <2>2. QED
    BY <1>2, <2>1, CloseEffect DEF CheckCloses, objects, call
<1>3. ASSUME NEW h \in PortHandles, CheckOpens(h) PROVE PortTypeOK'
  <2>1. OpenPort(h) /\ checking' = h
    BY <1>3 DEF CheckOpens
  <2>2. QED
    BY <1>3, <2>1, OpenEffect DEF CheckOpens, objects, call
<1>4. ASSUME NEW h \in PortHandles, NEW c \in Coms, OpenBegins(c, h) PROVE PortTypeOK'
  <2>1. OpenPort(h)
    BY <1>4 DEF OpenBegins
  <2>2. /\ m_hPort' \in [Coms -> PortHandles \cup {0}]
        /\ made' \in [Coms -> {"none", "opening", "live"}]
    BY <1>4 DEF OpenBegins
  <2>3. QED
    BY <1>4, <2>1, <2>2, OpenEffect DEF OpenBegins, call
<1>5. ASSUME NEW c \in Coms,
             OpenFails(c) \/ OpenEnds(c) \/ SetParams(c) \/ Write(c) \/ FlushFails(c)
      PROVE  PortTypeOK'
  BY <1>5 DEF OpenFails, OpenEnds, SetParams, Write, FlushFails, driver, line, objects, call
<1>6. ASSUME NEW c \in Coms, OpenRefused(c) \/ Delete(c) PROVE PortTypeOK'
  <2>1. ClosePort(m_hPort[c])
    BY <1>6, Zenon DEF OpenRefused, Delete, Refused, Destroyed
  <2>4. /\ m_hPort' \in [Coms -> PortHandles \cup {0}]
        /\ made' \in [Coms -> {"none", "opening", "live"}]
    BY <1>6 DEF OpenRefused, Delete, Refused, Destroyed
  <2>5. QED
    BY <1>6, <2>1, <2>4, CloseEffect DEF OpenRefused, Delete, call
<1>7. ASSUME NEW c \in Coms, NEW n, NEW bad, Return(c, n, bad), UNCHANGED <<driver, objects>>,
             UNCHANGED <<platform, checking>>
      PROVE  PortTypeOK'
  <2>1. /\ reader' \in [Coms -> {"out", "waiting", "woken", "reading", "undefined"}]
        /\ cbInQue' \in [Coms -> Nat]
    BY <1>7 DEF Return
  <2>2. QED
    BY <1>7, <2>1 DEF driver, objects
<1>8. ASSUME NEW c \in Coms, ReadFails(c) \/ ReadsNothing(c) PROVE PortTypeOK'
  BY <1>7, <1>8, Zenon DEF ReadFails, ReadsNothing
<1>9. ASSUME NEW c \in Coms, ReadFilePends(c) PROVE PortTypeOK'
  BY <1>9 DEF ReadFilePends, driver, objects
<1>10. ASSUME NEW c \in Coms, ReadBegins(c) PROVE PortTypeOK'
  <2>1. ASSUME NEW place \in {"waiting", "woken"}, Goto(c, place)
        PROVE  /\ reader' \in [Coms -> {"out", "waiting", "woken", "reading", "undefined"}]
               /\ cbInQue' = cbInQue
    BY <2>1 DEF Goto
  <2>2. Goto(c, "woken") \/ Goto(c, "waiting")
    BY <1>10, Zenon DEF ReadBegins
  <2>3. QED
    BY <1>10, <2>1, <2>2 DEF ReadBegins, objects
<1>11. ASSUME NEW c \in Coms, ReadCounts(c) PROVE PortTypeOK'
  BY <1>11 DEF ReadCounts, driver, objects
<1>12. ASSUME NEW c \in Coms, ReadFile(c) PROVE PortTypeOK'
  <2>1. early' = (early /\ inQue' > 0)
    BY <1>12, Zenon DEF ReadFile
  <2>2. early' \in BOOLEAN
    BY <2>1, Zenon
  <2>3. inQue' \in Nat
    BY <1>12 DEF ReadFile, Asked
  <2>4. QED
    BY <1>12, <2>2, <2>3 DEF ReadFile, Asked, Return, line, objects
<1>13. ASSUME NEW c \in Coms, NEW n \in 1 .. MaxBytes, ReadLinux(c, n) PROVE PortTypeOK'
  BY <1>13 DEF ReadLinux, Return, line, objects
<1>14. ASSUME NEW c \in Coms, NEW f \in {"in", "out", "all"}, Flush(c, f) PROVE PortTypeOK'
  <2>1. CASE inQue' = 0 /\ early' = FALSE
    BY <1>14, <2>1 DEF Flush, line, objects, call
  <2>2. CASE UNCHANGED <<inQue, early>>
    BY <1>14, <2>2 DEF Flush, line, objects, call
  <2>3. QED
    BY <1>14, <2>1, <2>2, Zenon DEF Flush
<1>15. ASSUME NEW c \in Coms, NEW e \in {"eSETDTR", "eCLRDTR"}, BitCmd(c, e) PROVE PortTypeOK'
  BY <1>15 DEF BitCmd, driver, objects, call
<1>16. CASE UNCHANGED portVars
  BY <1>16 DEF portVars, driver, line, objects, call
<1>17. QED
  BY <1>1, <1>2, <1>3, <1>4, <1>5, <1>6, <1>7, <1>8, <1>9,
     <1>10, <1>11, <1>12, <1>13, <1>14, <1>15, <1>16
  DEF PortNext, Read

-----------------------------------------------------------------------------
Ownership == PortsOwned /\ OneOwner /\ OpenOnce /\ ReadersHaveThePort

\* What most actions leave alone: handles and who has them, and no reader enters.
Quiet ==
  /\ UNCHANGED <<platform, open, m_hPort, checking>>
  /\ \A c \in Coms : made'[c] = made[c] \/ (made[c] # "live" /\ made'[c] = "live")
  /\ \A c \in Coms : reader'[c] # "out" =>
       \/ reader[c] # "out"
       \/ platform = "win32" /\ made[c] = "live" /\ m_hPort[c] \in open

LEMMA QuietKeepsOwnership ==
  ASSUME Ownership, Quiet PROVE Ownership'
BY DEF Ownership, Quiet, PortsOwned, OneOwner, OpenOnce, ReadersHaveThePort

\* Opening: the new handle is nobody's, since everybody's is open or 0.
LEMMA OpeningKeepsOwnership ==
  ASSUME PortTypeOK, Ownership, NEW h, OpenPort(h),
         UNCHANGED <<platform, reader>>,
         \/ checking = 0 /\ checking' = h /\ UNCHANGED <<m_hPort, made>>
         \/ /\ UNCHANGED checking
            /\ \E c \in Coms : /\ made[c] = "none"
                               /\ m_hPort' = [m_hPort EXCEPT ![c] = h]
                               /\ made' \in [Coms -> {"none", "opening", "live"}]
                               /\ made'[c] # "none"
                               /\ \A d \in Coms \ {c} : made'[d] = made[d]
  PROVE  Ownership'
<1>1. /\ h \in PortHandles \ open /\ open' = open \cup {h}
      /\ platform = "win32" => open = {} /\ h # 0
  BY OpenEffect
<1>2. /\ \A c \in Coms : m_hPort[c] # 0 => m_hPort[c] # h
      /\ checking # 0 => checking # h
  BY <1>1, HeldIsOpen DEF Ownership
<1>3. OpenOnce'
  BY <1>1 DEF OpenOnce
<1>4. CASE checking = 0 /\ checking' = h /\ UNCHANGED <<m_hPort, made>>
  <2>1. PortsOwned' /\ OneOwner'
    BY <1>1, <1>2, <1>4 DEF Ownership, PortsOwned, OneOwner
  <2>2. ReadersHaveThePort'
    BY <1>1, <1>4 DEF Ownership, ReadersHaveThePort
  <2>3. QED
    BY <1>3, <2>1, <2>2 DEF Ownership
<1>5. ASSUME UNCHANGED checking,
             NEW c \in Coms, made[c] = "none",
             m_hPort' = [m_hPort EXCEPT ![c] = h],
             made'[c] # "none",
             \A d \in Coms \ {c} : made'[d] = made[d]
      PROVE  Ownership'
  <2>1. m_hPort[c] = 0 /\ m_hPort'[c] = h /\ \A d \in Coms \ {c} : m_hPort'[d] = m_hPort[d]
    BY <1>5 DEF PortTypeOK, Ownership, OneOwner
  <2>2. PortsOwned'
    BY <1>1, <1>5, <2>1 DEF Ownership, PortsOwned
  <2>3. OneOwner'
    BY <1>2, <1>5, <2>1 DEF Ownership, OneOwner
  <2>4. ReadersHaveThePort'
    BY <1>1, <1>5, <2>1 DEF Ownership, ReadersHaveThePort
  <2>5. QED
    BY <1>3, <2>2, <2>3, <2>4 DEF Ownership
<1>6. QED
  BY <1>4, <1>5

\* Closing: only its owner has the handle, and on win32 nobody else is in Read.
LEMMA ClosingKeepsOwnership ==
  ASSUME PortTypeOK, Ownership, NEW h, ClosePort(h), UNCHANGED <<platform, reader>>,
         \/ h = checking /\ checking' = 0 /\ UNCHANGED <<m_hPort, made>>
         \/ /\ UNCHANGED checking
            /\ \E c \in Coms : /\ h = m_hPort[c] /\ reader[c] = "out"
                               /\ m_hPort' = [m_hPort EXCEPT ![c] = 0]
                               /\ made' = [made EXCEPT ![c] = "none"]
  PROVE  Ownership'
<1>1. open' = IF h = 0 THEN open ELSE open \ {h}
  BY CloseEffect
<1>2. OpenOnce'
  BY <1>1 DEF Ownership, OpenOnce
<1>3. CASE h = checking /\ checking' = 0 /\ UNCHANGED <<m_hPort, made>>
  <2>1. PortsOwned' /\ OneOwner'
    BY <1>1, <1>3 DEF Ownership, PortsOwned, OneOwner
  <2>2. ReadersHaveThePort'
    BY <1>1, <1>3 DEF Ownership, ReadersHaveThePort, OneOwner
  <2>3. QED
    BY <1>2, <2>1, <2>2 DEF Ownership
<1>4. ASSUME UNCHANGED checking,
             NEW c \in Coms, h = m_hPort[c], reader[c] = "out",
             m_hPort' = [m_hPort EXCEPT ![c] = 0],
             made' = [made EXCEPT ![c] = "none"]
      PROVE  Ownership'
  <2>1. /\ m_hPort'[c] = 0 /\ \A d \in Coms \ {c} : m_hPort'[d] = m_hPort[d]
        /\ made'[c] = "none" /\ \A d \in Coms \ {c} : made'[d] = made[d]
    BY <1>4 DEF PortTypeOK
  <2>2. /\ \A d \in Coms \ {c} : m_hPort[d] = h => h = 0
        /\ checking = h => h = 0
    BY <1>4 DEF Ownership, OneOwner
  <2>3. PortsOwned'
    BY <1>1, <1>4, <2>1, <2>2 DEF Ownership, PortsOwned
  <2>4. OneOwner'
    BY <1>4, <2>1 DEF Ownership, OneOwner
  <2>5. ReadersHaveThePort'
    BY <1>1, <1>4, <2>1, <2>2 DEF Ownership, ReadersHaveThePort
  <2>6. QED
    BY <1>2, <2>3, <2>4, <2>5 DEF Ownership
<1>5. QED
  BY <1>3, <1>4

LEMMA OwnershipStep ==
  ASSUME PortTypeOK, Ownership, [PortNext]_portVars PROVE Ownership'
<1>1. CASE Arrive
  <2>1. \A c \in Coms : reader'[c] # "out" => reader[c] # "out"
    BY <1>1 DEF Arrive
  <2>2. QED
    BY <1>1, <2>1, QuietKeepsOwnership DEF Arrive, Quiet, objects
<1>2. CASE CheckCloses
  BY <1>2, ClosingKeepsOwnership DEF CheckCloses, objects, call
<1>3. ASSUME NEW h \in PortHandles, CheckOpens(h) PROVE Ownership'
  BY <1>3, OpeningKeepsOwnership DEF CheckOpens, objects, call
<1>4. ASSUME NEW h \in PortHandles, NEW c \in Coms, OpenBegins(c, h) PROVE Ownership'
  <2>1. /\ made' \in [Coms -> {"none", "opening", "live"}]
        /\ made'[c] # "none"
        /\ \A d \in Coms \ {c} : made'[d] = made[d]
    BY <1>4 DEF OpenBegins, PortTypeOK
  <2>2. QED
    BY <1>4, <2>1, OpeningKeepsOwnership DEF OpenBegins, call
<1>5. ASSUME NEW c \in Coms, OpenFails(c) PROVE Ownership'
  <2>1. m_hPort' = m_hPort
    BY <1>5 DEF OpenFails, Ownership, OneOwner, PortTypeOK
  <2>2. \A d \in Coms : made'[d] = made[d] \/ (made[d] # "live" /\ made'[d] = "live")
    BY <1>5 DEF OpenFails, PortTypeOK
  <2>3. QED
    BY <1>5, <2>1, <2>2, QuietKeepsOwnership DEF OpenFails, Quiet, driver, call
<1>6. ASSUME NEW c \in Coms, OpenEnds(c) PROVE Ownership'
  <2>1. \A d \in Coms : made'[d] = made[d] \/ (made[d] # "live" /\ made'[d] = "live")
    BY <1>6 DEF OpenEnds, PortTypeOK
  <2>2. QED
    BY <1>6, <2>1, QuietKeepsOwnership DEF OpenEnds, Quiet, driver, call
<1>7. ASSUME NEW c \in Coms, OpenRefused(c) \/ Delete(c) PROVE Ownership'
  <2>1. reader[c] = "out"
    BY <1>7 DEF OpenRefused, Delete, Ownership, ReadersHaveThePort
  <2>2. QED
    BY <1>7, <2>1, ClosingKeepsOwnership
    DEF OpenRefused, Delete, Refused, Destroyed, call
<1>8. ASSUME NEW c \in Coms, NEW n, NEW bad, Return(c, n, bad),
             UNCHANGED <<platform, open, objects, checking>>
      PROVE  Ownership'
  <2>1. \A d \in Coms : reader'[d] # "out" => reader'[d] = reader[d]
    BY <1>8 DEF Return, PortTypeOK
  <2>2. QED
    BY <1>8, <2>1, QuietKeepsOwnership DEF Quiet, objects
<1>9. ASSUME NEW c \in Coms, Read(c) PROVE Ownership'
  <2>1. CASE ReadBegins(c)
    <3>1. \A d \in Coms \ {c} : reader'[d] = reader[d]
      BY <2>1 DEF ReadBegins, Goto, PortTypeOK
    <3>2. QED
      BY <2>1, <3>1, QuietKeepsOwnership DEF ReadBegins, MayCall, Quiet, objects
  <2>2. CASE ReadFails(c) \/ ReadsNothing(c)
    BY <1>8, <2>2 DEF ReadFails, ReadsNothing, driver
  <2>3. CASE ReadCounts(c) \/ ReadFilePends(c)
    <3>1. reader[c] # "out" /\ \A d \in Coms \ {c} : reader'[d] = reader[d]
      BY <2>3 DEF ReadCounts, ReadFilePends, PortTypeOK
    <3>2. QED
      BY <2>3, <3>1, QuietKeepsOwnership
      DEF ReadCounts, ReadFilePends, Quiet, driver, objects
  <2>4. CASE ReadFile(c)
    BY <1>8, <2>4 DEF ReadFile
  <2>5. ASSUME NEW n \in 1 .. MaxBytes, ReadLinux(c, n) PROVE Ownership'
    BY <1>8, <2>5 DEF ReadLinux
  <2>6. QED
    BY <1>9, <2>1, <2>2, <2>3, <2>4, <2>5 DEF Read
<1>10. ASSUME UNCHANGED <<platform, open, objects, reader, checking>> PROVE Ownership'
  BY <1>10, QuietKeepsOwnership DEF Quiet, objects
<1>11. ASSUME NEW c \in Coms,
              \/ SetParams(c) \/ Write(c) \/ FlushFails(c)
              \/ \E eFlushMethod \in {"in", "out", "all"} : Flush(c, eFlushMethod)
              \/ \E eCmd \in {"eSETDTR", "eCLRDTR"} : BitCmd(c, eCmd)
       PROVE  Ownership'
  BY <1>10, <1>11 DEF SetParams, Write, FlushFails, Flush, BitCmd, driver, call
<1>12. CASE UNCHANGED portVars
  BY <1>10, <1>12 DEF portVars, driver, call
<1>13. QED
  BY <1>1, <1>2, <1>3, <1>4, <1>5, <1>6, <1>7, <1>9, <1>11, <1>12 DEF PortNext

-----------------------------------------------------------------------------
Knowledge == BytesKnown /\ WaitersMissNothing

\* A step that takes no byte's event away and lets nobody start to wait
LEMMA QuietKeepsKnowledge ==
  ASSUME PortTypeOK, PortTypeOK', Knowledge, UNCHANGED <<platform, inQue, event, early>>,
         \A c \in Coms : /\ reader'[c] = "waiting" => reader[c] = "waiting"
                         /\ Known(c) => Known(c)' \/ inQue = 0
  PROVE  Knowledge'
<1>1. BytesKnown'
  <2>1. CASE platform # "win32" \/ inQue = 0
    BY <2>1 DEF BytesKnown
  <2>2. CASE early
    BY <2>2, Zenon DEF BytesKnown
  <2>3. CASE event
    BY <2>3, Zenon DEF BytesKnown
  <2>4. ASSUME inQue # 0, NEW c \in Coms, Known(c) PROVE BytesKnown'
    BY <2>4 DEF BytesKnown
  <2>5. QED
    BY <2>1, <2>2, <2>3, <2>4 DEF Knowledge, BytesKnown
<1>2. WaitersMissNothing'
  BY DEF Knowledge, WaitersMissNothing
<1>3. QED
  BY <1>1, <1>2 DEF Knowledge

\* Opening: bytes that are there already are early.  Closing empties the queue when the
\* last handle goes; on win32 there is no other.
LEMMA OpeningKeepsKnowledge ==
  ASSUME PortTypeOK, Ownership, Knowledge, NEW h, OpenPort(h),
         UNCHANGED <<platform, call>>
  PROVE  Knowledge'
<1>1. /\ inQue' \in Nat
      /\ platform = "win32" => open = {} /\ early' = (inQue' > 0)
  BY OpenEffect
<1>2. BytesKnown'
  <2>1. CASE platform = "win32" /\ inQue' > 0
    BY <1>1, <2>1, Zenon DEF BytesKnown
  <2>2. CASE platform # "win32" \/ ~(inQue' > 0)
    BY <1>1, <2>2 DEF BytesKnown
  <2>3. QED
    BY <2>1, <2>2
<1>3. ASSUME NEW c \in Coms PROVE reader'[c] # "waiting"
  <2>1. reader'[c] = reader[c]
    BY DEF call
  <2>2. QED
    BY <1>1, <2>1 DEF Ownership, ReadersHaveThePort
<1>4. QED
  BY <1>2, <1>3 DEF Knowledge, WaitersMissNothing

LEMMA ClosingKeepsKnowledge ==
  ASSUME PortTypeOK, Knowledge, NEW h, ClosePort(h), UNCHANGED <<platform, call>>
  PROVE  Knowledge'
<1>1. CASE open' = {}
  <2>1. inQue' = 0 /\ event' = FALSE
    BY <1>1, CloseEffect
  <2>2. QED
    BY <2>1 DEF Knowledge, BytesKnown, WaitersMissNothing
<1>2. CASE open' # {}
  <2>1. UNCHANGED <<inQue, event, early>>
    BY <1>2, CloseEffect
  <2>2. QED
    BY <2>1, Zenon DEF Knowledge, BytesKnown, WaitersMissNothing, Known, call
<1>3. QED
  BY <1>1, <1>2

\* A byte comes: the waiting reader is told, or it is recorded.
LEMMA ArriveKeepsKnowledge ==
  ASSUME PortTypeOK, Knowledge, Arrive PROVE Knowledge'
<1>1. CASE \E c \in Coms : reader[c] = "waiting"
  <2>1. PICK c \in Coms : reader[c] = "waiting"
    BY <1>1
  <2>2. reader' = [d \in Coms |-> IF reader[d] = "waiting" THEN "woken" ELSE reader[d]]
    BY <1>1 DEF Arrive
  <2>3. reader'[c] = "woken" /\ \A d \in Coms : reader'[d] # "waiting"
    BY <2>1, <2>2
  <2>4. QED
    BY <2>3 DEF Knowledge, BytesKnown, WaitersMissNothing, Known
<1>2. CASE ~ \E c \in Coms : reader[c] = "waiting"
  <2>1. event' /\ \A c \in Coms : reader'[c] # "waiting"
    BY <1>2 DEF Arrive
  <2>2. QED
    BY <2>1, Zenon DEF Knowledge, BytesKnown, WaitersMissNothing
<1>3. QED
  BY <1>1, <1>2

\* WaitCommEvent takes the record away and does not wait, or there was none.
LEMMA ReadBeginsKeepsKnowledge ==
  ASSUME PortTypeOK, Knowledge, NEW c \in Coms, ReadBegins(c) PROVE Knowledge'
<1>1. /\ reader' = [reader EXCEPT ![c] = IF event THEN "woken" ELSE "waiting"]
      /\ UNCHANGED cbInQue /\ ~event'
      /\ UNCHANGED <<platform, inQue, early>>
  BY DEF ReadBegins, Goto
<1>2. reader[c] = "out"
  BY DEF ReadBegins, MayCall
<1>3. BytesKnown'
  <2>1. CASE event
    <3>1. reader'[c] = "woken"
      BY <1>1, <2>1 DEF PortTypeOK
    <3>2. QED
      BY <3>1 DEF BytesKnown, Known
  <2>2. CASE ~event
    <3>1. \A d \in Coms : Known(d) => Known(d)'
      BY <1>1, <1>2 DEF Known, PortTypeOK
    <3>2. platform = "win32" => inQue = 0 \/ early \/ \E d \in Coms : Known(d)
      BY <2>2, Zenon DEF Knowledge, BytesKnown
    <3>3. QED
      BY <1>1, <3>1, <3>2, Zenon DEF BytesKnown
  <2>3. QED
    BY <2>1, <2>2
<1>4. QED
  BY <1>1, <1>3, Zenon DEF Knowledge, WaitersMissNothing

\* ReadFile takes what was in the queue when it was counted; if that is not all that is in
\* it now, somebody else knows of the rest.
LEMMA ReadFileKeepsKnowledge ==
  ASSUME PortTypeOK, Knowledge, NEW c \in Coms, ReadFile(c) PROVE Knowledge'
<1>1. /\ cbInQue[c] <= inQue /\ inQue' = inQue - cbInQue[c]
      /\ cbInQue[c] \in Nat /\ inQue \in Nat /\ inQue' \in Nat
      /\ reader[c] = "reading"
  BY DEF ReadFile, Asked, PortTypeOK
<1>2. /\ reader' = [reader EXCEPT ![c] = "out"]
      /\ cbInQue' = [cbInQue EXCEPT ![c] = 0]
      /\ UNCHANGED <<platform, event>>
  BY DEF ReadFile, Return
<1>3. ASSUME inQue' = 0 PROVE BytesKnown'
  BY <1>3, Zenon DEF BytesKnown
<1>4. ASSUME inQue' > 0 PROVE BytesKnown'
  <2>1. early' = early
    BY <1>4, Zenon DEF ReadFile, PortTypeOK
  <2>2. ~Known(c)
    BY <1>1, <1>4 DEF Known
  <2>3. ASSUME NEW d \in Coms, Known(d) PROVE Known(d)'
    <3>1. d # c /\ reader'[d] = reader[d] /\ cbInQue'[d] = cbInQue[d] /\ cbInQue[d] \in Nat
      BY <1>2, <2>2, <2>3 DEF PortTypeOK
    <3>2. QED
      BY <1>1, <2>3, <3>1 DEF Known
  <2>4. inQue # 0
    BY <1>1, <1>4
  <2>5. platform = "win32" => early \/ event \/ \E d \in Coms : Known(d)
    BY <2>4, Zenon DEF Knowledge, BytesKnown
  <2>6. platform = "win32" => early \/ event \/ \E d \in Coms : Known(d)'
    BY <2>3, <2>5, Zenon
  <2>7. QED
    BY <1>2, <2>1, <2>6, Zenon DEF BytesKnown
<1>5. BytesKnown'
  <2>1. inQue' = 0 \/ inQue' > 0
    BY <1>1
  <2>2. QED
    BY <1>3, <1>4, <2>1, Zenon
<1>6. \A d \in Coms : reader'[d] = "waiting" => reader[d] = "waiting"
  BY <1>2 DEF PortTypeOK
<1>7. QED
  BY <1>2, <1>5, <1>6, Zenon DEF Knowledge, WaitersMissNothing

LEMMA KnowledgeStep ==
  ASSUME PortTypeOK, PortTypeOK', Ownership, Knowledge, [PortNext]_portVars
  PROVE  Knowledge'
<1>1. CASE Arrive
  BY <1>1, ArriveKeepsKnowledge
<1>2. CASE CheckCloses
  BY <1>2, ClosingKeepsKnowledge DEF CheckCloses
<1>3. ASSUME NEW h \in PortHandles, CheckOpens(h) PROVE Knowledge'
  BY <1>3, OpeningKeepsKnowledge DEF CheckOpens
<1>4. ASSUME NEW h \in PortHandles, NEW c \in Coms, OpenBegins(c, h) PROVE Knowledge'
  BY <1>4, OpeningKeepsKnowledge DEF OpenBegins
<1>5. ASSUME NEW c \in Coms, OpenRefused(c) \/ Delete(c) PROVE Knowledge'
  BY <1>5, ClosingKeepsKnowledge DEF OpenRefused, Delete, Refused, Destroyed
<1>6. ASSUME UNCHANGED <<platform, driver, call>> PROVE Knowledge'
  BY <1>6, QuietKeepsKnowledge DEF driver, call, Known
<1>7. ASSUME NEW c \in Coms,
             \/ OpenFails(c) \/ OpenEnds(c) \/ SetParams(c) \/ Write(c) \/ FlushFails(c)
             \/ \E eCmd \in {"eSETDTR", "eCLRDTR"} : BitCmd(c, eCmd)
      PROVE  Knowledge'
  BY <1>6, <1>7 DEF OpenFails, OpenEnds, SetParams, Write, FlushFails, BitCmd
<1>8. ASSUME NEW c \in Coms, NEW f, Flush(c, f) PROVE Knowledge'
  <2>1. CASE inQue' = 0 /\ platform' = "win32"
    BY <1>8, <2>1, Zenon
    DEF Flush, call, Knowledge, BytesKnown, WaitersMissNothing
  <2>2. CASE platform # "win32"
    BY <1>8, <2>2, Zenon
    DEF Flush, call, Knowledge, BytesKnown, WaitersMissNothing
  <2>3. QED
    BY <1>8, <2>1, <2>2 DEF Flush
<1>9. ASSUME NEW c \in Coms, Read(c) PROVE Knowledge'
  <2>1. CASE ReadBegins(c)
    BY <2>1, ReadBeginsKeepsKnowledge
  <2>2. CASE ReadFile(c)
    BY <2>2, ReadFileKeepsKnowledge
  <2>3. CASE ReadFails(c) \/ ReadsNothing(c)
    <3>1. /\ reader' = [reader EXCEPT ![c] = "out"]
          /\ cbInQue' = [cbInQue EXCEPT ![c] = 0]
          /\ UNCHANGED <<platform, inQue, event, early>>
          /\ reader[c] \in {"out", "waiting"} \/ inQue = 0
      BY <2>3 DEF ReadFails, ReadsNothing, Return, driver, MayCall
    <3>2. QED
      BY <3>1, QuietKeepsKnowledge DEF Known, PortTypeOK
  <2>4. CASE ReadCounts(c)
    <3>1. /\ reader' = [reader EXCEPT ![c] = "reading"]
          /\ cbInQue' = [cbInQue EXCEPT ![c] = inQue]
          /\ UNCHANGED <<platform, inQue, event, early>>
      BY <2>4 DEF ReadCounts, driver
    <3>2. \A d \in Coms : reader'[d] = "waiting" => reader[d] = "waiting"
      BY <3>1 DEF PortTypeOK
    <3>3. Known(c)'
      BY <3>1 DEF Known, PortTypeOK
    <3>4. \A d \in Coms \ {c} : Known(d) => Known(d)'
      BY <3>1 DEF Known, PortTypeOK
    <3>5. QED
      BY <3>1, <3>2, <3>3, <3>4, QuietKeepsKnowledge
  <2>5. CASE ReadFilePends(c)
    <3>1. \A d \in Coms : /\ reader'[d] = "waiting" => reader[d] = "waiting"
                          /\ Known(d) => Known(d)'
      BY <2>5 DEF ReadFilePends, Known, PortTypeOK, driver
    <3>2. QED
      BY <2>5, <3>1, QuietKeepsKnowledge DEF ReadFilePends, driver
  <2>6. ASSUME NEW n \in 1 .. MaxBytes, ReadLinux(c, n) PROVE Knowledge'
    <3>1. platform' # "win32" /\ UNCHANGED event
      BY <2>6 DEF ReadLinux
    <3>2. \A d \in Coms : reader'[d] = "waiting" => reader[d] = "waiting"
      BY <2>6 DEF ReadLinux, Return, PortTypeOK
    <3>3. QED
      BY <3>1, <3>2, Zenon DEF Knowledge, BytesKnown, WaitersMissNothing
  <2>7. QED
    BY <1>9, <2>1, <2>2, <2>3, <2>4, <2>5, <2>6 DEF Read
<1>10. CASE UNCHANGED portVars
  BY <1>6, <1>10 DEF portVars
<1>11. QED
  BY <1>1, <1>2, <1>3, <1>4, <1>5, <1>7, <1>8, <1>9, <1>10 DEF PortNext

-----------------------------------------------------------------------------
LEMMA PortInvAlways ==
  PortSpec => []PortInv
<1>1. PortInit => PortInv
  BY PortInvInit
<1>2. PortInv /\ [PortNext]_portVars => PortInv'
  <2> SUFFICES ASSUME PortInv, [PortNext]_portVars PROVE PortInv'
    OBVIOUS
  <2>1. PortTypeOK /\ Ownership /\ Knowledge
    BY DEF PortInv, Ownership, Knowledge
  <2>2. PortTypeOK'
    BY <2>1, PortTypeStep
  <2>3. Ownership' /\ Knowledge'
    BY <2>1, <2>2, OwnershipStep, KnowledgeStep
  <2>4. QED
    BY <2>2, <2>3, Zenon DEF PortInv, Ownership, Knowledge
<1>3. QED
  BY <1>1, <1>2, PTL DEF PortSpec

\* Handles are closed once and none is lost, whatever order the objects open and close in
\* and wherever Open stops: every handle that is open has exactly one owner who will
\* close it, and no owner has one that is closed.
THEOREM PortsAreOwned ==
  PortSpec => []PortsOwned
<1>1. PortInv => PortsOwned
  BY DEF PortInv
<1>2. QED
  BY <1>1, PortInvAlways, PTL

\* The loop of WaitCommEvent, ClearCommError and ReadFile loses no byte: a reader sleeps
\* with bytes in the queue only when these came before OpenPort had called SetCommMask.
THEOREM ReadersSleepOnlyWhenEmpty ==
  PortSpec => []SleepsOnlyWhenEmpty
<1>1. PortInv => SleepsOnlyWhenEmpty
  <2> SUFFICES ASSUME PortInv, NEW c \in Coms, reader[c] = "waiting", inQue # 0, ~early
      PROVE  FALSE
    BY Zenon DEF SleepsOnlyWhenEmpty
  <2>1. platform = "win32" /\ ~event
    BY DEF PortInv, ReadersHaveThePort, WaitersMissNothing
  <2>2. PICK d \in Coms : Known(d)
    BY <2>1, Zenon DEF PortInv, BytesKnown
  <2>3. c # d /\ reader[d] # "out"
    BY <2>2 DEF Known
  <2>4. m_hPort[c] \in open /\ m_hPort[d] \in open
    BY <2>3 DEF PortInv, ReadersHaveThePort
  <2>5. m_hPort[c] = m_hPort[d] /\ m_hPort[c] # 0
    BY <2>1, <2>4 DEF PortInv, OpenOnce
  <2>6. QED
    BY <2>3, <2>5 DEF PortInv, OneOwner
<1>2. QED
  BY <1>1, PortInvAlways, PTL

-----------------------------------------------------------------------------
\* CNetTcp, sending

SenderTypeOK ==
  /\ nets \subseteq Nets
  /\ s_out \in [Nets -> Handles \cup {NoSocket}]
  /\ connected \in [Nets -> BOOLEAN]
  /\ owner \in [Handles -> Nets \cup {Nobody}]
  /\ DOMAIN peer = Handles

\* An object has no open socket but the one it believes connected.
OpenIsConnected ==
  /\ \A h \in Handles : owner[h] # Nobody => connected[owner[h]]
  /\ \A n \in Nets : connected[n] => s_out[n] \in Handles

SenderInv == SenderTypeOK /\ NoSocketLeak /\ OpenIsConnected /\ ConnectedIsOwn

\* A close of what n has in s_out leaves n no open socket, and every other object its own.
LEMMA CloseLeavesOthers ==
  ASSUME SenderInv, NEW n \in Nets, NEW h,
         h = s_out[n] \/ \A g \in Handles : owner[g] # n
  PROVE  /\ Sender!Closed(owner, h) \in [Handles -> Nets \cup {Nobody}]
         /\ \A g \in Handles : Sender!Closed(owner, h)[g] # n
         /\ \A g \in Handles : g # h => Sender!Closed(owner, h)[g] = owner[g]
         /\ h \in Handles => Sender!Closed(owner, h)[h] = Nobody
BY SendAssumption DEF Sender!SendAssumption, Sender!Closed, SenderInv, SenderTypeOK,
   NoSocketLeak, Sender!NoSocketLeak
\* sendto on h, after n has opened or closed what it does in owners and peers: h is the only
\* socket n can have, and what the others have is untouched but for a stale close.
LEMMA SendToKeeps ==
  ASSUME SenderInv, SenderTypeOK', NEW n \in nets, NEW h \in Handles, NEW owners, NEW peers,
         owners \in [Handles -> Nets \cup {Nobody}],
         \A g \in Handles : g # h => owners[g] # n,
         \A g \in Handles : owners[g] \notin {Nobody, n} => owners[g] = owner[g],
         stale => stale',
         ~stale' =>
           /\ owners[h] = n
           /\ \A g \in Handles :
                owner[g] \notin {n, Nobody} => owners[g] = owner[g] /\ peers[g] = peer[g],
         Sender!SendTo(n, h, owners, peers), UNCHANGED nets
  PROVE  SenderInv'
<1> USE DEF SenderInv, SenderTypeOK
<1>1. /\ s_out' = [s_out EXCEPT ![n] = h]
      /\ n \in Nets /\ n # Nobody
  BY SendAssumption DEF Sender!SendAssumption, Sender!SendTo
<1>2. CASE /\ peers[h] # Nobody /\ connected' = [connected EXCEPT ![n] = TRUE]
           /\ owner' = owners /\ peer' = peers
  <2>1. NoSocketLeak'
    BY <1>1, <1>2 DEF NoSocketLeak, Sender!NoSocketLeak
  <2>2. OpenIsConnected'
    BY <1>1, <1>2 DEF OpenIsConnected
  <2>3. ASSUME ~stale', NEW m \in nets, connected'[m]
        PROVE  owner'[s_out'[m]] = m /\ peer'[s_out'[m]] # Nobody /\ s_out'[m] \in Handles
    <3>1. CASE m = n
      BY <1>1, <1>2, <2>3, <3>1
    <3>2. CASE m # n
      <4>1. connected[m] /\ s_out'[m] = s_out[m] /\ m \in Nets /\ m # Nobody
        BY <1>1, <1>2, <2>3, <3>2, SendAssumption DEF Sender!SendAssumption
      <4>2. s_out[m] \in Handles /\ owner[s_out[m]] = m /\ peer[s_out[m]] # Nobody
        BY <2>3, <4>1 DEF ConnectedIsOwn, Sender!ConnectedIsOwn, Sender!Open
      <4>3. QED
        BY <1>2, <2>3, <3>2, <4>1, <4>2
    <3>3. QED
      BY <3>1, <3>2
  <2>4. ConnectedIsOwn'
    BY <2>3 DEF ConnectedIsOwn, Sender!ConnectedIsOwn, Sender!Open
  <2>5. QED
    BY <2>1, <2>2, <2>4
<1>3. CASE Sender!Fails(n, h, owners, peers)
  <2>1. /\ connected' = [connected EXCEPT ![n] = FALSE]
        /\ owner' = [x \in Handles |-> IF x = h THEN Nobody ELSE owners[x]]
        /\ peer' = [x \in Handles |-> IF x = h THEN Nobody ELSE peers[x]]
    BY <1>3 DEF Sender!Fails, Sender!Closed
  <2>2. \A g \in Handles : owner'[g] # Nobody =>
          g # h /\ owner'[g] = owner[g] /\ owner[g] # n /\ owner[g] \in Nets
    BY <2>1
  <2>3. NoSocketLeak'
    BY <1>1, <2>2 DEF NoSocketLeak, Sender!NoSocketLeak
  <2>4. OpenIsConnected'
    BY <1>1, <2>1, <2>2 DEF OpenIsConnected
  <2>5. ASSUME ~stale', NEW m \in nets, connected'[m]
        PROVE  owner'[s_out'[m]] = m /\ peer'[s_out'[m]] # Nobody /\ s_out'[m] \in Handles
    <3>1. m # n /\ connected[m] /\ m \in Nets /\ m # Nobody
      BY <2>1, <2>5, SendAssumption DEF Sender!SendAssumption
    <3>2. s_out'[m] = s_out[m]
      BY <1>1, <3>1
    <3>3. s_out[m] \in Handles /\ owner[s_out[m]] = m /\ peer[s_out[m]] # Nobody
      BY <2>5, <3>1 DEF ConnectedIsOwn, Sender!ConnectedIsOwn, Sender!Open
    <3>4. s_out[m] # h /\ owners[s_out[m]] = m /\ peers[s_out[m]] = peer[s_out[m]]
      BY <2>5, <3>1, <3>3
    <3>5. QED
      BY <2>1, <3>2, <3>3, <3>4
  <2>6. ConnectedIsOwn'
    BY <2>5 DEF ConnectedIsOwn, Sender!ConnectedIsOwn, Sender!Open
  <2>7. QED
    BY <2>3, <2>4, <2>6
<1>4. QED
  BY <1>2, <1>3 DEF Sender!SendTo

\* The types after a sendto
LEMMA SendToTyped ==
  ASSUME SenderTypeOK, NEW n \in nets, NEW h \in Handles, NEW owners, NEW peers,
         owners \in [Handles -> Nets \cup {Nobody}], DOMAIN peers = Handles,
         Sender!SendTo(n, h, owners, peers), UNCHANGED nets
  PROVE  SenderTypeOK'
BY DEF SenderTypeOK, Sender!SendTo, Sender!Fails, Sender!Closed

LEMMA SendKeeps ==
  ASSUME SenderInv, NEW n \in Nets, Sender!Send(n)
  PROVE  SenderInv'
<1>1. n \in nets /\ n # Nobody /\ UNCHANGED nets /\ SenderTypeOK
  BY SendAssumption DEF Sender!SendAssumption, Sender!Send, SenderInv
<1>2. CASE /\ ~connected[n]
           /\ \E h \in Handles, p \in {out[n], Nobody} :
                /\ owner[h] = Nobody
                /\ Sender!SendTo(n, h, Sender!Opened(owner, h, n), Sender!Opened(peer, h, p))
  <2>1. PICK h \in Handles, p \in {out[n], Nobody} :
             /\ owner[h] = Nobody
             /\ Sender!SendTo(n, h, Sender!Opened(owner, h, n), Sender!Opened(peer, h, p))
    BY <1>2
  <2> DEFINE owners == Sender!Opened(owner, h, n)
             peers == Sender!Opened(peer, h, p)
  <2>2. /\ owners = [x \in Handles |-> IF x = h THEN n ELSE owner[x]]
        /\ peers = [x \in Handles |-> IF x = h THEN p ELSE peer[x]]
    BY DEF Sender!Opened
  <2>3. Sender!SendTo(n, h, owners, peers)
    BY <2>1
  <2> HIDE DEF owners, peers
  <2>4. owners \in [Handles -> Nets \cup {Nobody}] /\ DOMAIN peers = Handles
    BY <1>1, <2>2 DEF SenderTypeOK
  <2>5. SenderTypeOK'
    BY <1>1, <2>3, <2>4, SendToTyped
  <2>6. \A g \in Handles : owner[g] # n
    BY <1>1, <1>2 DEF SenderInv, OpenIsConnected
  <2>7. stale => stale'
    BY <1>2 DEF Sender!Send
  <2>8. /\ \A g \in Handles : g # h => owners[g] # n
        /\ \A g \in Handles : owners[g] \notin {Nobody, n} => owners[g] = owner[g]
        /\ owners[h] = n
        /\ \A g \in Handles :
             owner[g] \notin {n, Nobody} => owners[g] = owner[g] /\ peers[g] = peer[g]
    BY <2>1, <2>2, <2>6
  <2>9. QED
    BY <1>1, <2>3, <2>4, <2>5, <2>7, <2>8, SendToKeeps
<1>3. CASE connected[n] /\ Sender!SendTo(n, s_out[n], owner, peer)
  <2>1. s_out[n] \in Handles
    BY <1>1, <1>3 DEF SenderInv, OpenIsConnected
  <2>2. SenderTypeOK'
    BY <1>1, <1>3, <2>1, SendToTyped DEF SenderTypeOK
  <2>3. \A g \in Handles : g # s_out[n] => owner[g] # n
    BY <1>1 DEF SenderInv, NoSocketLeak, Sender!NoSocketLeak
  <2>4. (stale => stale') /\ (~stale' => owner[s_out[n]] = n)
    BY <1>1, <1>3, <2>1, SendAssumption
       DEF Sender!Send, Sender!Foreign, Sender!Open, Sender!SendAssumption
  <2>5. QED
    BY <1>1, <1>3, <2>1, <2>2, <2>3, <2>4, SendToKeeps DEF SenderTypeOK
<1>4. QED
  BY <1>2, <1>3 DEF Sender!Send

\* send(str, dest) closes s_out[n] first; that is n's own socket, or stale.
LEMMA SendDestKeeps ==
  ASSUME SenderInv, NEW n \in Nets, NEW dest \in Hosts, Sender!SendDest(n, dest)
  PROVE  SenderInv'
<1>1. n \in nets /\ n # Nobody /\ UNCHANGED nets /\ SenderTypeOK
  BY SendAssumption DEF Sender!SendAssumption, Sender!SendDest, SenderInv
<1> DEFINE closed == Sender!Closed(owner, s_out[n])
           closedPeers == Sender!Closed(peer, s_out[n])
<1>2. PICK h \in Handles, p \in {dest, Nobody} :
           /\ closed[h] = Nobody
           /\ Sender!SendTo(n, h, Sender!Opened(closed, h, n), Sender!Opened(closedPeers, h, p))
  BY DEF Sender!SendDest
<1> DEFINE owners == Sender!Opened(closed, h, n)
           peers == Sender!Opened(closedPeers, h, p)
<1>3. /\ closed = [x \in Handles |-> IF x = s_out[n] THEN Nobody ELSE owner[x]]
      /\ closedPeers = [x \in Handles |-> IF x = s_out[n] THEN Nobody ELSE peer[x]]
  BY DEF Sender!Closed
<1>4. /\ owners = [x \in Handles |-> IF x = h THEN n ELSE closed[x]]
      /\ peers = [x \in Handles |-> IF x = h THEN p ELSE closedPeers[x]]
  BY DEF Sender!Opened
<1>5. Sender!SendTo(n, h, owners, peers)
  BY <1>2
<1>6. \A g \in Handles : closed[g] # n
  BY <1>1, CloseLeavesOthers
<1> HIDE DEF closed, closedPeers, owners, peers
<1>7. owners \in [Handles -> Nets \cup {Nobody}] /\ DOMAIN peers = Handles
  BY <1>1, <1>3, <1>4 DEF SenderTypeOK
<1>8. SenderTypeOK'
  BY <1>1, <1>5, <1>7, SendToTyped
<1>9. /\ \A g \in Handles : g # h => owners[g] # n
      /\ \A g \in Handles : owners[g] \notin {Nobody, n} => owners[g] = owner[g]
      /\ owners[h] = n
  BY <1>3, <1>4, <1>6
<1>10. stale => stale'
  BY DEF Sender!SendDest
<1>11. ASSUME ~stale', NEW g \in Handles, owner[g] \notin {n, Nobody}
       PROVE  owners[g] = owner[g] /\ peers[g] = peer[g]
  <2>1. s_out[n] \in Handles => owner[s_out[n]] = n
    BY <1>1, <1>11, SendAssumption
       DEF Sender!SendDest, Sender!Foreign, Sender!Open, Sender!SendAssumption
  <2>2. g # s_out[n]
    BY <1>11, <2>1
  <2>3. closed[g] = owner[g] /\ closedPeers[g] = peer[g]
    BY <1>3, <2>2
  <2>4. g # h
    BY <1>2, <1>11, <2>3
  <2>5. QED
    BY <1>4, <2>3, <2>4
<1>12. QED
  BY <1>1, <1>5, <1>7, <1>8, <1>9, <1>10, <1>11, SendToKeeps

\* An object whose socket() fails has no open socket, and the others keep theirs.
LEMMA NoSocketKeeps ==
  ASSUME SenderInv, NEW n \in Nets, Sender!SendNoSocket(n) \/ Sender!SendDestNoSocket(n)
  PROVE  SenderInv'
<1>1. /\ n \in nets /\ nets' = nets /\ s_out' = [s_out EXCEPT ![n] = NoSocket]
      /\ connected' = [connected EXCEPT ![n] = FALSE]
  BY DEF Sender!SendNoSocket, Sender!SendDestNoSocket, Sender!SocketFails
<1>2. /\ owner' \in [Handles -> Nets \cup {Nobody}] /\ DOMAIN peer' = Handles
      /\ \A g \in Handles : owner'[g] # n
      /\ \A g \in Handles : owner'[g] # Nobody => owner'[g] = owner[g]
  <2>1. CASE Sender!SendNoSocket(n)
    <3>1. ~connected[n] /\ owner' = owner /\ peer' = peer /\ n # Nobody
      BY <2>1, SendAssumption
         DEF Sender!SendNoSocket, Sender!SocketFails, Sender!SendAssumption
    <3>2. QED
      BY <3>1 DEF SenderInv, SenderTypeOK, OpenIsConnected
  <2>2. CASE Sender!SendDestNoSocket(n)
    <3>1. /\ owner' = Sender!Closed(owner, s_out[n])
          /\ peer' = Sender!Closed(peer, s_out[n])
      BY <2>2 DEF Sender!SendDestNoSocket, Sender!SocketFails
    <3>2. QED
      BY <3>1, CloseLeavesOthers DEF Sender!Closed
  <2>3. QED
    BY <2>1, <2>2
<1>3. SenderTypeOK'
  BY <1>1, <1>2 DEF SenderInv, SenderTypeOK
<1>4. NoSocketLeak'
  BY <1>1, <1>2 DEF SenderInv, SenderTypeOK, NoSocketLeak, Sender!NoSocketLeak
<1>5. OpenIsConnected'
  BY <1>1, <1>2 DEF SenderInv, SenderTypeOK, OpenIsConnected
<1>6. ASSUME ~stale', NEW m \in nets', connected'[m]
      PROVE  s_out'[m] \in Handles /\ owner'[s_out'[m]] = m /\ peer'[s_out'[m]] # Nobody
  <2>1. m # n /\ m \in nets /\ connected[m] /\ s_out'[m] = s_out[m] /\ s_out[m] \in Handles
    BY <1>1, <1>6 DEF SenderInv, SenderTypeOK, OpenIsConnected
  <2>2. CASE Sender!SendNoSocket(n)
    BY <1>6, <2>1, <2>2
       DEF Sender!SendNoSocket, Sender!SocketFails, SenderInv, ConnectedIsOwn,
           Sender!ConnectedIsOwn, Sender!Open
  <2>3. CASE Sender!SendDestNoSocket(n)
    <3>1. /\ owner' = Sender!Closed(owner, s_out[n]) /\ peer' = Sender!Closed(peer, s_out[n])
          /\ ~stale /\ ~Sender!Foreign(n)
      BY <1>6, <2>3 DEF Sender!SendDestNoSocket, Sender!SocketFails
    <3>2. owner[s_out[m]] = m /\ peer[s_out[m]] # Nobody
      BY <2>1, <3>1 DEF SenderInv, ConnectedIsOwn, Sender!ConnectedIsOwn, Sender!Open
    <3>3. s_out[m] # s_out[n]
      BY <2>1, <3>1, <3>2, SendAssumption
         DEF Sender!Foreign, Sender!Open, Sender!SendAssumption
    <3>4. QED
      BY <2>1, <3>1, <3>2, <3>3 DEF Sender!Closed
  <2>4. QED
    BY <2>2, <2>3
<1>7. ConnectedIsOwn'
  BY <1>6 DEF ConnectedIsOwn, Sender!ConnectedIsOwn, Sender!Open
<1>8. QED
  BY <1>3, <1>4, <1>5, <1>7 DEF SenderInv

\* The destructor closes what is in s_out; an object that has an open socket has it there.
LEMMA DeleteKeeps ==
  ASSUME SenderInv, NEW n \in Nets, Sender!Delete(n)
  PROVE  SenderInv'
<1>1. /\ n \in nets /\ nets' = nets \ {n} /\ UNCHANGED <<s_out, connected>>
      /\ owner' = Sender!Closed(owner, s_out[n]) /\ peer' = Sender!Closed(peer, s_out[n])
      /\ stale' = (stale \/ Sender!Foreign(n))
  BY DEF Sender!Delete
<1>2. /\ owner' \in [Handles -> Nets \cup {Nobody}]
      /\ \A g \in Handles : owner'[g] # n
      /\ \A g \in Handles : g # s_out[n] => owner'[g] = owner[g]
      /\ s_out[n] \in Handles => owner'[s_out[n]] = Nobody
  BY <1>1, CloseLeavesOthers
<1>3. SenderTypeOK'
  BY <1>1, <1>2 DEF SenderInv, SenderTypeOK, Sender!Closed
<1>4. NoSocketLeak'
  BY <1>1, <1>2 DEF SenderInv, NoSocketLeak, Sender!NoSocketLeak
<1>5. OpenIsConnected'
  BY <1>1, <1>2 DEF SenderInv, OpenIsConnected
<1>6. ASSUME ~stale', NEW m \in nets', connected[m]
      PROVE  m \in Nets /\ owner'[s_out[m]] = m /\ peer'[s_out[m]] # Nobody
             /\ s_out[m] \in Handles
  <2>1. m \in nets /\ m # n /\ m \in Nets /\ s_out[m] \in Handles
    BY <1>1, <1>6 DEF SenderInv, SenderTypeOK, OpenIsConnected
  <2>2. owner[s_out[m]] = m /\ peer[s_out[m]] # Nobody
    BY <1>1, <1>6, <2>1 DEF SenderInv, ConnectedIsOwn, Sender!ConnectedIsOwn, Sender!Open
  <2>3. s_out[n] \in Handles => owner[s_out[n]] = n
    BY <1>1, <1>6, SendAssumption DEF Sender!Foreign, Sender!Open, Sender!SendAssumption
  <2>4. s_out[m] # s_out[n]
    BY <2>1, <2>2, <2>3
  <2>5. QED
    BY <1>1, <1>2, <2>1, <2>2, <2>4 DEF Sender!Closed
<1>7. ConnectedIsOwn'
  BY <1>1, <1>6 DEF ConnectedIsOwn, Sender!ConnectedIsOwn, Sender!Open
<1>8. QED
  BY <1>3, <1>4, <1>5, <1>7 DEF SenderInv

LEMMA SenderInvAlways == Sender!Spec => []SenderInv
<1>1. Sender!Init => SenderInv
  BY SendAssumption
     DEF Sender!SendAssumption, Sender!Init, SenderInv, SenderTypeOK, NoSocketLeak,
         Sender!NoSocketLeak, OpenIsConnected, ConnectedIsOwn, Sender!ConnectedIsOwn
<1>2. ASSUME SenderInv, [Sender!Next]_(Sender!sendVars) PROVE SenderInv'
  <2>1. ASSUME NEW n \in Nets, NEW host, Sender!SetDefaultDestination(n, host)
        PROVE  UNCHANGED <<nets, s_out, connected, owner, peer, stale>>
    BY <2>1 DEF Sender!SetDefaultDestination
  <2>2. CASE UNCHANGED <<nets, s_out, connected, owner, peer, stale>>
    BY <1>2, <2>2
       DEF SenderInv, SenderTypeOK, NoSocketLeak, Sender!NoSocketLeak, OpenIsConnected,
           ConnectedIsOwn, Sender!ConnectedIsOwn, Sender!Open
  <2>3. CASE UNCHANGED Sender!sendVars
    BY <2>2, <2>3 DEF Sender!sendVars
  <2>4. QED
    BY <1>2, <2>1, <2>2, <2>3, SendKeeps, SendDestKeeps, NoSocketKeeps, DeleteKeeps
       DEF Sender!Next
<1>3. QED
  BY <1>1, <1>2, PTL DEF Sender!Spec

\* Every open socket has an object that exists and will close it, for any objects, hosts
\* and handles, wherever a send fails.
THEOREM NoSocketIsLost == Sender!Spec => []NoSocketLeak
<1>1. SenderInv => NoSocketLeak
  BY DEF SenderInv
<1>2. QED
  BY <1>1, SenderInvAlways, PTL

\* Until a close hits a handle that another object has by then, an object that believes it
\* is connected has a socket of its own with a peer.
THEOREM ConnectionsAreOwn == Sender!Spec => []ConnectedIsOwn
<1>1. SenderInv => ConnectedIsOwn
  BY DEF SenderInv
<1>2. QED
  BY <1>1, SenderInvAlways, PTL

-----------------------------------------------------------------------------
\* CNetUdp

\* The numbers of the messages sent so far
Messages == 1 .. Len(sent)

\* Datagrams, wherever they are, name a message that was sent.
UdpTypeOK ==
  /\ sent \in Seq(Hosts)
  /\ sockets \subseteq Hosts
  /\ network \subseteq [id : Messages, at : Hosts]
  /\ waiting \in [Hosts -> Seq(Messages)]
  /\ addr \in [Hosts -> Hosts \cup {Nowhere}]
  /\ at \in [Hosts -> [Udp!Users -> {"off", "recv", "name"}]]
  /\ got \in [Hosts -> [Udp!Users -> Messages \cup {0}]]
  /\ DOMAIN overtaken = Hosts
  /\ told.id \in Messages \/ told.late

\* A receiver that is to name the sender finds it in addr, unless it was overtaken.
NamedIsReal ==
  \A h \in Hosts, u \in Udp!Users :
    at[h][u] = "name" =>
      /\ got[h][u] \in Messages
      /\ u \notin overtaken[h] => addr[h] = sent[got[h][u]]

UdpInv == UdpTypeOK /\ NamedIsReal /\ FromIsReal

\* A message that was sent stays what it is when another is.
LEMMA MoreSent ==
  ASSUME UdpInv, NEW h \in Hosts, NEW dest, Udp!SendTo(h, dest)
  PROVE  UdpInv'
<1> USE DEF UdpInv, UdpTypeOK
<1> DEFINE n == Len(sent)
<1>1. sent' = Append(sent, h) /\ n \in Nat
  BY LenProperties DEF Udp!SendTo
<1>2. /\ sent' \in Seq(Hosts) /\ Len(sent') = n + 1
      /\ \A i \in 1 .. n : sent'[i] = sent[i]
  BY <1>1, AppendProperties
<1>3. /\ UNCHANGED <<sockets, waiting, addr, at, got, overtaken, told>>
      /\ network' = network \cup
           {[id |-> n + 1, at |-> r] : r \in Udp!Reached(h, dest)}
  BY DEF Udp!SendTo, Udp!destination, Udp!receivers
<1>4. Messages = 1 .. n /\ Messages' = 1 .. n + 1
  BY <1>2 DEF Messages
<1>5. /\ Messages \subseteq Messages' /\ n + 1 \in Messages'
      /\ \A i \in Messages : sent'[i] = sent[i]
  BY <1>1, <1>2, <1>4
<1> HIDE DEF n
<1>6. Udp!Reached(h, dest) \subseteq Hosts
  BY UdpAssumption DEF Udp!Reached, Udp!UdpAssumption
<1>7. network' \subseteq [id : Messages', at : Hosts]
  BY <1>3, <1>5, <1>6
<1>8. \A g \in Hosts : waiting[g] \in Seq(Messages')
  <2> TAKE g \in Hosts
  <2>1. waiting[g] \in Seq(Messages)
    OBVIOUS
  <2>2. QED
    BY <1>5, <2>1, SeqMonotonic
<1>9. waiting' \in [Hosts -> Seq(Messages')]
  BY <1>3, <1>8
<1>10. got' \in [Hosts -> [Udp!Users -> Messages' \cup {0}]]
  BY <1>3, <1>5
<1>11. UdpTypeOK'
  BY <1>2, <1>3, <1>5, <1>7, <1>9, <1>10
<1>12. NamedIsReal'
  <2> SUFFICES ASSUME NEW g \in Hosts, NEW u \in Udp!Users, at[g][u] = "name"
               PROVE  /\ got[g][u] \in Messages'
                      /\ u \notin overtaken[g] => addr[g] = sent'[got[g][u]]
    BY <1>3 DEF NamedIsReal
  <2>1. /\ got[g][u] \in Messages
        /\ u \notin overtaken[g] => addr[g] = sent[got[g][u]]
    BY DEF NamedIsReal
  <2>2. QED
    BY <1>5, <2>1
<1>13. FromIsReal'
  BY <1>3, <1>5 DEF FromIsReal, Udp!FromIsReal
<1>14. QED
  BY <1>11, <1>12, <1>13

\* A datagram arrives, once more or for the last time.
LEMMA ArriveKeeps ==
  ASSUME UdpInv, NEW d \in network, Udp!Arrive(d)
  PROVE  UdpInv'
<1> USE DEF UdpInv, UdpTypeOK
<1>1. d.id \in Messages /\ d.at \in Hosts
  OBVIOUS
<1>2. /\ waiting' = [waiting EXCEPT ![d.at] = Append(waiting[d.at], d.id)]
      /\ network' \subseteq network
      /\ UNCHANGED <<sent, sockets, addr, at, got, overtaken, told>>
  BY DEF Udp!Arrive, Udp!destination
<1>3. Append(waiting[d.at], d.id) \in Seq(Messages)
  BY <1>1, AppendProperties
<1>4. waiting' \in [Hosts -> Seq(Messages)]
  BY <1>1, <1>2, <1>3
<1>5. UdpTypeOK'
  BY <1>2, <1>4 DEF Messages
<1>6. NamedIsReal' /\ FromIsReal'
  BY <1>2 DEF NamedIsReal, Messages, FromIsReal, Udp!FromIsReal
<1>7. QED
  BY <1>5, <1>6

\* What Moved changes
LEMMA UdpMoved ==
  ASSUME UdpTypeOK, NEW h \in Hosts, NEW u \in Udp!Users,
         NEW place \in {"off", "recv", "name"}, Udp!Moved(h, u, place)
  PROVE  /\ at' \in [Hosts -> [Udp!Users -> {"off", "recv", "name"}]]
         /\ at'[h][u] = place
         /\ \A g \in Hosts, v \in Udp!Users : g # h \/ v # u => at'[g][v] = at[g][v]
BY DEF UdpTypeOK, Udp!Moved

\* recvfrom gives the receiver a message and addr its sender; who has not named the sender
\* of an earlier one is overtaken.
LEMMA RecvKeeps ==
  ASSUME UdpInv, NEW h \in Hosts, NEW u \in Udp!Users, Udp!Recv(h, u)
  PROVE  UdpInv'
<1> USE DEF UdpInv, UdpTypeOK
<1> DEFINE m == Head(waiting[h])
<1>1. /\ at[h][u] = "recv" /\ waiting[h] # <<>>
      /\ addr' = [addr EXCEPT ![h] = sent[m]]
      /\ got' = [got EXCEPT ![h] = [got[h] EXCEPT ![u] = m]]
      /\ waiting' = [waiting EXCEPT ![h] = Tail(waiting[h])]
      /\ overtaken' = [overtaken EXCEPT ![h] = {v \in Udp!Users \ {u} : at[h][v] = "name"}]
      /\ Udp!Moved(h, u, "name")
      /\ UNCHANGED <<sent, network, sockets, told>>
  BY DEF Udp!Recv, Udp!From, Udp!destination, Udp!traffic
<1>2. m \in Messages /\ Tail(waiting[h]) \in Seq(Messages)
  BY <1>1, HeadTailProperties
<1> HIDE DEF m
<1>3. sent[m] \in Hosts
  BY <1>2, ElementOfSeq DEF Messages
<1>4. /\ at' \in [Hosts -> [Udp!Users -> {"off", "recv", "name"}]]
      /\ at'[h][u] = "name"
      /\ \A g \in Hosts, v \in Udp!Users : g # h \/ v # u => at'[g][v] = at[g][v]
  BY <1>1, UdpMoved
<1>5. UdpTypeOK'
  <2>1. waiting' \in [Hosts -> Seq(Messages)] /\ addr' \in [Hosts -> Hosts \cup {Nowhere}]
    BY <1>1, <1>2, <1>3
  <2>2. got' \in [Hosts -> [Udp!Users -> Messages \cup {0}]]
    BY <1>1, <1>2
  <2>3. DOMAIN overtaken' = Hosts
    BY <1>1
  <2>4. QED
    BY <1>1, <1>4, <2>1, <2>2, <2>3 DEF Messages
<1>6. ASSUME NEW g \in Hosts, NEW v \in Udp!Users, at'[g][v] = "name"
      PROVE  got'[g][v] \in Messages /\ (v \notin overtaken'[g] => addr'[g] = sent[got'[g][v]])
  <2>1. CASE g = h /\ v = u
    BY <1>1, <1>2, <2>1
  <2>2. CASE g = h /\ v # u
    <3>1. at[h][v] = "name" /\ got'[h][v] = got[h][v]
      BY <1>1, <1>4, <1>6, <2>2
    <3>2. v \in overtaken'[h]
      BY <1>1, <2>2, <3>1
    <3>3. QED
      BY <2>2, <3>1, <3>2 DEF NamedIsReal
  <2>3. CASE g # h
    <3>1. /\ at[g][v] = "name" /\ got'[g] = got[g]
          /\ overtaken'[g] = overtaken[g] /\ addr'[g] = addr[g]
      BY <1>1, <1>4, <1>6, <2>3
    <3>2. QED
      BY <3>1 DEF NamedIsReal
  <2>4. QED
    BY <2>1, <2>2, <2>3
<1>7. NamedIsReal'
  BY <1>1, <1>6 DEF NamedIsReal, Messages
<1>8. FromIsReal'
  BY <1>1 DEF FromIsReal, Udp!FromIsReal
<1>9. QED
  BY <1>5, <1>7, <1>8

\* The sender is named from addr.
LEMMA TellKeeps ==
  ASSUME UdpInv, NEW h \in Hosts, NEW u \in Udp!Users, Udp!Tell(h, u)
  PROVE  UdpInv'
<1> USE DEF UdpInv, UdpTypeOK
<1>1. /\ at[h][u] = "name"
      /\ told' = [id |-> got[h][u], from |-> addr[h], late |-> u \in overtaken[h]]
      /\ got' = [got EXCEPT ![h] = [got[h] EXCEPT ![u] = 0]]
      /\ Udp!Moved(h, u, IF u = Udp!Get THEN "off" ELSE "recv")
      /\ UNCHANGED <<sent, network, sockets, waiting, addr, overtaken>>
  BY DEF Udp!Tell, Udp!destination, Udp!traffic
<1>2. got[h][u] \in Messages /\ (u \notin overtaken[h] => addr[h] = sent[got[h][u]])
  BY <1>1 DEF NamedIsReal
<1>3. /\ at' \in [Hosts -> [Udp!Users -> {"off", "recv", "name"}]]
      /\ at'[h][u] # "name"
      /\ \A g \in Hosts, v \in Udp!Users : g # h \/ v # u => at'[g][v] = at[g][v]
  BY <1>1, UdpMoved
<1>4. got' \in [Hosts -> [Udp!Users -> Messages \cup {0}]]
  BY <1>1
<1>5. told'.id \in Messages /\ (~told'.late => told'.from = sent[told'.id])
  BY <1>1, <1>2
<1>6. UdpTypeOK'
  BY <1>1, <1>3, <1>4, <1>5 DEF Messages
<1>7. \A g \in Hosts, v \in Udp!Users :
        at'[g][v] = "name" => at[g][v] = "name" /\ got'[g][v] = got[g][v]
  BY <1>1, <1>3
<1>8. NamedIsReal'
  BY <1>1, <1>7 DEF NamedIsReal, Messages
<1>9. FromIsReal'
  BY <1>1, <1>5 DEF FromIsReal, Udp!FromIsReal
<1>10. QED
  BY <1>6, <1>8, <1>9

\* A step that moves a receiver but not to "name", or is about destinations or losses
LEMMA UdpQuiet ==
  ASSUME UdpInv, UNCHANGED <<sent, sockets, waiting, addr, got, overtaken, told>>,
         network' \subseteq network,
         at' \in [Hosts -> [Udp!Users -> {"off", "recv", "name"}]],
         \A g \in Hosts, v \in Udp!Users : at'[g][v] = "name" => at[g][v] = "name"
  PROVE  UdpInv'
<1> USE DEF UdpInv
<1>1. UdpTypeOK'
  BY DEF UdpTypeOK, Messages
<1>2. NamedIsReal'
  BY DEF NamedIsReal, Messages
<1>3. FromIsReal'
  BY DEF FromIsReal, Udp!FromIsReal
<1>4. QED
  BY <1>1, <1>2, <1>3

LEMMA UdpInvAlways == Udp!Spec => []UdpInv
<1>1. ASSUME Udp!Init PROVE UdpInv
  <2> USE <1>1 DEF Udp!Init
  <2>1. UdpTypeOK
    BY DEF UdpTypeOK, Udp!Untold
  <2>2. NamedIsReal /\ FromIsReal
    BY DEF NamedIsReal, FromIsReal, Udp!FromIsReal, Udp!Untold
  <2>3. QED
    BY <2>1, <2>2 DEF UdpInv
<1>2. ASSUME UdpInv, [Udp!Next]_(Udp!udpVars) PROVE UdpInv'
  <2> USE <1>2
  <2>0. at \in [Hosts -> [Udp!Users -> {"off", "recv", "name"}]]
    BY DEF UdpInv, UdpTypeOK
  <2>1. ASSUME NEW d \in network, Udp!Lose(d) PROVE UdpInv'
    BY <2>0, <2>1, UdpQuiet DEF Udp!Lose, Udp!destination, Udp!receivers
  <2>2. ASSUME NEW h \in Hosts, NEW dest,
               Udp!ClearDestination(h) \/ Udp!SetDestination(h, dest)
        PROVE  UdpInv'
    BY <2>0, <2>2, UdpQuiet
       DEF Udp!ClearDestination, Udp!SetDestination, Udp!traffic, Udp!receivers
  <2>3. ASSUME NEW h \in Hosts, NEW u \in Udp!Users, NEW place \in {"off", "recv"},
               Udp!Moved(h, u, place),
               UNCHANGED <<sent, network, sockets, waiting, addr, got, overtaken, told>>
        PROVE  UdpInv'
    <3>1. /\ at' \in [Hosts -> [Udp!Users -> {"off", "recv", "name"}]]
          /\ at'[h][u] = place
          /\ \A g \in Hosts, v \in Udp!Users : g # h \/ v # u => at'[g][v] = at[g][v]
      BY <2>3, UdpMoved DEF UdpInv
    <3>2. QED
      BY <2>3, <3>1, UdpQuiet
  <2>4. ASSUME NEW h \in Hosts, NEW u \in Udp!Users, Udp!Begin(h, u) PROVE UdpInv'
    BY <2>3, <2>4 DEF Udp!Begin, Udp!destination, Udp!traffic
  <2>5. ASSUME NEW h \in Hosts, Udp!RecvNothing(h) PROVE UdpInv'
    <3>1. Udp!Get \in Udp!Users
      BY DEF Udp!Users
    <3>2. QED
      BY <2>3, <2>5, <3>1 DEF Udp!RecvNothing, Udp!destination, Udp!traffic
  <2>6. CASE UNCHANGED Udp!udpVars
    BY <2>0, <2>6, UdpQuiet
       DEF Udp!udpVars, Udp!destination, Udp!traffic, Udp!receivers
  <2>7. ASSUME NEW h \in Hosts, NEW dest, Udp!Send(h) \/ Udp!SendDest(h, dest) PROVE UdpInv'
    BY <2>7, MoreSent DEF Udp!Send, Udp!SendDest
  <2>8. QED
    BY <2>1, <2>2, <2>4, <2>5, <2>6, <2>7, ArriveKeeps, RecvKeeps, TellKeeps DEF Udp!Next
<1>3. QED
  BY <1>1, <1>2, PTL DEF Udp!Spec

\* A callback of UDP that nobody overtook is told who sent its message, for any hosts,
\* receivers and messages, however they are lost, doubled and reordered.
THEOREM SendersAreReal == Udp!Spec => []FromIsReal
<1>1. UdpInv => FromIsReal
  BY DEF UdpInv
<1>2. QED
  BY <1>1, UdpInvAlways, PTL

-----------------------------------------------------------------------------
\* CLogger

LoggerTypeOK ==
  /\ onWindows \in BOOLEAN
  /\ m_eLogLevel \in Log!Levels /\ m_eLogMethod \in Log!Methods
  /\ asked.level \in Log!Levels /\ asked.method \in Log!Methods

\* The members are what the last Init asked for, and so is the file wherever one is used.
SetAsAsked ==
  /\ ~onWindows => m_hFile = NoFile /\ asked.file = NoFile
  /\ ~threw =>
       /\ m_eLogLevel = asked.level /\ m_eLogMethod = asked.method
       /\ onWindows /\ Log!Opens(asked.level, asked.method) =>
            m_hFile = asked.file /\ m_hFile # NoFile

LoggerInv == LoggerTypeOK /\ SetAsAsked /\ LogsWhereAsked

LEMMA SetupKeeps ==
  ASSUME LoggerInv, NEW level \in Log!Levels, NEW method \in Log!Methods, NEW f \in Files,
         Log!Setup(level, method, f)
  PROVE  LoggerInv'
<1>1. f # NoFile
  BY LogAssumption DEF Log!LogAssumption
<1>2. LoggerTypeOK'
  BY DEF LoggerInv, LoggerTypeOK, Log!Setup
<1>3. SetAsAsked'
  BY <1>1 DEF LoggerInv, LoggerTypeOK, SetAsAsked, Log!Setup
<1>4. LogsWhereAsked'
  BY <1>1, <1>3
     DEF LoggerInv, SetAsAsked, LogsWhereAsked, Log!LogsWhereAsked, Log!Setup, Log!Lined,
         Log!LineWanted, Log!FileOf, Log!Opens, Log!Levels
<1>5. QED
  BY <1>2, <1>3, <1>4 DEF LoggerInv

\* A message that is let through goes to the file of the last Init, when it goes to a file.
LEMMA LogKeeps ==
  ASSUME LoggerInv, NEW importance \in Log!Levels \ {0},
         Log!Log(importance) \/ Log!LogLine(importance)
  PROVE  LoggerInv'
<1>1. UNCHANGED <<onWindows, m_eLogLevel, m_eLogMethod, m_hFile, asked, threw>>
  BY DEF Log!Log, Log!LogLine, Log!settings
<1>2. LoggerTypeOK' /\ SetAsAsked'
  BY <1>1 DEF LoggerInv, LoggerTypeOK, SetAsAsked, Log!Opens
<1>3. ASSUME ~threw, onWindows \/ (asked.method # 1 /\ ~separator') PROVE wrote' = wanted'
  <2>1. /\ m_eLogLevel = asked.level /\ m_eLogMethod = asked.method
        /\ onWindows => (asked.level # 0 /\ asked.method \in {1, 3} =>
                           m_hFile = asked.file /\ m_hFile # NoFile)
        /\ ~onWindows => m_hFile = NoFile /\ asked.file = NoFile
    BY <1>3 DEF LoggerInv, SetAsAsked, Log!Opens
  <2>2. /\ importance \in 1 .. 3 /\ asked.level \in 0 .. 3 /\ asked.method \in 0 .. 3
        /\ onWindows \in BOOLEAN
    BY DEF LoggerInv, LoggerTypeOK, Log!Levels, Log!Methods
  <2>3. CASE Log!LogLine(importance)
    BY <1>3, <2>1, <2>2, <2>3 DEF Log!LogLine, Log!Lined, Log!LineWanted, Log!FileOf
  <2>4. CASE Log!Log(importance)
    BY <1>3, <2>1, <2>2, <2>4 DEF Log!Log, Log!Passes, Log!Outputs, Log!FileOf
  <2>5. QED
    BY <2>3, <2>4
<1>4. LogsWhereAsked'
  BY <1>1, <1>3 DEF LogsWhereAsked, Log!LogsWhereAsked
<1>5. QED
  BY <1>2, <1>4 DEF LoggerInv

LEMMA LoggerInvAlways == Log!Spec => []LoggerInv
<1>1. ASSUME Log!Init PROVE LoggerInv
  BY <1>1 DEF Log!Init, LoggerInv, LoggerTypeOK, SetAsAsked, LogsWhereAsked,
              Log!LogsWhereAsked, Log!Opens, Log!Levels, Log!Methods
<1>2. ASSUME LoggerInv, [Log!Next]_(Log!loggerVars) PROVE LoggerInv'
  <2>1. CASE Log!Destroy
    BY <1>2, <2>1
       DEF Log!Destroy, LoggerInv, LoggerTypeOK, SetAsAsked, LogsWhereAsked,
           Log!LogsWhereAsked, Log!Opens, Log!Levels, Log!Methods
  <2>2. ASSUME NEW level \in Log!Levels, NEW method \in Log!Methods,
               Log!InitThrows(level, method)
        PROVE  LoggerInv'
    BY <1>2, <2>2
       DEF Log!InitThrows, LoggerInv, LoggerTypeOK, SetAsAsked, LogsWhereAsked,
           Log!LogsWhereAsked
  <2>3. CASE UNCHANGED Log!loggerVars
    BY <1>2, <2>3
       DEF Log!loggerVars, Log!settings, LoggerInv, LoggerTypeOK, SetAsAsked,
           LogsWhereAsked, Log!LogsWhereAsked, Log!Opens
  <2>4. QED
    BY <1>2, <2>1, <2>2, <2>3, SetupKeeps, LogKeeps DEF Log!Next
<1>3. QED
  BY <1>1, <1>2, PTL DEF Log!Spec

\* A message goes where the last Init that returned asked for and nowhere else, for any
\* files and any sequence of Inits; a line of LogLine does on win32, and on linux neither
\* lines nor the method eLogToFile are claimed.
THEOREM MessagesGoWhereAsked == Log!Spec => []LogsWhereAsked
<1>1. LoggerInv => LogsWhereAsked
  BY DEF LoggerInv
<1>2. QED
  BY <1>1, LoggerInvAlways, PTL
=============================================================================

------------------------------ MODULE ComPort --------------------------------
(***************************************************************************)
(* CComPort (ComPort.cpp, ComPort.h): objects that open, read, write and   *)
(* flush one serial port, and its driver.  An object has one thread that   *)
(* reads; Write, Flush, BitCmd and SetParams may be called beside it.      *)
(* What the bytes are is left out.  m_nLastErrorNum is "an error is        *)
(* recorded"; GetLastError and GetUnreadDataSize only read.                *)
(***************************************************************************)
EXTENDS Integers

CONSTANTS
  Coms,         \* the CComPort objects
  PortHandles,  \* bound: the handles of the system, numbers with 0
  MaxBytes      \* bound: the bytes in the queue of the driver

ASSUME ComPortAssumption == MaxBytes \in Nat

VARIABLES
  platform,            \* "win32" or "linux"
  open,                \* the driver's handles of the port
  inQue, event,        \* bytes received and not read; EV_RXCHAR recorded for nobody
  early,               \* auxiliary: all of them came before SetCommMask
  dtr, xoff,           \* of the line
  m_hPort,             \* of each object
  made,                \* "none", "opening", "live"
  m_nLastErrorNum,
  reader, cbInQue,     \* where Read is, and its comstat.cbInQue
  nResult, failed,     \* what Read returned; auxiliary: a call of the system had failed
  checking             \* the handle of CheckComPorts, 0 if there is none

driver == <<open, inQue, event, early>>
line == <<dtr, xoff>>
objects == <<m_hPort, made>>
call == <<reader, cbInQue, nResult, failed>>
portVars == <<platform, driver, line, objects, m_nLastErrorNum, call, checking>>

PortInit ==
  /\ platform \in {"win32", "linux"}
  /\ open = {} /\ inQue = 0 /\ event = FALSE /\ early = FALSE
  /\ dtr = TRUE /\ xoff = FALSE
  /\ m_hPort = [c \in Coms |-> 0] /\ made = [c \in Coms |-> "none"]
  /\ m_nLastErrorNum = [c \in Coms |-> FALSE]
  /\ reader = [c \in Coms |-> "out"] /\ cbInQue = [c \in Coms |-> 0]
  /\ nResult = [c \in Coms |-> 0] /\ failed = [c \in Coms |-> FALSE]
  /\ checking = 0

SetError(c, bad) == m_nLastErrorNum' = [m_nLastErrorNum EXCEPT ![c] = bad]

\* An error number that is whatever the last failed call of the thread left
SetStaleError(c) == \E bad \in BOOLEAN : SetError(c, bad)

-----------------------------------------------------------------------------
\* OpenPort and ClosePort, with the driver: win32 opens a port once.  Bytes that come
\* between CreateFile and SetCommMask are queued, and no event is recorded for them.

OpenPort(h) ==
  /\ h \in PortHandles \ open
  /\ open' = open \cup {h}
  /\ IF platform = "win32"
     THEN /\ open = {} /\ h # 0
          /\ inQue' \in 0 .. MaxBytes
          /\ early' = (inQue' > 0)
          /\ event' = FALSE
     ELSE UNCHANGED <<inQue, event, early>>

\* "if (hPort)": nothing happens for 0.
ClosePort(h) ==
  /\ open' = IF h = 0 THEN open ELSE open \ {h}
  /\ inQue' = (IF open' = {} THEN 0 ELSE inQue)
  /\ early' = (early /\ open' # {})
  /\ event' = (event /\ open' # {})

CheckOpens(h) ==
  /\ checking = 0
  /\ OpenPort(h)
  /\ checking' = h
  /\ UNCHANGED <<platform, line, objects, m_nLastErrorNum, call>>

CheckCloses ==
  /\ checking # 0
  /\ ClosePort(checking)
  /\ checking' = 0
  /\ UNCHANGED <<platform, line, objects, m_nLastErrorNum, call>>

\* Open, up to OpenPort
OpenBegins(c, h) ==
  /\ made[c] = "none"
  /\ OpenPort(h)
  /\ m_hPort' = [m_hPort EXCEPT ![c] = h]
  /\ made' = [made EXCEPT ![c] = IF h = 0 THEN "live" ELSE "opening"]
  /\ SetError(c, FALSE)
  /\ UNCHANGED <<platform, line, call, checking>>

\* The port does not open: win32 returns an object without a port.  On linux -1 is taken
\* for a handle; SetParams refuses it and the object is gone.
OpenFails(c) ==
  /\ made[c] = "none" /\ platform = "win32"
  /\ m_hPort' = [m_hPort EXCEPT ![c] = 0]
  /\ made' = [made EXCEPT ![c] = "live"]
  /\ SetError(c, FALSE)
  /\ UNCHANGED <<platform, driver, line, call, checking>>

\* SetParams answers true only on win32.
OpenEnds(c) ==
  /\ made[c] = "opening" /\ platform = "win32"
  /\ made' = [made EXCEPT ![c] = "live"]
  /\ SetError(c, FALSE)
  /\ UNCHANGED <<platform, driver, line, m_hPort, call, checking>>

\* The object and its handle
Destroyed(c) ==
  /\ ClosePort(m_hPort[c])
  /\ m_hPort' = [m_hPort EXCEPT ![c] = 0]
  /\ made' = [made EXCEPT ![c] = "none"]

\* mutant of Refused: the object is forgotten instead of reset
RefusedForgotten(c) ==
  /\ made' = [made EXCEPT ![c] = "none"]
  /\ m_hPort' = [m_hPort EXCEPT ![c] = 0]
  /\ UNCHANGED driver

\* "pComPort.reset()"
Refused(c) == Destroyed(c)

OpenRefused(c) ==
  /\ made[c] = "opening"
  /\ Refused(c)
  /\ UNCHANGED <<platform, line, m_nLastErrorNum, call, checking>>

Delete(c) ==
  /\ made[c] = "live" /\ reader[c] = "out"
  /\ Destroyed(c)
  /\ UNCHANGED <<platform, line, m_nLastErrorNum, call, checking>>

SetParams(c) ==
  /\ made[c] = "live"
  /\ \E bad \in BOOLEAN :
       /\ platform = "linux" => ~bad
       /\ m_hPort[c] \notin open => bad
       /\ SetError(c, bad)
  /\ UNCHANGED <<platform, driver, line, objects, call, checking>>

-----------------------------------------------------------------------------
\* Read, and ReadChar, which calls it

Return(c, n, bad) ==
  /\ reader' = [reader EXCEPT ![c] = "out"]
  /\ cbInQue' = [cbInQue EXCEPT ![c] = 0]
  /\ nResult' = [nResult EXCEPT ![c] = n]
  /\ failed' = [failed EXCEPT ![c] = bad]

Goto(c, place) ==
  /\ reader' = [reader EXCEPT ![c] = place]
  /\ UNCHANGED <<cbInQue, nResult, failed>>

MayCall(c) == made[c] = "live" /\ reader[c] = "out"

\* A byte comes: it ends a wait for EV_RXCHAR, or is recorded for the next one.
Arrive ==
  /\ open # {} /\ inQue < MaxBytes
  /\ inQue' = inQue + 1
  /\ early' = FALSE
  /\ IF \E c \in Coms : reader[c] = "waiting"
     THEN /\ reader' = [c \in Coms |-> IF reader[c] = "waiting" THEN "woken" ELSE reader[c]]
          /\ UNCHANGED event
     ELSE event' = TRUE /\ UNCHANGED reader
  /\ UNCHANGED <<platform, open, line, objects, m_nLastErrorNum, cbInQue, nResult, failed,
                 checking>>

\* WaitCommEvent
ReadBegins(c) ==
  /\ MayCall(c) /\ platform = "win32" /\ m_hPort[c] \in open
  /\ Goto(c, IF event THEN "woken" ELSE "waiting")
  /\ event' = FALSE
  /\ UNCHANGED <<platform, open, inQue, early, line, objects, m_nLastErrorNum, checking>>

\* WaitCommEvent or the wait fails, on win32; read fails, on linux.
ReadFails(c) ==
  /\ MayCall(c) \/ reader[c] = "waiting"
  /\ Return(c, -1, TRUE)
  /\ SetError(c, TRUE)
  /\ UNCHANGED <<platform, driver, line, objects, checking>>

\* ClearCommError finds nothing to read.
ReadsNothing(c) ==
  /\ reader[c] = "woken" /\ inQue = 0
  /\ Return(c, -1, FALSE)
  /\ SetStaleError(c)
  /\ UNCHANGED <<platform, driver, line, objects, checking>>

ReadCounts(c) ==
  /\ reader[c] = "woken" /\ inQue > 0
  /\ cbInQue' = [cbInQue EXCEPT ![c] = inQue]
  /\ reader' = [reader EXCEPT ![c] = "reading"]
  /\ UNCHANGED <<platform, driver, line, objects, m_nLastErrorNum, nResult, failed, checking>>

\* mutant of Asked: no more than the nBytesToRead of ReadChar
AskedOne(c) == 1

\* ReadFile asks for all that was in the queue.
Asked(c) == cbInQue[c]

ReadFile(c) ==
  /\ reader[c] = "reading" /\ Asked(c) <= inQue
  /\ inQue' = inQue - Asked(c)
  /\ early' = (early /\ inQue' > 0)
  /\ Return(c, Asked(c), FALSE)
  /\ SetError(c, FALSE)
  /\ UNCHANGED <<platform, open, event, line, objects, checking>>

\* A Flush came between: the request stays with the driver while Read returns 0 and
\* gives up the buffer.  What the object does from then on is undefined and left out.
ReadFilePends(c) ==
  /\ reader[c] = "reading" /\ Asked(c) > inQue
  /\ reader' = [reader EXCEPT ![c] = "undefined"]
  /\ nResult' = [nResult EXCEPT ![c] = 0]
  /\ SetError(c, TRUE)
  /\ UNCHANGED <<platform, driver, line, objects, cbInQue, failed, checking>>

\* read of linux; handle 0 is the only one an object can have there.
ReadLinux(c, n) ==
  /\ MayCall(c) /\ platform = "linux" /\ m_hPort[c] \in open
  /\ n \in 1 .. inQue
  /\ inQue' = inQue - n
  /\ Return(c, n, FALSE)
  /\ SetError(c, FALSE)
  /\ UNCHANGED <<platform, open, event, early, line, objects, checking>>

-----------------------------------------------------------------------------
\* Calls beside Read

\* On win32 a write that cannot end at once counts as failed; it cannot after XOFF.
Write(c) ==
  /\ made[c] = "live"
  /\ \E bad \in BOOLEAN :
       /\ m_hPort[c] \notin open \/ xoff => bad
       /\ SetError(c, bad)
  /\ UNCHANGED <<platform, driver, line, objects, call, checking>>

\* win32 tests "eFlushMethod | eFlushInData", which is never 0: every flush clears both
\* directions.  The answer 0 of a success records an error, -1 records none.
Flush(c, eFlushMethod) ==
  /\ made[c] = "live" /\ m_hPort[c] \in open
  /\ IF platform = "win32" \/ eFlushMethod \in {"in", "all"}
     THEN inQue' = 0 /\ early' = FALSE
     ELSE UNCHANGED <<inQue, early>>
  /\ SetStaleError(c)
  /\ UNCHANGED <<platform, open, event, line, objects, call, checking>>

FlushFails(c) ==
  /\ made[c] = "live" /\ platform = "win32"
  /\ SetError(c, FALSE)
  /\ UNCHANGED <<platform, driver, line, objects, call, checking>>

\* win32 passes the enumerator on, not nCmd: eSETDTR is 0, no command of the system, and
\* eCLRDTR is 1, SETXOFF.
BitCmd(c, eCmd) ==
  /\ made[c] = "live" /\ m_hPort[c] \in open
  /\ IF platform = "win32"
     THEN xoff' = (xoff \/ eCmd = "eCLRDTR") /\ UNCHANGED dtr
     ELSE dtr' = (eCmd = "eSETDTR") /\ UNCHANGED xoff
  /\ UNCHANGED <<platform, driver, objects, m_nLastErrorNum, call, checking>>

Read(c) ==
  \/ ReadBegins(c) \/ ReadFails(c) \/ ReadsNothing(c) \/ ReadCounts(c)
  \/ ReadFile(c) \/ ReadFilePends(c)
  \/ \E n \in 1 .. MaxBytes : ReadLinux(c, n)

PortNext ==
  \/ Arrive \/ CheckCloses
  \/ \E h \in PortHandles : CheckOpens(h) \/ \E c \in Coms : OpenBegins(c, h)
  \/ \E c \in Coms :
       \/ OpenFails(c) \/ OpenEnds(c) \/ OpenRefused(c) \/ Delete(c)
       \/ SetParams(c) \/ Read(c) \/ Write(c) \/ FlushFails(c)
       \/ \E eFlushMethod \in {"in", "out", "all"} : Flush(c, eFlushMethod)
       \/ \E eCmd \in {"eSETDTR", "eCLRDTR"} : BitCmd(c, eCmd)

PortSpec == PortInit /\ [][PortNext]_portVars

-----------------------------------------------------------------------------
\* Properties

\* A thread sleeps in Read only as long as there is nothing to read, wherever the bytes
\* come between its calls and whatever is flushed, but for bytes that came before
\* OpenPort had told the driver to record events.
SleepsOnlyWhenEmpty == \A c \in Coms : reader[c] = "waiting" => inQue = 0 \/ early

\* Every open handle has an object, or CheckComPorts, to close it, and objects use none
\* that is closed, also when Open is refused half-way; but for handle 0 of linux, which
\* counts as no port and is never closed.
PortsOwned ==
  LET held == {checking} \cup {m_hPort[c] : c \in Coms}
  IN  open \ {0} = held \ {0}

\* ComPort.h of ReadChar, which hands on a -1 of Read: "returns byte or -1 if error occurs"
ReadFailsOnError == \A c \in Coms : nResult[c] = -1 => failed[c]
=============================================================================

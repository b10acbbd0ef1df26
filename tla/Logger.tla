------------------------------- MODULE Logger --------------------------------
(***************************************************************************)
(* CLogger (Logger.cpp, Logger.h): a logger that is set up by Init, once   *)
(* or again, and written to.  What the messages say is left out.           *)
(***************************************************************************)
EXTENDS Naturals

CONSTANTS
  Files,     \* bound: the FILEs that fopen makes
  NoFile     \* m_hFile is NULL

\* An assumption on the constants
LogAssumption == NoFile \notin Files

Levels == 0 .. 3     \* eDoNotLog, eLogAnyway, eLogWarning, eLogComment
Methods == 0 .. 3    \* eLogDisabled, eLogToFile, eLogToStdout, eLogToFileAndStdout

VARIABLES
  onWindows,     \* on linux messages for the file go to the system's log
  m_eLogLevel, m_eLogMethod, m_hFile,
  opened,        \* the FILEs that are open
  asked,         \* auxiliary: the level, method and FILE of the last Init
  threw,         \* auxiliary: an Init threw
  separator,     \* auxiliary: the last message is a line of LogLine
  wrote, wanted  \* auxiliary: where the last message went, and should by asked

settings == <<m_eLogLevel, m_eLogMethod, m_hFile, opened>>
loggerVars == <<onWindows, settings, asked, threw, separator, wrote, wanted>>

Init ==
  /\ onWindows \in BOOLEAN
  /\ m_eLogLevel = 0 /\ m_eLogMethod = 0 /\ m_hFile = NoFile
  /\ opened = {}
  /\ asked = [level |-> 0, method |-> 0, file |-> NoFile] /\ threw = FALSE
  /\ separator = FALSE /\ wrote = {} /\ wanted = {}

\* mutant of Opens: a file that is open is used for the next Init, too
OpensOnce(level, method) == level # 0 /\ method \in {1, 3} /\ m_hFile = NoFile

Opens(level, method) == level # 0 /\ method \in {1, 3}

\* The file or the system's log, for a method that has one; NoFile is the system's log.
FileOf(method, f) == IF method \in {1, 3} THEN {f} ELSE {}

\* Where LogLine writes its line: "m_hFile &&" keeps it from the system's log, too.
Lined(level, method, f, importance) ==
  IF level >= importance THEN FileOf(method, f) \ {NoFile} ELSE {}

\* Where a line should go: a line is for the file only.
LineWanted(importance) ==
  IF importance <= asked.level THEN FileOf(asked.method, asked.file) ELSE {}

\* An Init that returns; the FILE of an earlier one stays open.  It ends with two LogLine().
Setup(level, method, f) ==
  /\ m_eLogLevel' = level /\ m_eLogMethod' = method
  /\ asked' = [level |-> level, method |-> method,
               file |-> IF onWindows THEN f ELSE NoFile]
  /\ IF onWindows /\ Opens(level, method)
     THEN m_hFile' = f /\ opened' = opened \cup {f}
     ELSE UNCHANGED <<m_hFile, opened>>
  /\ wrote' = Lined(level, method, m_hFile', 1)
  /\ separator' = TRUE /\ wanted' = LineWanted(1)'
  /\ UNCHANGED <<onWindows, threw>>

\* fopen fails: the level is that of this Init, the method that of the one before.
InitThrows(level, method) ==
  /\ onWindows /\ Opens(level, method)
  /\ m_eLogLevel' = level
  /\ m_hFile' = NoFile
  /\ threw' = TRUE
  /\ UNCHANGED <<onWindows, m_eLogMethod, opened, asked, separator, wrote, wanted>>

\* The outputs of a message that is let through
Outputs(method, f) ==
  FileOf(method, f) \cup (IF method \in {2, 3} THEN {"stdout"} ELSE {})

\* "m_eLogLevel >= eMessageImportance && (m_hFile || m_eLogMethod > 1)": m_hFile is never
\* set on linux.
Passes(importance) ==
  m_eLogLevel >= importance /\ (m_hFile # NoFile \/ m_eLogMethod > 1)

Log(importance) ==
  /\ wrote' = IF Passes(importance) THEN Outputs(m_eLogMethod, m_hFile) ELSE {}
  /\ wanted' = IF importance <= asked.level THEN Outputs(asked.method, asked.file) ELSE {}
  /\ separator' = FALSE
  /\ UNCHANGED <<onWindows, settings, asked, threw>>

LogLine(importance) ==
  /\ wrote' = Lined(m_eLogLevel, m_eLogMethod, m_hFile, importance)
  /\ separator' = TRUE /\ wanted' = LineWanted(importance)
  /\ UNCHANGED <<onWindows, settings, asked, threw>>

\* A logger is destroyed, and the next one constructed.
Destroy ==
  /\ opened' = opened \ {m_hFile}
  /\ m_eLogLevel' = 0 /\ m_eLogMethod' = 0 /\ m_hFile' = NoFile
  /\ asked' = [level |-> 0, method |-> 0, file |-> NoFile] /\ threw' = FALSE
  /\ separator' = FALSE /\ wrote' = {} /\ wanted' = {}
  /\ UNCHANGED onWindows

Next ==
  \/ Destroy
  \/ \E level \in Levels, method \in Methods :
       \/ \E f \in Files \ opened : Setup(level, method, f)
       \/ InitThrows(level, method)
  \/ \E importance \in Levels \ {0} : Log(importance) \/ LogLine(importance)

Spec == Init /\ [][Next]_loggerVars

-----------------------------------------------------------------------------
\* Properties

\* On win32 a message, and a line of LogLine, goes where the last Init wants those of its
\* importance, through its own file, and nowhere else, however often Init is called; but
\* not after an Init that threw.  On linux the same holds of messages as long as the method
\* is not eLogToFile; lines are lost there with every method, also the two of Init.
LogsWhereAsked ==
  ~threw /\ (onWindows \/ (asked.method # 1 /\ ~separator)) => wrote = wanted
=============================================================================

------------------------------- MODULE MCParts --------------------------------
(***************************************************************************)
(* The parts of the library that are small and share nothing with others,  *)
(* for TLC: a behaviour takes one part of Parts and runs it alone, the     *)
(* others stay in one initial state.                                       *)
(***************************************************************************)
EXTENDS SmartPtr, ComPort, Sequences

CONSTANTS Parts                                                    \* what runs
CONSTANTS Nets, Hosts, Handles, NoSocket, Nobody                   \* of NetSend
CONSTANTS Bytes, MaxLen, Keys, Numbers, Radixes                    \* of Codecs
CONSTANTS Keepers, KeeperKeys, Texts, Length, Garbage, MaxPasswords  \* of PasswordKeeper
CONSTANTS Half, Precision, MaxLate, MaxWork, MaxElapsed            \* of TimerClock
CONSTANTS Threads, Ids, Errors, Others, MaxDepth, None             \* of StackTrace
CONSTANTS Variants, Buffers, Values, MaxInt, Unreadable            \* of Variant
CONSTANTS Listening, Receivers, MaxSent, MaxWaiting, All, Nowhere  \* of NetUdp
CONSTANTS Files, NoFile                                            \* of Logger

\* Model values
CONSTANTS p1, p2, p3, o1, o2, n1, n2, h1, h2, s1, s2, s3, k1, k2, short, long
CONSTANTS c1, c2, t1, t2, i1, i2, e1, x1, v1, v2, d1, d2, d3, f1, f2

VARIABLES
  part,                                               \* which part runs
  nets, s_out, connected, out, owner, peer, stale,    \* of NetSend
  job, room, stage, text, answer,                     \* of Codecs
  keepers, m_sLogin, m_sPassword, m_sKey, nPasswords, stored, undefined, given,
                                                      \* of PasswordKeeper
  clock, nTicks, nTimeToSleep, pc, elapsed, ticks,    \* of TimerClock
  id, depth, flying, g_mapStackTrace, passed, left, taken,        \* of StackTrace
  win32, exists, m_szVal, m_nVal, m_dVal, heap, shared, torn, odd,   \* of Variant
  sockets, mayBroadcast, destination, sent, network, waiting, addr, at, got, overtaken, told,
                                                      \* of NetUdp
  onWindows, m_eLogLevel, m_eLogMethod, m_hFile, opened, asked, threw, separator, wrote, wanted
                                                      \* of Logger

Lengths == [t \in Texts |-> IF t = short THEN 1 ELSE 2]

Sender == INSTANCE NetSend
Codec == INSTANCE Codecs
Keeper == INSTANCE PasswordKeeper WITH Keys <- KeeperKeys
Clock == INSTANCE TimerClock
Trace == INSTANCE StackTrace
Value == INSTANCE Variant WITH Null <- NULL
Udp == INSTANCE NetUdp WITH Threads <- Receivers, out <- destination
Log == INSTANCE Logger

ASSUME ClockAssumption == Clock!ClockAssumption
ASSUME SendAssumption == Sender!SendAssumption
ASSUME TraceAssumption == Trace!TraceAssumption
ASSUME VariantAssumption == Value!VariantAssumption
ASSUME CodecAssumption == Codec!CodecAssumption
ASSUME KeeperAssumption == Keeper!KeeperAssumption
ASSUME UdpAssumption == Udp!UdpAssumption
ASSUME LogAssumption == Log!LogAssumption

senderVars == <<nets, s_out, connected, out, owner, peer, stale>>
codecVars == <<job, room, stage, text, answer>>
keeperVars ==
  <<keepers, m_sLogin, m_sPassword, m_sKey, nPasswords, stored, undefined, given>>
clockVars == <<clock, nTicks, nTimeToSleep, pc, elapsed, ticks>>
traceVars == <<id, depth, flying, g_mapStackTrace, passed, left, taken>>
variantVars == <<win32, exists, m_szVal, m_nVal, m_dVal, heap, shared, torn, odd>>
udpVars ==
  <<sockets, mayBroadcast, destination, sent, network, waiting, addr, at, got, overtaken, told>>
logVars ==
  <<onWindows, m_eLogLevel, m_eLogMethod, m_hFile, opened, asked, threw, separator, wrote, wanted>>
allVars ==
  <<part, ptrVars, senderVars, codecVars, keeperVars, clockVars, portVars, traceVars,
    variantVars, udpVars, logVars>>

\* Bytes that differ in every group of bits a base-64 character takes
SomeBytes == {0, 27, 130, 255}

\* Every key of one to three bits
ShortKeys == UNION {[1 .. n -> {0, 1}] : n \in 1 .. 3}

SomeNumbers == -40 .. 40 \cup {255, -255, 65535, 2147483647, -2147483647}

\* For an int up to 3: an integer beyond int, -1.5 and true.  To the assignments a string
\* is a value like -1.5.
SomeValues ==
  {[kind |-> "int", whole |-> 9],
   [kind |-> "double", number |-> -3, form |-> "digits"],
   [kind |-> "bool", whole |-> 1]}

Idle ==
  /\ job = [kind |-> "hex", plain |-> <<>>]
  /\ room = 0 /\ stage = "plain" /\ text = <<>> /\ answer = <<>>

\* Every part starts; of those that do not run one state is chosen.
InitParts ==
  /\ part \in Parts
  /\ Init /\ Keeper!Init /\ Trace!Init
  /\ Value!Init /\ (part # "variants" => win32)
  /\ Sender!Init /\ (part # "sender" => out = [n \in Nets |-> h1])
  /\ IF part = "codecs" THEN Codec!Init ELSE Idle
  /\ Clock!Init /\ (part # "clock" => clock = 0)
  /\ PortInit /\ (part # "port" => platform = "win32")
  /\ Udp!Init /\ (part # "udp" => sockets = {})
  /\ Log!Init /\ (part # "logger" => onWindows)

NextParts ==
  /\ UNCHANGED part
  /\ IF part = "pointers" THEN Next ELSE UNCHANGED ptrVars
  /\ IF part = "sender" THEN Sender!Next ELSE UNCHANGED senderVars
  /\ IF part = "codecs" THEN Codec!Next ELSE UNCHANGED codecVars
  /\ IF part = "keepers" THEN Keeper!Next ELSE UNCHANGED keeperVars
  /\ IF part = "clock" THEN Clock!Next ELSE UNCHANGED clockVars
  /\ IF part = "port" THEN PortNext ELSE UNCHANGED portVars
  /\ IF part = "traces" THEN Trace!Next ELSE UNCHANGED traceVars
  /\ IF part = "variants" THEN Value!Next ELSE UNCHANGED variantVars
  /\ IF part = "udp" THEN Udp!Next ELSE UNCHANGED udpVars
  /\ IF part = "logger" THEN Log!Next ELSE UNCHANGED logVars

SpecParts == InitParts /\ [][NextParts]_allVars

-----------------------------------------------------------------------------
\* The properties of the instances, under names of this module

NoSocketLeak == Sender!NoSocketLeak
ConnectedIsOwn == Sender!ConnectedIsOwn
TextsRoundTrip == Codec!TextsRoundTrip
SecretsRoundTrip == Codec!SecretsRoundTrip
SecretsKept == Keeper!SecretsKept
SleepBounded == Clock!SleepBounded
AtMostTwicePerSecond == Clock!AtMostTwicePerSecond
TraceIsOwn == Trace!TraceIsOwn
TextReadsAsNumbers == Value!TextReadsAsNumbers
FromIsReal == Udp!FromIsReal
LogsWhereAsked == Log!LogsWhereAsked
=============================================================================

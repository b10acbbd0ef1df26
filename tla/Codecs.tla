------------------------------- MODULE Codecs -------------------------------
(***************************************************************************)
(* The conversions of Common.cpp (ToHex and FromHex, itoa, ToBase64 and    *)
(* FromBase64) and the cipher of CPasswordKeeper (Encrypt, Decrypt), and a *)
(* program that writes one value and reads it back.                        *)
(*                                                                         *)
(* A byte is a number below 256.  A character of a text is its place in    *)
(* the table of its encoding.                                              *)
(***************************************************************************)
EXTENDS Integers, Sequences

CONSTANTS
  Bytes,      \* bound: the bytes that occur
  MaxLen,     \* bound: the length of data
  Keys,       \* the keys of CPasswordKeeper, sequences of bits
  Numbers,    \* what itoa is called with; not the least int, whose negation overflows
  Radixes     \* the bases it is called with

\* The greatest int; the least is 0 - GreatestInt - 1.
GreatestInt == 2147483647

\* An assumption on the constants
CodecAssumption ==
  /\ Bytes \subseteq 0 .. 255 /\ MaxLen \in Nat
  /\ \A key \in Keys : key \in Seq({0, 1}) /\ key # <<>>
  /\ \A value \in Numbers : value \in Int /\ 0 - GreatestInt <= value /\ value <= GreatestInt
  /\ Radixes \subseteq Int

VARIABLES
  job,     \* the value to write, how, and what the result may depend on besides it
  room,    \* the size of the buffer it is read back to
  stage,   \* "plain", "written", "read" or "refused"
  text,    \* what was written
  answer   \* what was read

codecVars == <<job, room, stage, text, answer>>

Data(S) == UNION {[1 .. n -> S] : n \in 0 .. MaxLen}

-----------------------------------------------------------------------------
\* ToHex, FromHex

ToHex(data) ==
  [k \in 1 .. 2 * Len(data) |->
     LET c == data[(k + 1) \div 2] IN IF k % 2 = 1 THEN c \div 16 ELSE c % 16]

\* "nDataSize <= nMaxDataSize && !(nStrLen % 2)"
FromHexAccepts(str, nMaxDataSize) == Len(str) \div 2 <= nMaxDataSize /\ Len(str) % 2 = 0

FromHex(str) == [k \in 1 .. Len(str) \div 2 |-> 16 * str[2 * k - 1] + str[2 * k]]

-----------------------------------------------------------------------------
\* ToBase64, FromBase64

Pad == 64

\* The byte at place k; behind the data, whatever is in memory there
At(data, k, behind) == IF k <= Len(data) THEN data[k] ELSE behind[k - Len(data)]

\* mutant of Character: the third character is padded whenever the fourth one is
CharacterPadded(data, behind, i, j) ==
  LET b0 == At(data, i, behind)
      b1 == At(data, i + 1, behind)
      b2 == At(data, i + 2, behind)
  IN  CASE j = 0 -> b0 \div 4
        [] j = 1 -> (b0 % 4) * 16 + (b1 \div 16)
        [] j = 2 -> IF i + 2 <= Len(data) THEN (b1 % 16) * 4 + (b2 \div 64) ELSE Pad
        [] j = 3 -> IF i + 2 <= Len(data) THEN b2 % 64 ELSE Pad

\* Character j of the four that stand for the three bytes from place i: the last bits of
\* the second and the third one may come from behind the data.
Character(data, behind, i, j) ==
  LET b0 == At(data, i, behind)
      b1 == At(data, i + 1, behind)
      b2 == At(data, i + 2, behind)
  IN  CASE j = 0 -> b0 \div 4
        [] j = 1 -> (b0 % 4) * 16 + (b1 \div 16)
        [] j = 2 -> IF i + 1 <= Len(data) THEN (b1 % 16) * 4 + (b2 \div 64) ELSE Pad
        [] j = 3 -> IF i + 2 <= Len(data) THEN b2 % 64 ELSE Pad

ToBase64(data, behind) ==
  [k \in 1 .. ((Len(data) + 2) \div 3) * 4 |->
     Character(data, behind, ((k - 1) \div 4) * 3 + 1, (k - 1) % 4)]

\* acDecTbl is 0 for every character that is not in acEncTbl.
Decoded(c) == IF c = Pad THEN 0 ELSE c

FinalLen(str) == ((Len(str) + 3) \div 4) * 3

TrailsCnt(str) ==
  CHOOSE n \in 0 .. Len(str) :
    /\ \A k \in (Len(str) - n + 1) .. Len(str) : str[k] = Pad
    /\ n < Len(str) => str[Len(str) - n] # Pad

\* Byte j of the three that the characters from place i stand for
Byte(str, i, j) ==
  LET ac == [k \in 0 .. 3 |-> Decoded(str[i + k])]
  IN  CASE j = 0 -> ac[0] * 4 + (ac[1] \div 16)
        [] j = 1 -> (ac[1] % 16) * 16 + (ac[2] \div 4)
        [] j = 2 -> (ac[2] % 4) * 64 + ac[3]

\* The bytes that *pnDataSize keeps; the two additions of Byte are on disjoint bits.
FromBase64(str) ==
  [k \in 1 .. FinalLen(str) - (((TrailsCnt(str) + 1) * 3) \div 4) |->
     Byte(str, ((k - 1) \div 3) * 4 + 1, (k - 1) % 3)]

-----------------------------------------------------------------------------
\* itoa: the loop finds the digits last first, until the quotient is 0; then they are
\* reversed.

Digits(n, base) ==
  LET quot[k \in 0 .. 31] == IF k = 0 THEN n ELSE quot[k - 1] \div base
      count == CHOOSE c \in 1 .. 31 : quot[c] = 0 /\ (c > 1 => quot[c - 1] # 0)
  IN  [k \in 1 .. count |-> quot[count - k] % base]

\* "if (base < 2 || base > 35)": the text stays empty.
AcceptedBases == 2 .. 35

itoa(value, base) ==
  IF base \in AcceptedBases
  THEN [minus |-> value < 0, digits |-> Digits(IF value < 0 THEN 0 - value ELSE value, base)]
  ELSE [minus |-> FALSE, digits |-> <<>>]

\* The number a text in this base stands for; the repository has no function for it.
NumberOf(str, base) ==
  LET v[k \in 0 .. Len(str.digits)] == IF k = 0 THEN 0 ELSE v[k - 1] * base + str.digits[k]
  IN  IF str.minus THEN 0 - v[Len(str.digits)] ELSE v[Len(str.digits)]

-----------------------------------------------------------------------------
\* CPasswordKeeper::Encrypt and Decrypt.  An exclusive or treats every bit of a byte
\* alone: the bytes here have one bit.  Places, as i and j, are numbered from 0.

Xor(a, b) == (a + b) % 2

\* The body of both loops
Mix(x, key, i, j) ==
  [x EXCEPT ![j + 1] = Xor(Xor(@, x[((j + 1) % Len(x)) + 1]), key[((i + j) % Len(key)) + 1])]

Encrypt(x, key) ==
  LET n == Len(x)
      after[k \in 0 .. n * n] ==
        IF k = 0 THEN x ELSE Mix(after[k - 1], key, (k - 1) \div n, (k - 1) % n)
  IN  after[n * n]

\* mutant of Decrypt: a pass goes over the data in the order of Encrypt
DecryptForwards(x, key) ==
  LET n == Len(x)
      after[k \in 0 .. n * n] ==
        IF k = 0 THEN x ELSE Mix(after[k - 1], key, n - 1 - ((k - 1) \div n), (k - 1) % n)
  IN  after[n * n]

Decrypt(x, key) ==
  LET n == Len(x)
      after[k \in 0 .. n * n] ==
        IF k = 0
        THEN x
        ELSE Mix(after[k - 1], key, n - 1 - ((k - 1) \div n), n - 1 - ((k - 1) % n))
  IN  after[n * n]

-----------------------------------------------------------------------------
\* What there is to write: data with the bytes behind it, a number with a base, and a
\* secret with a key
Jobs ==
  [kind : {"hex"}, plain : Data(Bytes)]
    \cup [kind : {"base64"}, plain : Data(Bytes), behind : [1 .. 2 -> Bytes]]
    \cup [kind : {"number"}, plain : Numbers, base : Radixes]
    \cup [kind : {"cipher"}, plain : Data({0, 1}), key : Keys]

Init ==
  /\ job \in Jobs
  /\ room \in {0, MaxLen}
  /\ stage = "plain"
  /\ text = <<>> /\ answer = <<>>

Write(kind, str) ==
  /\ job.kind = kind /\ stage = "plain"
  /\ text' = str
  /\ stage' = "written"
  /\ UNCHANGED <<job, room, answer>>

Read(kind, value) ==
  /\ job.kind = kind /\ stage = "written"
  /\ answer' = value
  /\ stage' = "read"
  /\ UNCHANGED <<job, text>>

WriteHex == Write("hex", ToHex(job.plain))
ReadHex == Read("hex", FromHex(text)) /\ FromHexAccepts(text, room) /\ UNCHANGED room

\* The buffer is zeroed before the length is found to be too large.
RefuseHex ==
  /\ job.kind = "hex" /\ stage = "written"
  /\ ~FromHexAccepts(text, room)
  /\ stage' = "refused"
  /\ UNCHANGED <<job, room, text, answer>>

WriteBase64 == Write("base64", ToBase64(job.plain, job.behind))

\* "*pnDataSize >= nFinalLen"; the size is then that of the data.
ReadBase64 ==
  /\ Read("base64", FromBase64(text))
  /\ room >= FinalLen(text)
  /\ room' = Len(FromBase64(text))

\* The caller is told the size that is needed, and calls again.
RefuseBase64 ==
  /\ job.kind = "base64" /\ stage = "written"
  /\ room < FinalLen(text)
  /\ room' = FinalLen(text)
  /\ UNCHANGED <<job, stage, text, answer>>

WriteNumber == Write("number", itoa(job.plain, job.base))
ReadNumber == Read("number", NumberOf(text, job.base)) /\ UNCHANGED room

WriteSecret == Write("cipher", Encrypt(job.plain, job.key))
ReadSecret == Read("cipher", Decrypt(text, job.key)) /\ UNCHANGED room

Next ==
  \/ WriteHex \/ ReadHex \/ RefuseHex
  \/ WriteBase64 \/ ReadBase64 \/ RefuseBase64
  \/ WriteNumber \/ ReadNumber
  \/ WriteSecret \/ ReadSecret

Spec == Init /\ [][Next]_codecVars

-----------------------------------------------------------------------------
\* Properties

\* What is read back is what was written: bytes from a hexadecimal text and, whatever is
\* in memory behind the data when it is encoded, from a base-64 text, and a number from
\* its digits in any base from 2 to 35.
TextsRoundTrip ==
  stage = "read" /\ job.kind # "cipher" /\ (job.kind = "number" => job.base \in AcceptedBases) =>
    answer = job.plain

\* Decrypt undoes Encrypt with every key, but for a secret of one character: it is its
\* own neighbour, and Encrypt replaces it with a byte of the key.
SecretsRoundTrip ==
  stage = "read" /\ job.kind = "cipher" /\ Len(job.plain) # 1 => answer = job.plain
=============================================================================

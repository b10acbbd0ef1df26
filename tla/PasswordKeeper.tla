--------------------------- MODULE PasswordKeeper ----------------------------
(***************************************************************************)
(* CPasswordKeeper and CPasswordArray: a keeper holds a login and a        *)
(* password, encrypted with a key of its own, and can be written to the    *)
(* registry and read from it.  What the cipher does is Codecs; here a      *)
(* datum is a text together with the key it was encrypted with.            *)
(*                                                                         *)
(* A character is one byte: the project is built for MultiByte.            *)
(*                                                                         *)
(* A step that is undefined in C++ (a remainder modulo a key of size 0, an *)
(* access through a null pointer) ends the behaviour.                      *)
(***************************************************************************)
EXTENDS Naturals

CONSTANTS
  Keepers,
  Texts,          \* logins and passwords
  Length,         \* of each text
  Keys,           \* what GenerateNewKey may give; it may give one twice
  NULL,           \* no data, no key, no text
  Garbage,        \* a text nobody gave
  MaxPasswords    \* bound: the passwords in the array

\* An assumption on the constants
KeeperAssumption ==
  Length \in [Texts -> Nat] /\ NULL \notin Texts /\ Garbage \notin Texts \cup {NULL}

VARIABLES
  keepers,     \* the keepers that exist
  m_sLogin,    \* text, key it is encrypted with, size
  m_sPassword,
  m_sKey,
  nPasswords,  \* entries of the array, copies that nobody changes
  stored,      \* the registry has a value
  undefined,   \* a step was undefined
  given        \* auxiliary: the login and the password a keeper was given last

keeperVars ==
  <<keepers, m_sLogin, m_sPassword, m_sKey, nPasswords, stored, undefined, given>>

data == <<m_sLogin, m_sPassword, m_sKey, given>>

NoData == [text |-> NULL, key |-> NULL, size |-> 0]

Nothing == [login |-> NULL, password |-> NULL]

Init ==
  /\ keepers = {}
  /\ m_sLogin = [k \in Keepers |-> NoData]
  /\ m_sPassword = [k \in Keepers |-> NoData]
  /\ m_sKey = [k \in Keepers |-> NULL]
  /\ nPasswords = 0
  /\ stored = FALSE
  /\ undefined = FALSE
  /\ given = [k \in Keepers |-> Nothing]

-----------------------------------------------------------------------------
\* A text of one character does not survive (Codecs!SecretsRoundTrip).
Encrypted(text, size, key) ==
  [text |-> IF size = 1 THEN Garbage ELSE text, key |-> key, size |-> size]

\* What GetLogin and GetPassword return, NULL being the empty string
Decrypted(s, key) == IF s.text = NULL \/ s.key = key THEN s.text ELSE Garbage

\* "delete [] m_pData, m_pData = NULL"; the size stays.
Freed(s) == [s EXCEPT !.text = NULL, !.key = NULL]

Copied(s) == IF s.text = NULL THEN NoData ELSE s

\* Sizes LoadFromRegistry may find
Sizes == {Length[t] : t \in Texts}

-----------------------------------------------------------------------------
\* A login and a password, a password alone, or none: what the key encrypts.
Replace(k, login, password, key) ==
  /\ m_sKey' = [m_sKey EXCEPT ![k] = key]
  /\ m_sLogin' = [m_sLogin EXCEPT
       ![k] = IF login = NULL THEN Freed(@) ELSE Encrypted(login, Length[login], key)]
  /\ m_sPassword' = [m_sPassword EXCEPT
       ![k] = IF password = NULL THEN Freed(@) ELSE Encrypted(password, Length[password], key)]
  /\ given' = [given EXCEPT ![k] = [login |-> login, password |-> password]]

\* mutant of SetData: a new password alone leaves the login, encrypted with the old key
SetDataLeavesLogin(k, login, password) ==
  /\ k \in keepers
  /\ password = NULL => login = NULL
  /\ \E key \in Keys :
       /\ m_sKey' = [m_sKey EXCEPT ![k] = key]
       /\ m_sLogin' = [m_sLogin EXCEPT
            ![k] = IF login = NULL THEN @ ELSE Encrypted(login, Length[login], key)]
       /\ m_sPassword' = [m_sPassword EXCEPT
            ![k] = IF password = NULL THEN Freed(@)
                   ELSE Encrypted(password, Length[password], key)]
       /\ given' = [given EXCEPT ![k] = [login |-> login, password |-> password]]
  /\ UNCHANGED <<keepers, nPasswords, stored, undefined>>

SetData(k, login, password) ==
  /\ k \in keepers
  /\ password = NULL => login = NULL
  /\ \E key \in Keys : Replace(k, login, password, key)
  /\ UNCHANGED <<keepers, nPasswords, stored, undefined>>

\* The default constructor; the others go on to SetData or operator=.
Construct(k) ==
  /\ k \notin keepers
  /\ keepers' = keepers \cup {k}
  /\ UNCHANGED <<data, nPasswords, stored, undefined>>

\* operator=, also to itself
Assign(k, j) ==
  /\ k \in keepers /\ j \in keepers
  /\ m_sLogin' = [m_sLogin EXCEPT ![k] = Copied(m_sLogin[j])]
  /\ m_sPassword' = [m_sPassword EXCEPT ![k] = Copied(m_sPassword[j])]
  /\ m_sKey' = [m_sKey EXCEPT ![k] = m_sKey[j]]
  /\ given' = [given EXCEPT ![k] = given[j]]
  /\ UNCHANGED <<keepers, nPasswords, stored, undefined>>

Free(k) ==
  /\ k \in keepers
  /\ m_sLogin' = [m_sLogin EXCEPT ![k] = Freed(@)]
  /\ m_sPassword' = [m_sPassword EXCEPT ![k] = Freed(@)]
  /\ m_sKey' = [m_sKey EXCEPT ![k] = NULL]
  /\ given' = [given EXCEPT ![k] = Nothing]
  /\ UNCHANGED <<keepers, nPasswords, stored, undefined>>

\* The destructor calls Free.  The members of the next keeper start anew.
Destroy(k) ==
  /\ k \in keepers
  /\ keepers' = keepers \ {k}
  /\ m_sLogin' = [m_sLogin EXCEPT ![k] = NoData]
  /\ m_sPassword' = [m_sPassword EXCEPT ![k] = NoData]
  /\ m_sKey' = [m_sKey EXCEPT ![k] = NULL]
  /\ given' = [given EXCEPT ![k] = Nothing]
  /\ UNCHANGED <<nPasswords, stored, undefined>>

Undefined ==
  /\ undefined' = TRUE
  /\ UNCHANGED <<keepers, data, nPasswords, stored>>

\* The whole buffer, which is never empty, is encrypted with the key: without one the
\* remainder or the access is undefined.
SaveToRegistry(k) ==
  /\ k \in keepers
  /\ \/ m_sKey[k] = NULL /\ Undefined
     \/ /\ m_sKey[k] # NULL
        /\ stored' = TRUE
        /\ UNCHANGED <<keepers, data, nPasswords, undefined>>

\* LoadFromRegistry takes the buffer for a login and no password: both go, a new key comes,
\* and then NULL is encrypted over the old sizes.
LoadNothing(k) ==
  /\ m_sLogin' = [m_sLogin EXCEPT ![k] = Freed(@)]
  /\ m_sPassword' = [m_sPassword EXCEPT ![k] = Freed(@)]
  /\ \E key \in Keys : m_sKey' = [m_sKey EXCEPT ![k] = key]
  /\ given' = [given EXCEPT ![k] = Nothing]
  /\ undefined' = (m_sLogin[k].size + m_sPassword[k].size > 0)
  /\ UNCHANGED <<keepers, nPasswords, stored>>

\* ... or for a login, maybe empty, and a password
LoadGarbage(k) ==
  /\ \E key \in Keys, n \in Sizes \cup {0}, n1 \in Sizes \ {0} :
       /\ m_sLogin' = [m_sLogin EXCEPT ![k] = Encrypted(Garbage, n, key)]
       /\ m_sPassword' = [m_sPassword EXCEPT ![k] = Encrypted(Garbage, n1, key)]
       /\ m_sKey' = [m_sKey EXCEPT ![k] = key]
  /\ given' = [given EXCEPT ![k] = [login |-> Garbage, password |-> Garbage]]
  /\ UNCHANGED <<keepers, nPasswords, stored, undefined>>

\* The size of the value is asked for and the value never read: what is decrypted and
\* parsed is whatever the buffer held.  It may be refused, which changes nothing.
LoadFromRegistry(k) ==
  /\ k \in keepers /\ stored
  /\ \/ m_sKey[k] = NULL /\ Undefined
     \/ m_sKey[k] # NULL /\ LoadNothing(k)
     \/ m_sKey[k] # NULL /\ LoadGarbage(k)

AddPassword(k) ==
  /\ k \in keepers
  /\ nPasswords < MaxPasswords
  /\ nPasswords' = nPasswords + 1
  /\ UNCHANGED <<keepers, data, stored, undefined>>

\* CPasswordArray::SaveToRegistry saves a keeper that has data and an empty key.
SaveArray == nPasswords > 0 /\ Undefined

\* The vector is cleared, its keepers are not deleted; then a keeper without a key loads.
LoadArray ==
  \/ stored /\ Undefined
  \/ /\ ~stored
     /\ nPasswords' = 0
     /\ UNCHANGED <<keepers, data, stored, undefined>>

Next ==
  /\ ~undefined
  /\ \/ \E k \in Keepers :
          \/ Construct(k) \/ Free(k) \/ Destroy(k)
          \/ SaveToRegistry(k) \/ LoadFromRegistry(k) \/ AddPassword(k)
          \/ \E login, password \in Texts \cup {NULL} : SetData(k, login, password)
          \/ \E j \in Keepers : Assign(k, j)
     \/ SaveArray
     \/ LoadArray

Spec == Init /\ [][Next]_keeperVars

-----------------------------------------------------------------------------
\* No text, or one that is long enough
Kept(text) == text = NULL \/ text \in {t \in Texts : Length[t] # 1}

\* GetLogin and GetPassword return what the keeper was given, whatever was assigned,
\* freed, replaced or read from the registry since, and whichever keys were drawn.  A text
\* of one character is lost.
SecretsKept ==
  \A k \in keepers :
    /\ Kept(given[k].login) => Decrypted(m_sLogin[k], m_sKey[k]) = given[k].login
    /\ Kept(given[k].password) => Decrypted(m_sPassword[k], m_sKey[k]) = given[k].password
=============================================================================

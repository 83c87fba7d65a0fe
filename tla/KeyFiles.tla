------------------------------ MODULE KeyFiles ------------------------------
(***************************************************************************)
(* The two text files of keys: a public profile and an unlock key, as they *)
(* are encoded and parsed in src/src/identity.rs and src/src/format.rs.    *)
(*                                                                         *)
(* A file is written from front to back and read at any moment; programs   *)
(* other than this one edit it.  The content is a sequence of tokens: the  *)
(* header and the labels of the fields, line ends, hexadecimal digits of   *)
(* either case, and any other character.  A key has KeyLen digits.          *)
(***************************************************************************)
EXTENDS Integers, Sequences, FiniteSets

CONSTANTS
  KeyLen,    \* digits of a key
  Hash,      \* Hash[<<i, a>>]: the fingerprint of the keys i and a
  Drawn,     \* the keys that get written to files
  Tokens,    \* what other programs type into a file
  MaxEdits   \* bound on their edits of a file

\* A key as a sequence of the values of its digits.
RawKeys == [1 .. KeyLen -> 0 .. 15]

ASSUME FileKeysAssumption ==
  /\ KeyLen \in Nat \ {0} /\ MaxEdits \in Nat
  /\ Drawn \subseteq RawKeys
  /\ \A i, a \in RawKeys : Hash[<<i, a>>] \in RawKeys

LF == "LF"
CR == "CR"
PROFILE_PREFIX == "sealed-profile-v1"
UNLOCK_PREFIX  == "sealed-unlock-v1"
ALPHABET  == <<"0", "1", "2", "3", "4", "5", "6", "7", "8", "9", "a", "b", "c", "d", "e", "f">>
UpperCase == <<"0", "1", "2", "3", "4", "5", "6", "7", "8", "9", "A", "B", "C", "D", "E", "F">>

VARIABLES
  whole,    \* what the program has set out to write, <<>> before
  made,     \* history: the profile or the key it was made from
  content,  \* what is in the file
  edits     \* history: edits by other programs

fileVars == <<whole, made, content, edits>>

-----------------------------------------------------------------------------
(***************************************************************************)
(* Encoding.                                                               *)
(***************************************************************************)
Line(tokens) == tokens \o <<LF>>

hex_encode(key) == [i \in 1 .. KeyLen |-> ALPHABET[key[i] + 1]]

Profile(i, a) == [identity |-> i, agreement |-> a, fingerprint |-> Hash[<<i, a>>]]

EncodeProfile(p) ==
  Line(<<PROFILE_PREFIX>>)
    \o Line(<<"ed25519=">> \o hex_encode(p.identity))
    \o Line(<<"x25519=">> \o hex_encode(p.agreement))
    \o Line(<<"fingerprint=">> \o hex_encode(p.fingerprint))

Unlock(key) == [unlock |-> key]

EncodeUnlock(u) == Line(<<UNLOCK_PREFIX>>) \o Line(hex_encode(u.unlock))

-----------------------------------------------------------------------------
(***************************************************************************)
(* Parsing.                                                                *)
(***************************************************************************)
Ends(text) == {i \in 1 .. Len(text) : text[i] = LF}

\* How many lines str::lines gives: what follows the last line end is one
\* more, unless it is empty.
LineCount(text) ==
  Cardinality(Ends(text)) + (IF text = <<>> \/ text[Len(text)] = LF THEN 0 ELSE 1)

\* Where the n-th line end is.
LineEnd(text, n) == CHOOSE i \in Ends(text) : Cardinality({j \in Ends(text) : j <= i}) = n

\* Line n without its end, which is LF or CR LF.
LineAt(text, n) ==
  LET first == IF n = 1 THEN 1 ELSE LineEnd(text, n - 1) + 1
      ended == n <= Cardinality(Ends(text))
      line  == SubSeq(text, first, IF ended THEN LineEnd(text, n) - 1 ELSE Len(text))
  IN  IF ended /\ line # <<>> /\ line[Len(line)] = CR
        THEN SubSeq(line, 1, Len(line) - 1)
        ELSE line

\* hex_decode takes digits of either case, and exactly as many as the key has.
Nibbles(t) == {n \in 0 .. 15 : t \in {ALPHABET[n + 1], UpperCase[n + 1]}}

IsHex(tokens) == Len(tokens) = KeyLen /\ \A i \in 1 .. KeyLen : Nibbles(tokens[i]) # {}

hex_decode(tokens) == [i \in 1 .. KeyLen |-> CHOOSE n \in Nibbles(tokens[i]) : TRUE]

IsField(line, label) == line # <<>> /\ Head(line) = label /\ IsHex(Tail(line))

\* A slip of CanonicalProfile: what was parsed is not compared with the bytes.
CanonicalAlways(p, text) == TRUE

\* The last check of PublicProfile::parse.
CanonicalProfile(p, text) == EncodeProfile(p) = text

\* The profiles that PublicProfile::parse returns for the bytes of a file: one
\* or none.
ParsedProfiles(text) ==
  IF /\ LineCount(text) = 4
     /\ LineAt(text, 1) = <<PROFILE_PREFIX>>
     /\ IsField(LineAt(text, 2), "ed25519=")
     /\ IsField(LineAt(text, 3), "x25519=")
     /\ IsField(LineAt(text, 4), "fingerprint=")
    THEN LET key(n) == hex_decode(Tail(LineAt(text, n)))
         IN  {p \in {Profile(key(2), key(3))} :
                p.fingerprint = key(4) /\ CanonicalProfile(p, text)}
    ELSE {}

\* A slip of CanonicalKey.
CanonicalKeyAlways(u, text) == TRUE

\* The last check of parse_unlock_key.
CanonicalKey(u, text) == EncodeUnlock(u) = text

\* The same for parse_unlock_key.
ParsedKeys(text) ==
  IF /\ LineCount(text) = 2
     /\ LineAt(text, 1) = <<UNLOCK_PREFIX>>
     /\ IsHex(LineAt(text, 2))
    THEN {u \in {Unlock(hex_decode(LineAt(text, 2)))} : CanonicalKey(u, text)}
    ELSE {}

-----------------------------------------------------------------------------
(***************************************************************************)
(* A file of keys and what happens to it.                                  *)
(***************************************************************************)
FileInit == whole = <<>> /\ made = Unlock(<<>>) /\ content = <<>> /\ edits = 0

\* write_new_private is called with an encoded profile or unlock key: the file
\* is created empty.
BeginFile ==
  /\ whole = <<>>
  /\ \/ \E i, a \in Drawn : /\ made' = Profile(i, a)
                             /\ whole' = EncodeProfile(Profile(i, a))
     \/ \E key \in Drawn : made' = Unlock(key) /\ whole' = EncodeUnlock(Unlock(key))
  /\ UNCHANGED <<content, edits>>

Written == whole # <<>> /\ (Len(content) = Len(whole) \/ edits > 0)

\* A part of what write_all writes.  The program may stop here for good.
Write ==
  /\ ~Written /\ whole # <<>>
  /\ content' = SubSeq(whole, 1, Len(content) + 1)
  /\ UNCHANGED <<whole, made, edits>>

\* An editor, a mail program or a copy in text mode changes a complete file.
Edit ==
  /\ Written /\ edits < MaxEdits
  /\ edits' = edits + 1
  /\ \E i \in 0 .. Len(content) :
       LET before == SubSeq(content, 1, i)
           after  == SubSeq(content, i + 1, Len(content))
       IN  \/ \E t \in Tokens : content' = before \o <<t>> \o after
           \/ after # <<>> /\ content' = before \o Tail(after)
           \/ after # <<>> /\ \E t \in Tokens : content' = before \o <<t>> \o Tail(after)
  /\ UNCHANGED <<whole, made>>

\* The next file.
AnotherFile ==
  /\ Written
  /\ whole' = <<>> /\ made' = Unlock(<<>>) /\ content' = <<>> /\ edits' = 0

FileNext == BeginFile \/ Write \/ Edit \/ AnotherFile

FileSpec == FileInit /\ [][FileNext]_fileVars

-----------------------------------------------------------------------------
(***************************************************************************)
(* Properties.                                                             *)
(***************************************************************************)

\* A file that is still being written, or whose writing was cut short at any
\* point, is neither a profile nor an unlock key.  This is what the stores
\* call Torn, and what keeps a reader beside a writer from seeing half a key
\* (storage.rs:186, identity.rs:67, 189).
TornNeverParses ==
  edits = 0 /\ content # whole => ParsedProfiles(content) = {} /\ ParsedKeys(content) = {}

\* Every edit is noticed: the bytes the program wrote give back what they were
\* made from, and no other bytes do, whatever line ends, case of digits or
\* further lines they have (identity.rs:47-73, 172-193).
EditsAreSeen ==
  whole # <<>> => (made \in ParsedProfiles(content) \cup ParsedKeys(content) <=> content = whole)
=============================================================================

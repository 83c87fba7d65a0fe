---------------------------- MODULE FormatsProofs ----------------------------
(***************************************************************************)
(* Proofs about KeyFiles, for keys of every length and any fingerprint, and *)
(* about ContactRoots, for any set of keys.                                *)
(***************************************************************************)
EXTENDS KeyFiles, ContactRoots, FiniteSetTheorems, SequenceTheorems, TLAPS

\* What the program writes: digits, line ends, headers and labels.
HexTokens == {ALPHABET[n] : n \in 1 .. 16}
OwnTokens  == HexTokens \cup {LF, PROFILE_PREFIX, UNLOCK_PREFIX, "ed25519=", "x25519=", "fingerprint="}

\* Digits are no line ends and no labels.
LEMMA DigitsAreDigits ==
  /\ LF \notin HexTokens /\ CR \notin OwnTokens
  /\ \A n \in 0 .. 15 : ALPHABET[n + 1] \in HexTokens /\ Nibbles(ALPHABET[n + 1]) = {n}
<1>1. \A n \in 0 .. 15 : ALPHABET[n + 1] \in HexTokens
  BY DEF HexTokens
<1>2. LF \notin HexTokens /\ CR \notin OwnTokens
  BY DEF HexTokens, OwnTokens, LF, CR, ALPHABET, PROFILE_PREFIX, UNLOCK_PREFIX
<1>3. \A n, m \in 0 .. 15 : ALPHABET[n + 1] \in {ALPHABET[m + 1], UpperCase[m + 1]} => m = n
  BY DEF ALPHABET, UpperCase
<1>4. \A n \in 0 .. 15 : Nibbles(ALPHABET[n + 1]) = {n}
  BY <1>3 DEF Nibbles
<1>. QED BY <1>1, <1>2, <1>4

\* A key is written in digits, which are read as the same key.
LEMMA HexRoundTrip ==
  ASSUME NEW key \in RawKeys
  PROVE  /\ hex_encode(key) \in Seq(HexTokens) /\ Len(hex_encode(key)) = KeyLen
         /\ IsHex(hex_encode(key)) /\ hex_decode(hex_encode(key)) = key
<1> USE FileKeysAssumption
<1>1. \A i \in 1 .. KeyLen : key[i] \in 0 .. 15
  BY DEF RawKeys
<1>2. hex_encode(key) \in [1 .. KeyLen -> HexTokens]
  BY <1>1, DigitsAreDigits DEF hex_encode
<1>3. hex_encode(key) \in Seq(HexTokens) /\ Len(hex_encode(key)) = KeyLen
  BY <1>2
<1>4. \A i \in 1 .. KeyLen : Nibbles(hex_encode(key)[i]) = {key[i]}
  BY <1>1, DigitsAreDigits DEF hex_encode
<1>5. IsHex(hex_encode(key))
  BY <1>3, <1>4 DEF IsHex
<1>6. hex_decode(hex_encode(key)) = [i \in 1 .. KeyLen |-> key[i]]
  <2>1. \A i \in 1 .. KeyLen : (CHOOSE n \in Nibbles(hex_encode(key)[i]) : TRUE) = key[i]
    <3> TAKE i \in 1 .. KeyLen
    <3>1. (CHOOSE n \in {key[i]} : TRUE) \in {key[i]}
      OBVIOUS
    <3>. QED BY <1>4, <3>1
  <2>. QED BY <2>1 DEF hex_decode
<1>7. [i \in 1 .. KeyLen |-> key[i]] = key
  BY DEF RawKeys
<1>. QED BY <1>3, <1>5, <1>6, <1>7

\* A file whose line ends are known: how many there are, and which is which.
LEMMA NthLineEnd ==
  ASSUME NEW text, NEW n \in Nat, NEW at \in [1 .. n -> Nat],
         Ends(text) = {at[m] : m \in 1 .. n},
         \A l, m \in 1 .. n : l < m => at[l] < at[m]
  PROVE  /\ Cardinality(Ends(text)) = n
         /\ \A k \in 1 .. n : LineEnd(text, k) = at[k]
<1>1. ASSUME NEW k \in 0 .. n
      PROVE  Cardinality({at[m] : m \in 1 .. k}) = k
  <2> DEFINE S == {at[m] : m \in 1 .. k}
             f == [m \in 1 .. k |-> at[m]]
  <2>1. f \in [1 .. k -> S] /\ \A l, m \in 1 .. k : f[l] = f[m] => l = m
    OBVIOUS
  <2>2. \A s \in S : \E m \in 1 .. k : f[m] = s
    OBVIOUS
  <2> HIDE DEF S, f
  <2>3. f \in Bijection(1 .. k, S)
    BY <2>1, <2>2 DEF Bijection, Injection, Surjection, IsInjective
  <2>4. ExistsBijection(1 .. k, S)
    BY <2>3 DEF ExistsBijection
  <2>5. Cardinality(S) = k
    BY <2>4, FS_CountingElements
  <2>. QED BY <2>5 DEF S
<1>2. ASSUME NEW k \in 1 .. n
      PROVE  {j \in Ends(text) : j <= at[k]} = {at[m] : m \in 1 .. k}
  <2>1. \A m \in 1 .. n : at[m] <= at[k] <=> m <= k
    OBVIOUS
  <2>2. \A m \in 1 .. n : m \in 1 .. k <=> m <= k
    OBVIOUS
  <2>3. \A m \in 1 .. k : m \in 1 .. n
    OBVIOUS
  <2>4. {at[m] : m \in 1 .. k} \subseteq {j \in Ends(text) : j <= at[k]}
    BY <2>1, <2>2, <2>3
  <2>5. {j \in Ends(text) : j <= at[k]} \subseteq {at[m] : m \in 1 .. k}
    BY <2>1, <2>2
  <2>. QED BY <2>4, <2>5
<1>3. \A k \in 1 .. n : Cardinality({j \in Ends(text) : j <= at[k]}) = k
  <2> TAKE k \in 1 .. n
  <2>1. k \in 0 .. n
    OBVIOUS
  <2>. QED BY <1>1, <1>2, <2>1
<1>4. ASSUME NEW k \in 1 .. n PROVE LineEnd(text, k) = at[k]
  <2>1. at[k] \in Ends(text) /\ Cardinality({j \in Ends(text) : j <= at[k]}) = k
    BY <1>3
  <2>2. \A i \in Ends(text) : Cardinality({j \in Ends(text) : j <= i}) = k => i = at[k]
    BY <1>3
  <2>. QED BY <2>1, <2>2 DEF LineEnd
<1>5. n \in 0 .. n
  OBVIOUS
<1>. QED BY <1>1, <1>4, <1>5

(***************************************************************************)
(* The text that lines make, and str::lines, which gives them back.        *)
(***************************************************************************)
Starts(at, k) == IF k = 1 THEN 1 ELSE at[k - 1] + 1

Lined(text, lines) ==
  /\ text \in Seq(OwnTokens) /\ lines \in Seq(Seq(OwnTokens))
  /\ \E at \in [1 .. Len(lines) -> Nat] :
       /\ Ends(text) = {at[m] : m \in 1 .. Len(lines)}
       /\ \A l, m \in 1 .. Len(lines) : l < m => at[l] < at[m]
       /\ Len(text) = IF lines = <<>> THEN 0 ELSE at[Len(lines)]
       /\ \A k \in 1 .. Len(lines) : SubSeq(text, Starts(at, k), at[k] - 1) = lines[k]

LEMMA LinesAreBack ==
  ASSUME NEW text, NEW lines, Lined(text, lines)
  PROVE  /\ LineCount(text) = Len(lines)
         /\ \A k \in 1 .. Len(lines) : LineAt(text, k) = lines[k]
<1> DEFINE n == Len(lines)
<1>1. n \in Nat /\ text \in Seq(OwnTokens) /\ lines \in Seq(Seq(OwnTokens))
  BY DEF Lined
<1>2. PICK at \in [1 .. n -> Nat] :
       /\ Ends(text) = {at[m] : m \in 1 .. n}
       /\ \A l, m \in 1 .. n : l < m => at[l] < at[m]
       /\ Len(text) = IF lines = <<>> THEN 0 ELSE at[n]
       /\ \A k \in 1 .. n : SubSeq(text, Starts(at, k), at[k] - 1) = lines[k]
  BY DEF Lined
<1>3. Cardinality(Ends(text)) = n /\ \A k \in 1 .. n : LineEnd(text, k) = at[k]
  <2> HIDE DEF n
  <2>. QED BY <1>1, <1>2, NthLineEnd
<1>4. LineCount(text) = n
  <2>1. CASE lines = <<>>
    <3>1. text = <<>>
      BY <1>1, <1>2, <2>1
    <3>. QED BY <1>1, <1>3, <3>1 DEF LineCount
  <2>2. CASE lines # <<>>
    <3>1. n \in 1 .. n
      BY <1>1, <2>2
    <3>2. at[n] \in Ends(text) /\ Len(text) = at[n]
      BY <1>2, <2>2, <3>1
    <3>3. text[Len(text)] = LF
      BY <3>2 DEF Ends
    <3>. QED BY <1>1, <1>3, <3>3 DEF LineCount
  <2>. QED BY <2>1, <2>2
<1>5. ASSUME NEW k \in 1 .. n PROVE LineAt(text, k) = lines[k]
  <2> DEFINE line == SubSeq(text, Starts(at, k), at[k] - 1)
  <2>1. line = lines[k] /\ lines[k] \in Seq(OwnTokens)
    BY <1>1, <1>2
  <2>2. k <= Cardinality(Ends(text))
    BY <1>1, <1>3
  <2>3. line # <<>> => line[Len(line)] # CR
    <3> HIDE DEF line
    <3>1. line \in Seq(OwnTokens)
      BY <2>1
    <3>2. line # <<>> => line[Len(line)] \in OwnTokens
      BY <3>1
    <3>. QED BY <3>2, DigitsAreDigits
  <2>4. IF k = 1 THEN Starts(at, k) = 1 ELSE Starts(at, k) = LineEnd(text, k - 1) + 1
    <3>1. k # 1 => k - 1 \in 1 .. n
      BY <1>1
    <3>. QED BY <1>3, <3>1 DEF Starts
  <2>5. LineAt(text, k) = line
    <3>1. LineEnd(text, k) = at[k]
      BY <1>3
    <3>2. line = SubSeq(text, IF k = 1 THEN 1 ELSE LineEnd(text, k - 1) + 1, LineEnd(text, k) - 1)
      BY <2>4, <3>1
    <3> HIDE DEF line
    <3>. QED BY <2>2, <2>3, <3>2 DEF LineAt
  <2>. QED BY <2>1, <2>5
<1>. QED BY <1>4, <1>5

\* A part of the first of two texts, and all of the first part of the second.
LEMMA PartKept ==
  ASSUME NEW S, NEW s \in Seq(S), NEW t \in Seq(S), NEW a \in Nat \ {0}, NEW b \in 0 .. Len(s)
  PROVE  SubSeq(s \o t, a, b) = SubSeq(s, a, b)
<1>1. CASE a <= b
  <2>1. a \in 1 .. Len(s) /\ b \in 1 .. Len(s)
    BY <1>1
  <2>. QED BY <2>1, SubSeqOfConcat1
<1>2. CASE b < a
  <2>1. a \in Int /\ b \in Int
    OBVIOUS
  <2>. QED BY <1>2, <2>1, SubSeqEmpty
<1>. QED BY <1>1, <1>2

LEMMA PartAdded ==
  ASSUME NEW S, NEW s \in Seq(S), NEW t \in Seq(S), NEW u \in Seq(S)
  PROVE  SubSeq(s \o (t \o u), Len(s) + 1, Len(s) + Len(t)) = t
<1>1. Len(s) \in Nat /\ Len(t) \in Nat /\ t \o u \in Seq(S) /\ Len(t \o u) = Len(t) + Len(u) /\ Len(u) \in Nat
  BY ConcatProperties
<1> DEFINE tu == t \o u  m == Len(s) + 1  n == Len(s) + Len(t)
<1>2. m \in Nat /\ n \in Nat
  BY <1>1
<1>3. CASE Len(t) = 0
  <2>1. n < m /\ t = <<>>
    BY <1>1, <1>3
  <2> HIDE DEF m, n
  <2>2. SubSeq(s \o (t \o u), m, n) = <<>>
    BY <1>2, <2>1, SubSeqEmpty
  <2>. QED BY <2>1, <2>2 DEF m, n
<1>4. CASE Len(t) # 0
  <2>1. m \in Len(s) + 1 .. Len(s) + Len(tu) /\ n \in Len(s) + 1 .. Len(s) + Len(tu)
    BY <1>1, <1>4
  <2>2. m - Len(s) = 1 /\ n - Len(s) = Len(t)
    BY <1>1
  <2>3. 1 \in 1 .. Len(t) /\ Len(t) \in 1 .. Len(t)
    BY <1>1, <1>4
  <2>4. SubSeq(tu, 1, Len(t)) = SubSeq(t, 1, Len(t))
    BY <2>3, SubSeqOfConcat1
  <2>5. SubSeq(t, 1, Len(t)) = t
    BY SubSeqFull
  <2> HIDE DEF tu, m, n
  <2>6. SubSeq(s \o tu, m, n) = SubSeq(tu, m - Len(s), n - Len(s))
    BY <1>1, <2>1, SubSeqOfConcat2 DEF tu
  <2>. QED BY <2>2, <2>4, <2>5, <2>6 DEF tu, m, n
<1>. QED BY <1>1, <1>3, <1>4

\* How long two texts are together, and how they begin.
LEMMA Joined ==
  ASSUME NEW S, NEW s \in Seq(S), NEW t \in Seq(S), NEW n \in Nat \ {0}, NEW m \in Nat,
         Len(s) = n, Len(t) = m
  PROVE  s \o t \in Seq(S) /\ Len(s \o t) = n + m /\ (s \o t)[1] = s[1]
<1>1. s \o t \in Seq(S) /\ Len(s \o t) = Len(s) + Len(t)
  BY ConcatProperties
<1>2. \A i \in 1 .. Len(s) + Len(t) : (s \o t)[i] = IF i <= Len(s) THEN s[i] ELSE t[i - Len(s)]
  BY ConcatProperties
<1>3. 1 \in 1 .. Len(s) + Len(t) /\ 1 <= Len(s)
  OBVIOUS
<1>. QED BY <1>1, <1>2, <1>3

\* Where the line ends are when there is one more line.
LEMMA OneMoreEnd ==
  ASSUME NEW text \in Seq(OwnTokens), NEW line \in Seq(OwnTokens \ {LF})
  PROVE  /\ text \o Line(line) \in Seq(OwnTokens)
         /\ Len(text \o Line(line)) = Len(text) + Len(line) + 1
         /\ Ends(text \o Line(line)) = Ends(text) \cup {Len(text) + Len(line) + 1}
<1> DEFINE x == Len(text)  y == Len(line)  ended == Line(line)  new == text \o ended
<1>1. x \in Nat /\ y \in Nat
  OBVIOUS
<1>2. line \in Seq(OwnTokens) /\ \A i \in 1 .. y : line[i] # LF
  <2>1. \A i \in 1 .. y : line[i] \in OwnTokens \ {LF}
    BY ElementOfSeq
  <2>. QED BY <2>1, SeqMonotonic
<1>3. <<LF>> \in Seq(OwnTokens) /\ Len(<<LF>>) = 1
  BY DEF OwnTokens
<1>4. /\ ended \in Seq(OwnTokens) /\ Len(ended) = y + 1
      /\ \A i \in 1 .. y + 1 : ended[i] = IF i <= y THEN line[i] ELSE LF
  BY <1>2, <1>3, ConcatProperties DEF Line
<1> HIDE DEF ended
<1>5. /\ new \in Seq(OwnTokens) /\ Len(new) = x + (y + 1)
      /\ \A i \in 1 .. x + (y + 1) : new[i] = IF i <= x THEN text[i] ELSE ended[i - x]
  <2>1. Len(text) = x /\ x \in Nat /\ y + 1 \in Nat /\ Len(ended) = y + 1
    BY <1>1, <1>4
  <2>2. new \in Seq(OwnTokens) /\ Len(new) = Len(text) + Len(ended)
    BY <1>4, ConcatProperties
  <2>3. \A i \in 1 .. Len(text) + Len(ended) :
          new[i] = IF i <= Len(text) THEN text[i] ELSE ended[i - Len(text)]
    BY <1>4, ConcatProperties
  <2> HIDE DEF new, x, y
  <2>. QED BY <2>1, <2>2, <2>3
<1> HIDE DEF new, x, y
<1>6. \A i \in 1 .. x + (y + 1) : new[i] = LF <=> (i <= x /\ text[i] = LF) \/ i = x + y + 1
  <2> TAKE i \in 1 .. x + (y + 1)
  <2>1. CASE i <= x
    BY <1>1, <1>5, <2>1
  <2>2. CASE ~(i <= x)
    <3>1. i - x \in 1 .. y + 1 /\ (i - x <= y <=> i # x + y + 1)
      BY <1>1, <2>2
    <3>2. new[i] = ended[i - x]
      BY <1>5, <2>2
    <3>3. i - x <= y => i - x \in 1 .. y
      BY <1>1, <3>1
    <3>. QED BY <1>2, <1>4, <2>2, <3>1, <3>2, <3>3
  <2>. QED BY <2>1, <2>2
<1>7. Ends(new) = {i \in 1 .. x + (y + 1) : new[i] = LF}
  BY <1>5 DEF Ends
<1>8. Ends(text) = {i \in 1 .. x : text[i] = LF}
  BY DEF Ends, x
<1>9. Ends(new) = Ends(text) \cup {x + y + 1}
  <2>1. \A i \in 1 .. x + (y + 1) : i <= x => i \in 1 .. x
    BY <1>1
  <2>2. x + y + 1 \in 1 .. x + (y + 1) /\ \A i \in 1 .. x : i \in 1 .. x + (y + 1) /\ i <= x
    BY <1>1
  <2>3. Ends(new) \subseteq Ends(text) \cup {x + y + 1}
    BY <1>6, <1>7, <1>8, <2>1
  <2>4. Ends(text) \cup {x + y + 1} \subseteq Ends(new)
    BY <1>6, <1>7, <1>8, <2>2
  <2>. QED BY <2>3, <2>4
<1>10. x + (y + 1) = x + y + 1
  BY <1>1
<1>. QED BY <1>5, <1>9, <1>10 DEF new, ended, x, y

\* One more line.
LEMMA OneMoreLine ==
  ASSUME NEW text, NEW lines, Lined(text, lines),
         NEW line \in Seq(OwnTokens \ {LF}),
         NEW more \in Seq(Seq(OwnTokens)), Len(more) = Len(lines) + 1,
         more[Len(lines) + 1] = line, \A k \in 1 .. Len(lines) : more[k] = lines[k]
  PROVE  Lined(text \o Line(line), more)
<1> DEFINE n == Len(lines)  new == text \o Line(line)  x == Len(text)  y == Len(line)
<1>1. n \in Nat /\ text \in Seq(OwnTokens) /\ lines \in Seq(Seq(OwnTokens)) /\ x \in Nat /\ y \in Nat
  BY DEF Lined
<1>2. PICK at \in [1 .. n -> Nat] :
       /\ Ends(text) = {at[m] : m \in 1 .. n}
       /\ \A l, m \in 1 .. n : l < m => at[l] < at[m]
       /\ x = IF lines = <<>> THEN 0 ELSE at[n]
       /\ \A k \in 1 .. n : SubSeq(text, Starts(at, k), at[k] - 1) = lines[k]
  BY DEF Lined
<1>3. /\ new \in Seq(OwnTokens) /\ Len(new) = x + y + 1
      /\ Ends(new) = Ends(text) \cup {x + y + 1}
  BY <1>1, OneMoreEnd
<1>4. lines = <<>> <=> n = 0
  BY <1>1
<1>5. \A m \in 1 .. n : at[m] \in 1 .. x
  BY <1>2 DEF Ends
<1>6. ASSUME NEW k \in 1 .. n, NEW a \in Nat \ {0}, NEW b \in 0 .. x
      PROVE  SubSeq(new, a, b) = SubSeq(text, a, b)
  <2>1. Line(line) \in Seq(OwnTokens)
    <3>1. line \in Seq(OwnTokens) /\ <<LF>> \in Seq(OwnTokens)
      BY SeqMonotonic DEF OwnTokens
    <3>. QED BY <3>1, ConcatProperties DEF Line
  <2>. QED BY <1>1, <2>1, PartKept
<1>7. SubSeq(new, x + 1, x + y) = line
  <2>1. line \in Seq(OwnTokens) /\ <<LF>> \in Seq(OwnTokens)
    BY SeqMonotonic DEF OwnTokens
  <2>. QED BY <1>1, <2>1, PartAdded DEF Line
<1>8. /\ more \in Seq(Seq(OwnTokens)) /\ Len(more) = n + 1 /\ more[n + 1] = line
      /\ \A k \in 1 .. n : more[k] = lines[k]
  OBVIOUS
<1> HIDE DEF new, x, y, n
<1>. SUFFICES ASSUME TRUE PROVE Lined(new, more)
  BY DEF new
<1> DEFINE far == [m \in 1 .. n + 1 |-> IF m = n + 1 THEN x + y + 1 ELSE at[m]]
<1>9. \A m \in 1 .. n + 1 : m = n + 1 \/ m \in 1 .. n
  BY <1>1
<1>10. n + 1 \in 1 .. n + 1 /\ \A m \in 1 .. n : m \in 1 .. n + 1 /\ m # n + 1
  BY <1>1
<1>11. /\ far \in [1 .. n + 1 -> Nat] /\ far[n + 1] = x + y + 1
       /\ \A m \in 1 .. n : far[m] = at[m]
  <2>1. x + y + 1 \in Nat
    BY <1>1
  <2>2. \A m \in 1 .. n : at[m] \in Nat
    BY <1>2
  <2>. QED BY <1>9, <1>10, <2>1, <2>2
<1> HIDE DEF far
<1>12. Ends(new) = {far[m] : m \in 1 .. n + 1}
  <2>1. {far[m] : m \in 1 .. n + 1} \subseteq Ends(new)
    BY <1>2, <1>3, <1>9, <1>11
  <2>2. Ends(new) \subseteq {far[m] : m \in 1 .. n + 1}
    BY <1>2, <1>3, <1>10, <1>11
  <2>. QED BY <2>1, <2>2
<1>13. ASSUME NEW l \in 1 .. n + 1, NEW m \in 1 .. n + 1, l < m PROVE far[l] < far[m]
  <2>1. l \in 1 .. n
    BY <1>1, <1>13
  <2>2. CASE m = n + 1
    <3>1. far[l] \in 1 .. x /\ far[m] = x + y + 1
      BY <1>5, <1>11, <2>1, <2>2
    <3>. QED BY <1>1, <3>1
  <2>3. CASE m \in 1 .. n
    BY <1>2, <1>11, <1>13, <2>1, <2>3
  <2>. QED BY <1>9, <2>2, <2>3
<1>14. ASSUME NEW k \in 1 .. n + 1
       PROVE  SubSeq(new, Starts(far, k), far[k] - 1) = more[k]
  <2>1. CASE k \in 1 .. n
    <3> DEFINE a == Starts(at, k)  b == at[k] - 1
    <3>1. k # 1 => k - 1 \in 1 .. n
      BY <1>1, <2>1
    <3>2. a \in Nat \ {0} /\ Starts(far, k) = a
      BY <1>2, <1>11, <3>1 DEF Starts
    <3>3. at[k] \in 1 .. x
      BY <1>5, <2>1
    <3>4. b \in 0 .. x
      BY <1>1, <3>3
    <3>5. far[k] - 1 = b
      BY <1>11, <2>1
    <3>6. SubSeq(text, a, b) = more[k]
      BY <1>2, <1>8, <2>1
    <3> HIDE DEF a, b
    <3>. QED BY <1>6, <2>1, <3>2, <3>4, <3>5, <3>6
  <2>2. CASE k = n + 1
    <3>1. k # 1 => k - 1 = n /\ n \in 1 .. n /\ n # 0
      BY <1>1, <2>2
    <3>2. k = 1 => n = 0
      BY <1>1, <2>2
    <3>3. Starts(far, k) = x + 1
      BY <1>2, <1>4, <1>11, <3>1, <3>2 DEF Starts
    <3>4. far[k] - 1 = x + y
      BY <1>1, <1>11, <2>2
    <3>. QED BY <1>7, <1>8, <2>2, <3>3, <3>4
  <2>. QED BY <1>9, <2>1, <2>2
<1>15. more # <<>> /\ Len(new) = far[n + 1]
  BY <1>1, <1>3, <1>8, <1>11
<1>. QED BY <1>1, <1>3, <1>8, <1>11, <1>12, <1>13, <1>14, <1>15 DEF Lined

-----------------------------------------------------------------------------
(***************************************************************************)
(* What the program writes is read as what it was made from, and nothing   *)
(* else is: the parsers are the inverses of the encoders.                  *)
(***************************************************************************)
NoLines == <<>>

LEMMA NothingLined == Lined(<<>>, NoLines)
<1>1. Ends(<<>>) = {} /\ <<>> \in Seq(OwnTokens) /\ NoLines \in Seq(Seq(OwnTokens)) /\ Len(NoLines) = 0
  BY DEF Ends, NoLines
<1> DEFINE at == [m \in 1 .. Len(NoLines) |-> 0]
<1>2. at \in [1 .. Len(NoLines) -> Nat] /\ 1 .. Len(NoLines) = {}
  BY <1>1
<1> HIDE DEF at
<1>3. /\ Ends(<<>>) = {at[m] : m \in 1 .. Len(NoLines)}
      /\ \A l, m \in 1 .. Len(NoLines) : l < m => at[l] < at[m]
      /\ \A k \in 1 .. Len(NoLines) : SubSeq(<<>>, Starts(at, k), at[k] - 1) = NoLines[k]
  BY <1>1, <1>2
<1>4. Len(<<>>) = IF NoLines = <<>> THEN 0 ELSE at[Len(NoLines)]
  BY DEF NoLines
<1>. QED BY <1>1, <1>2, <1>3, <1>4 DEF Lined

\* A header, and a label with a key, are lines.
LEMMA LinesOfFiles ==
  /\ <<PROFILE_PREFIX>> \in Seq(OwnTokens \ {LF}) /\ <<UNLOCK_PREFIX>> \in Seq(OwnTokens \ {LF})
  /\ \A key \in RawKeys : hex_encode(key) \in Seq(OwnTokens \ {LF})
  /\ \A key \in RawKeys, label \in {"ed25519=", "x25519=", "fingerprint="} :
       LET line == <<label>> \o hex_encode(key)
       IN  /\ line \in Seq(OwnTokens \ {LF}) /\ Len(line) = KeyLen + 1
           /\ IsField(line, label) /\ Tail(line) = hex_encode(key)
<1> DEFINE S == OwnTokens \ {LF}
<1>1. HexTokens \subseteq S
  BY DigitsAreDigits DEF OwnTokens
<1>2. {"ed25519=", "x25519=", "fingerprint=", PROFILE_PREFIX, UNLOCK_PREFIX} \subseteq S
  BY DEF OwnTokens, LF, PROFILE_PREFIX, UNLOCK_PREFIX
<1> HIDE DEF S
<1>3. \A key \in RawKeys : hex_encode(key) \in Seq(S) /\ Len(hex_encode(key)) = KeyLen
  BY <1>1, HexRoundTrip, SeqMonotonic
<1>4. ASSUME NEW key \in RawKeys, NEW label \in {"ed25519=", "x25519=", "fingerprint="}
      PROVE  LET line == <<label>> \o hex_encode(key)
             IN  /\ line \in Seq(S) /\ Len(line) = KeyLen + 1
                 /\ IsField(line, label) /\ Tail(line) = hex_encode(key)
  <2> DEFINE h == hex_encode(key)  line == <<label>> \o h
  <2>1. h \in Seq(S) /\ Len(h) = KeyLen /\ IsHex(h) /\ KeyLen \in Nat
    BY <1>3, HexRoundTrip, FileKeysAssumption
  <2> HIDE DEF h
  <2>2. <<label>> \in Seq(S) /\ Len(<<label>>) = 1
    BY <1>2
  <2>3. /\ line \in Seq(S) /\ Len(line) = 1 + KeyLen
        /\ \A i \in 1 .. 1 + KeyLen : line[i] = IF i <= 1 THEN <<label>>[i] ELSE h[i - 1]
    BY <2>1, <2>2, ConcatProperties
  <2> HIDE DEF line
  <2>4. line # <<>> /\ Head(line) = label
    BY <2>1, <2>3
  <2>5. /\ Tail(line) \in Seq(S) /\ Len(Tail(line)) = Len(h)
        /\ \A i \in 1 .. Len(h) : Tail(line)[i] = h[i]
    <3>1. /\ Tail(line) \in Seq(S) /\ Len(Tail(line)) = Len(line) - 1
          /\ \A i \in 1 .. Len(line) - 1 : Tail(line)[i] = line[i + 1]
      BY <2>3, <2>4, HeadTailProperties
    <3>2. \A i \in 1 .. KeyLen : i + 1 \in 1 .. 1 + KeyLen /\ ~(i + 1 <= 1) /\ i + 1 - 1 = i
      BY <2>1
    <3>. QED BY <2>1, <2>3, <3>1, <3>2
  <2>6. Tail(line) = h
    BY <2>1, <2>5, SeqEqual
  <2>7. IsField(line, label)
    BY <2>1, <2>4, <2>6 DEF IsField
  <2>. QED BY <2>1, <2>3, <2>6, <2>7 DEF h, line
<1>. QED BY <1>2, <1>3, <1>4 DEF S

\* PublicProfile::parse accepts what PublicProfile::encode gives.
LEMMA ProfileIsRead ==
  ASSUME NEW i \in RawKeys, NEW a \in RawKeys
  PROVE  Profile(i, a) \in ParsedProfiles(EncodeProfile(Profile(i, a)))
<1> DEFINE f  == Hash[<<i, a>>]
           l1 == <<PROFILE_PREFIX>>
           l2 == <<"ed25519=">> \o hex_encode(i)
           l3 == <<"x25519=">> \o hex_encode(a)
           l4 == <<"fingerprint=">> \o hex_encode(f)
           t1 == <<>> \o Line(l1)
           t2 == t1 \o Line(l2)
           t3 == t2 \o Line(l3)
           t4 == t3 \o Line(l4)
           s1 == <<l1>>
           s2 == <<l1, l2>>
           s3 == <<l1, l2, l3>>
           s4 == <<l1, l2, l3, l4>>
           text == EncodeProfile(Profile(i, a))
<1>1. f \in RawKeys
  BY FileKeysAssumption
<1>2. /\ l1 \in Seq(OwnTokens \ {LF}) /\ l2 \in Seq(OwnTokens \ {LF})
      /\ l3 \in Seq(OwnTokens \ {LF}) /\ l4 \in Seq(OwnTokens \ {LF})
      /\ IsField(l2, "ed25519=") /\ IsField(l3, "x25519=") /\ IsField(l4, "fingerprint=")
      /\ Tail(l2) = hex_encode(i) /\ Tail(l3) = hex_encode(a) /\ Tail(l4) = hex_encode(f)
  <2> HIDE DEF f
  <2>. QED BY <1>1, LinesOfFiles
<1>3. text = t4
  <2>1. Line(l1) = t1
    <3>1. Line(l1) \in Seq(OwnTokens)
      BY DEF Line, OwnTokens
    <3>. QED BY <3>1, ConcatEmptySeq
  <2>2. text = ((Line(l1) \o Line(l2)) \o Line(l3)) \o Line(l4)
    BY DEF EncodeProfile, Profile
  <2>. QED BY <2>1, <2>2
<1>4. /\ Len(s1) = 1 /\ s1[1] = l1
      /\ Len(s2) = 2 /\ s2[1] = l1 /\ s2[2] = l2
      /\ Len(s3) = 3 /\ s3[1] = l1 /\ s3[2] = l2 /\ s3[3] = l3
      /\ Len(s4) = 4 /\ s4[1] = l1 /\ s4[2] = l2 /\ s4[3] = l3 /\ s4[4] = l4
  <2> HIDE DEF l1, l2, l3, l4
  <2>. QED OBVIOUS
<1>5. Lined(text, s4)
  <2> HIDE DEF l1, l2, l3, l4, f, text
  <2>1. l1 \in Seq(OwnTokens) /\ l2 \in Seq(OwnTokens) /\ l3 \in Seq(OwnTokens) /\ l4 \in Seq(OwnTokens)
    BY <1>2, SeqMonotonic
  <2>2. /\ s1 \in Seq(Seq(OwnTokens)) /\ s2 \in Seq(Seq(OwnTokens))
        /\ s3 \in Seq(Seq(OwnTokens)) /\ s4 \in Seq(Seq(OwnTokens))
    BY <2>1
  <2> HIDE DEF s1, s2, s3, s4
  <2>3. /\ Len(s1) = Len(NoLines) + 1 /\ s1[Len(NoLines) + 1] = l1
        /\ \A k \in 1 .. Len(NoLines) : s1[k] = NoLines[k]
    BY <1>4 DEF NoLines
  <2>4. /\ Len(s2) = Len(s1) + 1 /\ s2[Len(s1) + 1] = l2
        /\ \A k \in 1 .. Len(s1) : s2[k] = s1[k]
    BY <1>4
  <2>5. /\ Len(s3) = Len(s2) + 1 /\ s3[Len(s2) + 1] = l3
        /\ \A k \in 1 .. Len(s2) : s3[k] = s2[k]
    BY <1>4
  <2>6. /\ Len(s4) = Len(s3) + 1 /\ s4[Len(s3) + 1] = l4
        /\ \A k \in 1 .. Len(s3) : s4[k] = s3[k]
    BY <1>4
  <2>7. Lined(t1, s1)
    BY <1>2, <2>2, <2>3, NothingLined, OneMoreLine
  <2> HIDE DEF t1
  <2>8. Lined(t2, s2)
    BY <1>2, <2>2, <2>4, <2>7, OneMoreLine
  <2> HIDE DEF t2
  <2>9. Lined(t3, s3)
    BY <1>2, <2>2, <2>5, <2>8, OneMoreLine
  <2> HIDE DEF t3
  <2>10. Lined(t4, s4)
    BY <1>2, <2>2, <2>6, <2>9, OneMoreLine
  <2>. QED BY <1>3, <2>10
<1> HIDE DEF l1, l2, l3, l4, t1, t2, t3, t4, s1, s2, s3, s4, f, text
<1>6. /\ LineCount(text) = 4 /\ LineAt(text, 1) = l1 /\ LineAt(text, 2) = l2
      /\ LineAt(text, 3) = l3 /\ LineAt(text, 4) = l4
  <2>1. LineCount(text) = Len(s4) /\ \A k \in 1 .. Len(s4) : LineAt(text, k) = s4[k]
    BY <1>5, LinesAreBack
  <2>2. Len(s4) = 4 /\ 1 \in 1 .. 4 /\ 2 \in 1 .. 4 /\ 3 \in 1 .. 4 /\ 4 \in 1 .. 4
    BY <1>4
  <2>. QED BY <1>4, <2>1, <2>2
<1>7. /\ hex_decode(Tail(LineAt(text, 2))) = i /\ hex_decode(Tail(LineAt(text, 3))) = a
      /\ hex_decode(Tail(LineAt(text, 4))) = f
  BY <1>1, <1>2, <1>6, HexRoundTrip
<1>8. Profile(i, a).fingerprint = f
  BY DEF Profile, f
<1>9. CanonicalProfile(Profile(i, a), text)
  BY DEF CanonicalProfile, text
<1>. QED
  <2>1. Profile(i, a) \in ParsedProfiles(text)
    BY <1>2, <1>6, <1>7, <1>8, <1>9 DEF ParsedProfiles, l1
  <2>. QED BY <2>1 DEF text

\* parse_unlock_key accepts what encode_unlock_key gives.
LEMMA UnlockIsRead ==
  ASSUME NEW key \in RawKeys
  PROVE  Unlock(key) \in ParsedKeys(EncodeUnlock(Unlock(key)))
<1> DEFINE l1 == <<UNLOCK_PREFIX>>
           l2 == hex_encode(key)
           t1 == <<>> \o Line(l1)
           t2 == t1 \o Line(l2)
           s1 == <<l1>>
           s2 == <<l1, l2>>
           text == EncodeUnlock(Unlock(key))
<1>1. l1 \in Seq(OwnTokens \ {LF}) /\ l2 \in Seq(OwnTokens \ {LF})
  BY LinesOfFiles
<1>2. text = t2
  <2>1. Line(l1) = t1
    <3>1. Line(l1) \in Seq(OwnTokens)
      BY DEF Line, OwnTokens
    <3>. QED BY <3>1, ConcatEmptySeq
  <2>2. text = Line(l1) \o Line(l2)
    BY DEF EncodeUnlock, Unlock
  <2>. QED BY <2>1, <2>2
<1>3. Len(s1) = 1 /\ s1[1] = l1 /\ Len(s2) = 2 /\ s2[1] = l1 /\ s2[2] = l2
  <2> HIDE DEF l1, l2
  <2>. QED OBVIOUS
<1>4. Lined(text, s2)
  <2> HIDE DEF l1, l2, text
  <2>1. l1 \in Seq(OwnTokens) /\ l2 \in Seq(OwnTokens)
    BY <1>1, SeqMonotonic
  <2>2. s1 \in Seq(Seq(OwnTokens)) /\ s2 \in Seq(Seq(OwnTokens))
    BY <2>1
  <2> HIDE DEF s1, s2
  <2>3. /\ Len(s1) = Len(NoLines) + 1 /\ s1[Len(NoLines) + 1] = l1
        /\ \A k \in 1 .. Len(NoLines) : s1[k] = NoLines[k]
    BY <1>3 DEF NoLines
  <2>4. /\ Len(s2) = Len(s1) + 1 /\ s2[Len(s1) + 1] = l2
        /\ \A k \in 1 .. Len(s1) : s2[k] = s1[k]
    BY <1>3
  <2>5. Lined(t1, s1)
    BY <1>1, <2>2, <2>3, NothingLined, OneMoreLine
  <2> HIDE DEF t1
  <2>6. Lined(t2, s2)
    BY <1>1, <2>2, <2>4, <2>5, OneMoreLine
  <2>. QED BY <1>2, <2>6
<1> HIDE DEF t1, t2, s1, s2, text
<1>5. LineCount(text) = 2 /\ LineAt(text, 1) = l1 /\ LineAt(text, 2) = l2
  <2> HIDE DEF l1, l2
  <2>. QED BY <1>3, <1>4, LinesAreBack
<1>6. IsHex(l2) /\ hex_decode(l2) = key
  BY HexRoundTrip
<1>7. CanonicalKey(Unlock(key), text)
  BY DEF CanonicalKey, text
<1> HIDE DEF l2
<1>. QED
  <2>1. Unlock(key) \in ParsedKeys(text)
    BY <1>5, <1>6, <1>7 DEF ParsedKeys
  <2>. QED BY <2>1 DEF text

\* How long the files are, and how they begin.
LEMMA EncodedLengths ==
  /\ \A i, a \in RawKeys : LET text == EncodeProfile(Profile(i, a))
                           IN  /\ text \in Seq(OwnTokens) /\ Len(text) = 3 * KeyLen + 8
                               /\ text[1] = PROFILE_PREFIX
  /\ \A key \in RawKeys : LET text == EncodeUnlock(Unlock(key))
                          IN  /\ text \in Seq(OwnTokens) /\ Len(text) = KeyLen + 3
                              /\ text[1] = UNLOCK_PREFIX
<1>1. KeyLen \in Nat
  BY FileKeysAssumption
<1>2. ASSUME NEW line \in Seq(OwnTokens \ {LF})
      PROVE  /\ Line(line) \in Seq(OwnTokens) /\ Len(Line(line)) = Len(line) + 1
             /\ Len(line) # 0 => Line(line)[1] = line[1]
  <2>1. line \in Seq(OwnTokens)
    BY SeqMonotonic
  <2>2. <<LF>> \in Seq(OwnTokens)
    BY DEF OwnTokens
  <2>3. Len(line) # 0 => 1 \in 1 .. Len(line) + 1 /\ 1 <= Len(line)
    BY <2>1
  <2>. QED BY <2>1, <2>2, <2>3, ConcatProperties DEF Line
<1>3. ASSUME NEW i \in RawKeys, NEW a \in RawKeys
      PROVE  LET text == EncodeProfile(Profile(i, a))
             IN  /\ text \in Seq(OwnTokens) /\ Len(text) = 3 * KeyLen + 8
                 /\ text[1] = PROFILE_PREFIX
  <2> DEFINE f  == Hash[<<i, a>>]
             l1 == Line(<<PROFILE_PREFIX>>)
             l2 == Line(<<"ed25519=">> \o hex_encode(i))
             l3 == Line(<<"x25519=">> \o hex_encode(a))
             l4 == Line(<<"fingerprint=">> \o hex_encode(f))
  <2>1. f \in RawKeys
    BY FileKeysAssumption
  <2>2. EncodeProfile(Profile(i, a)) = ((l1 \o l2) \o l3) \o l4
    BY DEF EncodeProfile, Profile
  <2> HIDE DEF f
  <2>3. /\ l1 \in Seq(OwnTokens) /\ Len(l1) = 2 /\ l1[1] = PROFILE_PREFIX
        /\ l2 \in Seq(OwnTokens) /\ Len(l2) = KeyLen + 2
        /\ l3 \in Seq(OwnTokens) /\ Len(l3) = KeyLen + 2
        /\ l4 \in Seq(OwnTokens) /\ Len(l4) = KeyLen + 2
    <3> DEFINE header == <<PROFILE_PREFIX>>
    <3>0. header \in Seq(OwnTokens \ {LF})
      BY LinesOfFiles
    <3>1. Len(header) = 1 /\ header[1] = PROFILE_PREFIX
      OBVIOUS
    <3> HIDE DEF header
    <3>2. l1 \in Seq(OwnTokens) /\ Len(l1) = 2 /\ l1[1] = PROFILE_PREFIX
      <4>1. Line(header) \in Seq(OwnTokens) /\ Len(Line(header)) = Len(header) + 1
        BY <1>2, <3>0
      <4>2. Len(header) # 0
        BY <3>1
      <4>3. Line(header)[1] = header[1]
        BY <1>2, <3>0, <4>2
      <4>. QED BY <3>1, <4>1, <4>3 DEF header
    <3>3. ASSUME NEW key \in RawKeys, NEW label \in {"ed25519=", "x25519=", "fingerprint="}
          PROVE  LET line == Line(<<label>> \o hex_encode(key))
                 IN  line \in Seq(OwnTokens) /\ Len(line) = KeyLen + 2
      <4> DEFINE field == <<label>> \o hex_encode(key)
      <4>1. field \in Seq(OwnTokens \ {LF}) /\ Len(field) = KeyLen + 1
        BY LinesOfFiles
      <4> HIDE DEF field
      <4>2. Line(field) \in Seq(OwnTokens) /\ Len(Line(field)) = KeyLen + 2
        BY <1>1, <1>2, <4>1
      <4>. QED BY <4>2 DEF field
    <3>. QED BY <2>1, <3>2, <3>3
  <2> HIDE DEF l1, l2, l3, l4
  <2> DEFINE t2 == l1 \o l2  t3 == t2 \o l3  t4 == t3 \o l4
  <2>4. t2 \in Seq(OwnTokens) /\ Len(t2) = KeyLen + 4 /\ t2[1] = PROFILE_PREFIX
    <3>1. Len(l1) \in Nat \ {0} /\ Len(l2) \in Nat
      BY <1>1, <2>3
    <3>2. t2 \in Seq(OwnTokens) /\ Len(t2) = Len(l1) + Len(l2) /\ t2[1] = l1[1]
      BY <2>3, <3>1, Joined
    <3>. QED BY <1>1, <2>3, <3>2
  <2> HIDE DEF t2
  <2>5. t3 \in Seq(OwnTokens) /\ Len(t3) = 2 * KeyLen + 6 /\ t3[1] = PROFILE_PREFIX
    <3>1. KeyLen + 2 \in Nat /\ KeyLen + 4 \in Nat \ {0} /\ (KeyLen + 4) + (KeyLen + 2) = 2 * KeyLen + 6
      BY <1>1
    <3>. QED BY <2>3, <2>4, <3>1, Joined
  <2> HIDE DEF t3
  <2>6. t4 \in Seq(OwnTokens) /\ Len(t4) = 3 * KeyLen + 8 /\ t4[1] = PROFILE_PREFIX
    <3>1. /\ KeyLen + 2 \in Nat /\ 2 * KeyLen + 6 \in Nat \ {0}
          /\ (2 * KeyLen + 6) + (KeyLen + 2) = 3 * KeyLen + 8
      BY <1>1
    <3>. QED BY <2>3, <2>5, <3>1, Joined
  <2>. QED BY <2>2, <2>6 DEF t2, t3
<1>4. ASSUME NEW key \in RawKeys
      PROVE  LET text == EncodeUnlock(Unlock(key))
             IN  /\ text \in Seq(OwnTokens) /\ Len(text) = KeyLen + 3
                 /\ text[1] = UNLOCK_PREFIX
  <2> DEFINE l1 == Line(<<UNLOCK_PREFIX>>)  l2 == Line(hex_encode(key))
  <2>1. EncodeUnlock(Unlock(key)) = l1 \o l2
    BY DEF EncodeUnlock, Unlock
  <2>2. /\ l1 \in Seq(OwnTokens) /\ Len(l1) = 2 /\ l1[1] = UNLOCK_PREFIX
        /\ l2 \in Seq(OwnTokens) /\ Len(l2) = KeyLen + 1
    <3> DEFINE header == <<UNLOCK_PREFIX>>
    <3>0. header \in Seq(OwnTokens \ {LF})
      BY LinesOfFiles
    <3>1. Len(header) = 1 /\ header[1] = UNLOCK_PREFIX
      OBVIOUS
    <3> HIDE DEF header
    <3>2. l1 \in Seq(OwnTokens) /\ Len(l1) = 2 /\ l1[1] = UNLOCK_PREFIX
      <4>1. Line(header) \in Seq(OwnTokens) /\ Len(Line(header)) = Len(header) + 1
        BY <1>2, <3>0
      <4>2. Len(header) # 0
        BY <3>1
      <4>3. Line(header)[1] = header[1]
        BY <1>2, <3>0, <4>2
      <4>. QED BY <3>1, <4>1, <4>3 DEF header
    <3>3. hex_encode(key) \in Seq(OwnTokens \ {LF}) /\ Len(hex_encode(key)) = KeyLen
      BY LinesOfFiles, HexRoundTrip
    <3>. QED BY <1>2, <3>2, <3>3
  <2> HIDE DEF l1, l2
  <2> DEFINE text == l1 \o l2
  <2>3. text \in Seq(OwnTokens) /\ Len(text) = KeyLen + 3 /\ text[1] = UNLOCK_PREFIX
    <3>1. Len(l1) \in Nat \ {0} /\ Len(l2) \in Nat
      BY <1>1, <2>2
    <3>2. text \in Seq(OwnTokens) /\ Len(text) = Len(l1) + Len(l2) /\ text[1] = l1[1]
      BY <2>2, <3>1, Joined
    <3>. QED BY <1>1, <2>2, <3>2
  <2>. QED BY <2>1, <2>3
<1>. QED BY <1>3, <1>4

\* What is read as a profile or as an unlock key was encoded from it.
LEMMA ParsedIsEncoded ==
  ASSUME NEW text
  PROVE  /\ \A p \in ParsedProfiles(text) :
              /\ \E i, a \in RawKeys : p = Profile(i, a)
              /\ text = EncodeProfile(p)
         /\ \A u \in ParsedKeys(text) :
              /\ \E key \in RawKeys : u = Unlock(key)
              /\ text = EncodeUnlock(u)
<1>1. ASSUME NEW tokens, IsHex(tokens) PROVE hex_decode(tokens) \in RawKeys
  <2>1. \A i \in 1 .. KeyLen : (CHOOSE n \in Nibbles(tokens[i]) : TRUE) \in 0 .. 15
    <3> TAKE i \in 1 .. KeyLen
    <3>1. Nibbles(tokens[i]) # {} /\ Nibbles(tokens[i]) \subseteq 0 .. 15
      BY <1>1 DEF IsHex, Nibbles
    <3>. QED BY <3>1
  <2>. QED BY <2>1 DEF hex_decode, RawKeys
<1>2. ASSUME NEW p \in ParsedProfiles(text)
      PROVE  (\E i, a \in RawKeys : p = Profile(i, a)) /\ text = EncodeProfile(p)
  <2> DEFINE l2 == Tail(LineAt(text, 2))  l3 == Tail(LineAt(text, 3))
  <2>1. IsHex(l2) /\ IsHex(l3) /\ p = Profile(hex_decode(l2), hex_decode(l3)) /\ CanonicalProfile(p, text)
    BY <1>2 DEF ParsedProfiles, IsField
  <2> HIDE DEF l2, l3
  <2>. QED BY <1>1, <2>1 DEF CanonicalProfile
<1>3. ASSUME NEW u \in ParsedKeys(text)
      PROVE  (\E key \in RawKeys : u = Unlock(key)) /\ text = EncodeUnlock(u)
  <2> DEFINE l2 == LineAt(text, 2)
  <2>1. IsHex(l2) /\ u = Unlock(hex_decode(l2)) /\ CanonicalKey(u, text)
    BY <1>3 DEF ParsedKeys
  <2> HIDE DEF l2
  <2>. QED BY <1>1, <2>1 DEF CanonicalKey
<1>. QED BY <1>2, <1>3

-----------------------------------------------------------------------------
(***************************************************************************)
(* The file that is written: before the first edit it holds a beginning of *)
(* what the program set out to write.                                      *)
(***************************************************************************)
FileInv ==
  /\ edits \in Nat
  /\ \/ whole = <<>> /\ content = <<>> /\ edits = 0
     \/ \E i, a \in RawKeys : made = Profile(i, a) /\ whole = EncodeProfile(made)
     \/ \E key \in RawKeys : made = Unlock(key) /\ whole = EncodeUnlock(made)
  /\ edits = 0 => \E n \in 0 .. Len(whole) : content = SubSeq(whole, 1, n)

\* What is to be written is a sequence.
LEMMA WholeIsText ==
  ASSUME FileInv
  PROVE  whole \in Seq(OwnTokens) /\ Len(whole) \in Nat
<1>1. <<>> \in Seq(OwnTokens)
  OBVIOUS
<1>2. whole \in Seq(OwnTokens)
  BY <1>1, EncodedLengths DEF FileInv
<1>. QED BY <1>2

LEMMA InitFileInv == FileInit => FileInv
<1> SUFFICES ASSUME FileInit PROVE FileInv
  OBVIOUS
<1>1. whole = <<>> /\ content = <<>> /\ edits = 0
  BY DEF FileInit
<1>2. content = SubSeq(whole, 1, 0) /\ 0 \in 0 .. Len(whole)
  BY <1>1
<1>. QED BY <1>1, <1>2 DEF FileInv

LEMMA NextFileInv == FileInv /\ [FileNext]_fileVars => FileInv'
<1> SUFFICES ASSUME FileInv, [FileNext]_fileVars PROVE FileInv'
  OBVIOUS
<1>0. whole \in Seq(OwnTokens) /\ Len(whole) \in Nat /\ Drawn \subseteq RawKeys
  BY WholeIsText, FileKeysAssumption
<1>1. CASE BeginFile
  <2>1. whole = <<>> /\ content' = <<>> /\ edits' = 0
    <3>1. KeyLen \in Nat /\ Len(<<>>) = 0
      BY FileKeysAssumption
    <3>2. /\ \A i, a \in RawKeys : EncodeProfile(Profile(i, a)) # <<>>
          /\ \A key \in RawKeys : EncodeUnlock(Unlock(key)) # <<>>
      BY <3>1, EncodedLengths
    <3>. QED BY <1>1, <3>2 DEF BeginFile, FileInv
  <2>2. \/ \E i, a \in RawKeys : made' = Profile(i, a) /\ whole' = EncodeProfile(made')
        \/ \E key \in RawKeys : made' = Unlock(key) /\ whole' = EncodeUnlock(made')
    BY <1>0, <1>1 DEF BeginFile
  <2>3. whole' \in Seq(OwnTokens)
    BY <2>2, EncodedLengths
  <2>4. content' = SubSeq(whole', 1, 0) /\ 0 \in 0 .. Len(whole')
    BY <2>1, <2>3
  <2>. QED BY <2>1, <2>2, <2>4 DEF FileInv
<1>2. CASE Write
  <2>1. /\ UNCHANGED <<whole, made, edits>> /\ edits = 0 /\ whole # <<>>
        /\ content' = SubSeq(whole, 1, Len(content) + 1) /\ Len(content) # Len(whole)
    BY <1>2 DEF Write, Written, FileInv
  <2>2. PICK n \in 0 .. Len(whole) : content = SubSeq(whole, 1, n)
    BY <2>1 DEF FileInv
  <2>3. Len(content) = n
    BY <1>0, <2>2
  <2>4. n + 1 \in 0 .. Len(whole) /\ content' = SubSeq(whole, 1, n + 1)
    BY <1>0, <2>1, <2>2, <2>3
  <2>. QED BY <2>1, <2>4 DEF FileInv
<1>3. CASE Edit
  <2>1. UNCHANGED <<whole, made>> /\ edits' = edits + 1 /\ whole # <<>> /\ edits \in Nat
    BY <1>3 DEF Edit, Written, FileInv
  <2>. QED BY <2>1 DEF FileInv
<1>4. CASE AnotherFile
  <2>1. whole' = <<>> /\ content' = <<>> /\ edits' = 0
    BY <1>4 DEF AnotherFile
  <2>2. content' = SubSeq(whole', 1, 0) /\ 0 \in 0 .. Len(whole')
    BY <2>1
  <2>. QED BY <2>1, <2>2 DEF FileInv
<1>5. CASE UNCHANGED fileVars
  BY <1>5 DEF fileVars, FileInv
<1>. QED BY <1>1, <1>2, <1>3, <1>4, <1>5 DEF FileNext

\* A file that is still being written, or was cut short at any point, is
\* neither a profile nor an unlock key: the encodings of either have one
\* length, and they begin differently.
THEOREM TornFilesNeverParse == FileSpec => []TornNeverParses
<1>1. FileInv => TornNeverParses
  <2> SUFFICES ASSUME FileInv, edits = 0, content # whole
               PROVE  ParsedProfiles(content) = {} /\ ParsedKeys(content) = {}
    BY DEF TornNeverParses
  <2>1. whole \in Seq(OwnTokens) /\ Len(whole) \in Nat /\ KeyLen \in Nat
    BY WholeIsText, FileKeysAssumption
  <2>2. PICK n \in 0 .. Len(whole) : content = SubSeq(whole, 1, n)
    BY DEF FileInv
  <2>3. Len(content) = n /\ (n > 0 => content[1] = whole[1])
    BY <2>1, <2>2
  <2>4. n < Len(whole)
    <3>1. n = Len(whole) => content = whole
      BY <2>1, <2>2, SubSeqFull
    <3>. QED BY <2>1, <3>1
  <2>5. \/ Len(whole) = 3 * KeyLen + 8 /\ whole[1] = PROFILE_PREFIX
        \/ Len(whole) = KeyLen + 3 /\ whole[1] = UNLOCK_PREFIX
    <3>1. whole # <<>>
      BY <2>1, <2>4
    <3>. QED BY <3>1, EncodedLengths DEF FileInv
  <2>6. ASSUME NEW p \in ParsedProfiles(content) PROVE FALSE
    <3>1. Len(content) = 3 * KeyLen + 8 /\ content[1] = PROFILE_PREFIX
      BY ParsedIsEncoded, EncodedLengths
    <3>. QED BY <2>1, <2>3, <2>4, <2>5, <3>1 DEF PROFILE_PREFIX, UNLOCK_PREFIX
  <2>7. ASSUME NEW u \in ParsedKeys(content) PROVE FALSE
    <3>1. Len(content) = KeyLen + 3 /\ content[1] = UNLOCK_PREFIX
      BY ParsedIsEncoded, EncodedLengths
    <3>. QED BY <2>1, <2>3, <2>4, <2>5, <3>1 DEF PROFILE_PREFIX, UNLOCK_PREFIX
  <2>. QED BY <2>6, <2>7
<1>. QED BY <1>1, InitFileInv, NextFileInv, PTL DEF FileSpec

\* The bytes the program wrote are read as what they were made from; after any
\* number of edits no other bytes are.
THEOREM EveryEditIsSeen == FileSpec => []EditsAreSeen
<1>1. FileInv => EditsAreSeen
  <2> SUFFICES ASSUME FileInv, whole # <<>>
               PROVE  made \in ParsedProfiles(content) \cup ParsedKeys(content) <=> content = whole
    BY DEF EditsAreSeen
  <2>1. \A i, a, key : Profile(i, a) # Unlock(key)
    BY DEF Profile, Unlock
  <2>2. \/ \E i, a \in RawKeys : made = Profile(i, a) /\ whole = EncodeProfile(made)
        \/ \E key \in RawKeys : made = Unlock(key) /\ whole = EncodeUnlock(made)
    BY DEF FileInv
  <2>3. ASSUME content = whole PROVE made \in ParsedProfiles(content) \cup ParsedKeys(content)
    BY <2>2, <2>3, ProfileIsRead, UnlockIsRead
  <2>4. ASSUME made \in ParsedProfiles(content) PROVE content = whole
    BY <2>1, <2>2, <2>4, ParsedIsEncoded
  <2>5. ASSUME made \in ParsedKeys(content) PROVE content = whole
    BY <2>1, <2>2, <2>5, ParsedIsEncoded
  <2>. QED BY <2>3, <2>4, <2>5
<1>. QED BY <1>1, InitFileInv, NextFileInv, PTL DEF FileSpec
-----------------------------------------------------------------------------
(***************************************************************************)
(* Proofs about ContactRoots, for any set of keys.                         *)
(***************************************************************************)

\* What a derivation has recorded is what the two profiles determine.
Recorded ==
  \A d \in derived :
    /\ d.local \in Secrets /\ d.peer \in Profiles
    /\ d.peer.agreement # LowOrder
    /\ d.root = <<{d.local.agreement, d.peer.agreement}, Ordered(d.local, d.peer)>>

\* The order in which two profiles enter the root does not depend on the side,
\* and tells which two they are.
LEMMA OrderIsCommon ==
  \A p, q, r, s \in Profiles : Ordered(p, q) = Ordered(r, s) <=> {p, q} = {r, s}
<1> SUFFICES ASSUME NEW p \in Profiles, NEW q \in Profiles, NEW r \in Profiles, NEW s \in Profiles
             PROVE  Ordered(p, q) = Ordered(r, s) <=> {p, q} = {r, s}
  OBVIOUS
<1> USE KeysAssumption
<1>1. ASSUME NEW x \in Profiles, NEW y \in Profiles
      PROVE  Ordered(x, y) = Ordered(y, x)
  <2>1. /\ x.identity \in Nat /\ x.agreement \in Nat
        /\ y.identity \in Nat /\ y.agreement \in Nat
    <3>1. /\ x.identity \in Keys /\ x.agreement \in Keys \cup {LowOrder}
          /\ y.identity \in Keys /\ y.agreement \in Keys \cup {LowOrder}
      BY DEF Profiles
    <3> DEFINE xi == x.identity  xa == x.agreement  yi == y.identity  ya == y.agreement
    <3>2. xi \in Keys /\ xa \in Keys \cup {0} /\ yi \in Keys /\ ya \in Keys \cup {0}
      BY <3>1 DEF LowOrder
    <3>3. Keys \subseteq Nat
      BY DEF LowOrder
    <3> HIDE DEF xi, xa, yi, ya
    <3>4. xi \in Nat /\ xa \in Nat /\ yi \in Nat /\ ya \in Nat
      BY <3>2, <3>3
    <3>. QED BY <3>4 DEF xi, xa, yi, ya
  <2>2. Before(x, y) \/ Before(y, x)
    BY <2>1 DEF Before
  <2>3. Before(x, y) /\ Before(y, x) => x.identity = y.identity /\ x.agreement = y.agreement
    BY <2>1 DEF Before
  <2>4. x.identity = y.identity /\ x.agreement = y.agreement => x = y
    BY DEF Profiles
  <2>. QED BY <2>2, <2>3, <2>4 DEF Ordered
<1>2. ASSUME Ordered(p, q) = Ordered(r, s) PROVE {p, q} = {r, s}
  BY <1>2 DEF Ordered
<1>3. ASSUME {p, q} = {r, s} PROVE Ordered(p, q) = Ordered(r, s)
  <2>1. (p = r /\ q = s) \/ (p = s /\ q = r)
    BY <1>3
  <2>. QED BY <1>1, <2>1
<1>. QED BY <1>2, <1>3

\* Contacts agree on their root, and no other two profiles have it.
THEOREM ContactsAgree == RootsSpec => []RootsAgree
<1>1. RootsInit => Recorded
  BY DEF RootsInit, Recorded
<1>2. Recorded /\ [RootsNext]_derived => Recorded'
  <2> SUFFICES ASSUME Recorded, [RootsNext]_derived PROVE Recorded'
    OBVIOUS
  <2>1. CASE UNCHANGED derived
    BY <2>1 DEF Recorded
  <2>2. ASSUME NEW secrets \in Secrets, NEW local \in Profiles, NEW peer \in Profiles,
               Derive(secrets, local, peer)
        PROVE  Recorded'
    <3> DEFINE d == [local |-> local, peer |-> peer,
                     root  |-> <<Shared(secrets.agreement, peer.agreement), Ordered(local, peer)>>]
    <3>1. derived' = derived \cup {d} /\ local = secrets /\ peer.agreement # LowOrder
      BY <2>2 DEF Derive, Shared
    <3>2. /\ d.local \in Secrets /\ d.peer \in Profiles /\ d.peer.agreement # LowOrder
          /\ d.root = <<{d.local.agreement, d.peer.agreement}, Ordered(d.local, d.peer)>>
      <4>1. d.local = local /\ d.peer = peer
        OBVIOUS
      <4>2. d.root = <<Shared(secrets.agreement, peer.agreement), Ordered(local, peer)>>
        OBVIOUS
      <4>3. Shared(secrets.agreement, peer.agreement) = {local.agreement, peer.agreement}
        BY <3>1 DEF Shared
      <4> HIDE DEF d
      <4>. QED BY <3>1, <4>1, <4>2, <4>3
    <3> HIDE DEF d
    <3>. QED BY <3>1, <3>2 DEF Recorded
  <2>. QED BY <2>1, <2>2 DEF RootsNext
<1>3. Recorded => RootsAgree
  <2> SUFFICES ASSUME Recorded, NEW d \in derived, NEW e \in derived
               PROVE  d.root = e.root <=> {d.local, d.peer} = {e.local, e.peer}
    BY DEF RootsAgree
  <2>1. /\ d.local \in Profiles /\ d.peer \in Profiles
        /\ e.local \in Profiles /\ e.peer \in Profiles
    BY DEF Recorded, Secrets, Profiles
  <2>2. Ordered(d.local, d.peer) = Ordered(e.local, e.peer)
          <=> {d.local, d.peer} = {e.local, e.peer}
    <3> HIDE DEF Recorded
    <3> DEFINE p == d.local  q == d.peer  r == e.local  s == e.peer
    <3>1. p \in Profiles /\ q \in Profiles /\ r \in Profiles /\ s \in Profiles
      BY <2>1
    <3> HIDE DEF p, q, r, s
    <3>2. Ordered(p, q) = Ordered(r, s) <=> {p, q} = {r, s}
      BY <3>1, OrderIsCommon
    <3>. QED BY <3>2 DEF p, q, r, s
  <2>3. {d.local, d.peer} = {e.local, e.peer}
          => {d.local.agreement, d.peer.agreement} = {e.local.agreement, e.peer.agreement}
    <3> SUFFICES ASSUME {d.local, d.peer} = {e.local, e.peer}
                 PROVE  {d.local.agreement, d.peer.agreement} = {e.local.agreement, e.peer.agreement}
      OBVIOUS
    <3>1. (d.local = e.local /\ d.peer = e.peer) \/ (d.local = e.peer /\ d.peer = e.local)
      OBVIOUS
    <3>. QED BY <3>1
  <2>4. /\ d.root = <<{d.local.agreement, d.peer.agreement}, Ordered(d.local, d.peer)>>
        /\ e.root = <<{e.local.agreement, e.peer.agreement}, Ordered(e.local, e.peer)>>
    BY DEF Recorded
  <2>. QED BY <2>2, <2>3, <2>4
<1>. QED BY <1>1, <1>2, <1>3, PTL DEF RootsSpec
=============================================================================

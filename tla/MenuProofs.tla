----------------------------- MODULE MenuProofs -----------------------------
(***************************************************************************)
(* Proofs about Menu, for every number of contacts and whatever the user   *)
(* types.                                                                  *)
(***************************************************************************)
EXTENDS Menu, SequenceTheorems, TLAPS

(***************************************************************************)
(* Why the terminal is restored: as long as no restore has failed, the     *)
(* mode that a picker has saved is the one the program began with, since   *)
(* no picker is opened while another one lasts.                            *)
(***************************************************************************)
Modes ==
  /\ pc \in Picker /\ ~broken => saved = "cooked"
  /\ TerminalRestored

\* The program begins outside the picker.
LEMMA InitModes == Init => Modes
  BY DEF Init, Modes, TerminalRestored, Picker

\* No step of the program, of the user or of the terminal breaks it.
LEMMA NextModes == Modes /\ [Next]_vars => Modes'
<1> SUFFICES ASSUME Modes, [Next]_vars PROVE Modes'
  OBVIOUS
<1> USE DEF Modes, TerminalRestored, Picker
<1>1. CASE UNCHANGED vars
  BY <1>1 DEF vars
<1>2. ASSUME NEW key \in Keys, Press(key) PROVE Modes'
  BY <1>2 DEF Press, Running
<1>3. CASE Hangup \/ Kill
  BY <1>3 DEF Hangup, Kill, Running
<1>4. CASE Enter
  BY <1>4 DEF Enter
<1>5. CASE SetRaw
  BY <1>5 DEF SetRaw
<1>6. CASE ReadKey
  <2>1. pc' \in {"read", "escape", "drop"} /\ pc = "read"
    BY <1>6 DEF ReadKey, Leave, Move, Ignore
  <2>. QED BY <1>6, <2>1 DEF ReadKey
<1>7. CASE ReadSequence
  <2>1. pc' = "read" /\ pc = "escape"
    BY <1>7 DEF ReadSequence, Move, Ignore
  <2>. QED BY <1>7, <2>1 DEF ReadSequence
<1>8. CASE ReadNothing
  BY <1>8 DEF ReadNothing, EndOfInput, Leave
<1>9. CASE Drop
  <2>1. pc' \notin Picker
    BY <1>9 DEF Drop, Returned
  <2>2. ~broken' => mode' = "cooked"
    BY <1>9 DEF Drop, restore_stty
  <2>. QED BY <2>1, <2>2
<1>10. CASE Number
  <2>1. pc' \notin Picker /\ pc = "number"
    BY <1>10 DEF Number, Returned
  <2>. QED BY <1>10, <2>1 DEF Number
<1>11. CASE Begin \/ Ask \/ Finish \/ WaitForEnter
  <2>1. pc' \notin Picker /\ pc \in {"wizard", "ask", "after"} /\ UNCHANGED <<mode, broken>>
    BY <1>11 DEF Begin, Ask, Finish, WaitForEnter
  <2>. QED BY <2>1
<1>. QED
  BY <1>1, <1>2, <1>3, <1>4, <1>5, <1>6, <1>7, <1>8, <1>9, <1>10, <1>11 DEF Next, Program

\* Outside the picker the terminal is as the program found it, unless stty
\* failed to put it back or the program was killed in the picker.
THEOREM TerminalIsRestored == Spec => []TerminalRestored
<1>1. Modes => TerminalRestored
  BY DEF Modes
<1>. QED BY <1>1, InitModes, NextModes, PTL DEF Spec

-----------------------------------------------------------------------------
(***************************************************************************)
(* Why the selection is one of the choices: the list that the picker shows *)
(* does not change while it is open, and the menu has MENU_ITEMS.          *)
(***************************************************************************)
Selection ==
  /\ pc = "wizard" => selected \in 0 .. MENU_ITEMS - 1 /\ selected # Exit
  /\ pc = "ask" => questions \in 0 .. 3
  /\ pc \in Picker => saved \in {"cooked", "raw"}
  /\ list = "menu" => size = MENU_ITEMS
  /\ pc = "drop" /\ outcome = "chosen" => selected < size

IInv == TypeOK /\ Selection

\* The bytes that are left after some were read are bytes that were typed.
LEMMA RestOfTyped ==
  ASSUME TypeOK, NEW i \in 1 .. Len(typed) + 1
  PROVE  /\ SubSeq(typed, i, Len(typed)) \in Seq(Bytes)
         /\ Len(SubSeq(typed, i, Len(typed))) <= MaxTyped
<1>1. typed \in Seq(Bytes) /\ Len(typed) \in Nat /\ Len(typed) <= MaxTyped
  BY DEF TypeOK
<1>2. SubSeq(typed, i, Len(typed)) \in Seq(Bytes)
  BY <1>1, SubSeqProperties
<1>3. Len(SubSeq(typed, i, Len(typed))) = IF i <= Len(typed) THEN Len(typed) - i + 1 ELSE 0
  BY <1>1, SubSeqProperties
<1>. QED BY <1>1, <1>2, <1>3, MenuAssumption

\* Every key sends bytes.
LEMMA PressedBytes == \A key \in Keys : Pressed[key] \in Seq(Bytes)
<1> DEFINE up     == << <<ESC, 0>>, <<"[", 0>>, <<"A", -1>> >>
           down   == << <<ESC, 0>>, <<"O", 0>>, <<"B", 1>> >>
<1>1. up \in Seq(Bytes) /\ down \in Seq(Bytes)
  BY DEF Bytes
<1>2. \A byte \in Bytes : <<byte>> \in Seq(Bytes)
  OBVIOUS
<1>3. \A name \in {ESC, "k", "j", "CR", "ETX", "B"}, way \in {-1, 0, 1} : <<name, way>> \in Bytes
  BY DEF Bytes
<1> HIDE DEF up, down
<1>4. TAKE key \in Keys
<1>5. Pressed[key] \in {up, down, << <<"k", -1>> >>, << <<"j", 1>> >>, << <<ESC, 0>> >>,
                        << <<"CR", 0>> >>, << <<"ETX", 0>> >>, << <<"B", 0>> >>}
  BY MenuAssumption DEF Pressed, up, down
<1>. QED BY <1>1, <1>2, <1>3, <1>5

\* So are those that are left after a line.
LEMMA LineTyped ==
  ASSUME TypeOK, ReadLine \/ typed' = <<>>
  PROVE  typed' \in Seq(Bytes) /\ Len(typed') <= MaxTyped
<1>1. CASE typed' = <<>>
  BY <1>1, MenuAssumption
<1>2. CASE ReadLine /\ typed' # <<>>
  <2>1. PICK i \in 1 .. Len(typed) : typed' = SubSeq(typed, i + 1, Len(typed))
    <3>1. DOMAIN typed = 1 .. Len(typed)
      BY DEF TypeOK
    <3>. QED BY <1>2, <3>1 DEF ReadLine
  <2>2. i + 1 \in 1 .. Len(typed) + 1
    BY DEF TypeOK
  <2>. QED BY <2>1, <2>2, RestOfTyped
<1>. QED BY <1>1, <1>2

\* Where the keys point to is a choice.
LEMMA NextAim ==
  ASSUME TypeOK, NEW byte \in Bytes, Track(byte)
  PROVE  aim' \in Nat
<1>1. byte[2] \in {-1, 0, 1}
  BY DEF Bytes
<1>2. aim + byte[2] + size \in Int /\ size \in Nat /\ size > 0
  BY <1>1, MenuAssumption DEF TypeOK, MENU_ITEMS
<1>3. (aim + byte[2] + size) % size \in Nat
  <2> DEFINE a == aim + byte[2] + size
  <2>1. a \in Int /\ size \in Nat /\ size > 0
    BY <1>2
  <2> HIDE DEF a
  <2>2. a % size \in Nat
    BY <2>1
  <2>. QED BY <2>2 DEF a
<1>. QED BY <1>3 DEF Track

\* So is the next choice, up or down.
LEMMA Moves ==
  ASSUME TypeOK, selected < size, NEW way, Move(way)
  PROVE  /\ selected' \in 0 .. size - 1 /\ shown' \in Nat /\ pc' = "read"
         /\ UNCHANGED <<list, size, outcome, questions>>
<1>1. selected \in Nat /\ size \in Nat /\ size > 0
  BY MenuAssumption DEF TypeOK, MENU_ITEMS
<1>2. Previous(selected) \in 0 .. size - 1
  BY <1>1 DEF Previous
<1>3. Following(selected) \in 0 .. size - 1
  BY <1>1 DEF Following
<1>. QED BY <1>2, <1>3 DEF Move

\* No step breaks the types.
LEMMA NextIInv == IInv /\ [Next]_vars => IInv'
<1> SUFFICES ASSUME IInv, [Next]_vars PROVE IInv'
  OBVIOUS
<1> USE MenuAssumption DEF IInv, Picker, MENU_ITEMS
<1>1. CASE UNCHANGED vars
  BY <1>1 DEF vars, screen, TypeOK, Selection
<1>2. ASSUME NEW key \in Keys, Press(key) PROVE IInv'
  <2>1. Pressed[key] \in Seq(Bytes)
    BY PressedBytes
  <2>2. typed \o Pressed[key] \in Seq(Bytes) /\ Len(typed \o Pressed[key]) = Len(typed) + Len(Pressed[key])
    <3>1. typed \in Seq(Bytes)
      BY DEF TypeOK
    <3> HIDE DEF IInv
    <3>. QED BY <2>1, <3>1, ConcatProperties
  <2>3. typed' \in Seq(Bytes) /\ Len(typed') <= MaxTyped
    <3>1. CASE typed' = <<>>
      BY <3>1
    <3>. QED BY <1>2, <2>2, <3>1 DEF Press
  <2>4. UNCHANGED <<screen, mode, saved, hung, aim, lost, broken>> /\ pc' \in {pc, "dead"}
    BY <1>2 DEF Press
  <2>5. escaped' \in BOOLEAN
    BY <1>2 DEF Press, TypeOK
  <2>. QED BY <2>3, <2>4, <2>5 DEF screen, TypeOK, Selection
<1>3. CASE Hangup \/ Kill
  <2>1. /\ UNCHANGED <<list, size, selected, shown, outcome, questions>>
        /\ UNCHANGED <<mode, saved, typed, aim, escaped, lost, broken>>
        /\ pc' \in {pc, "dead"} /\ hung' \in BOOLEAN
    BY <1>3 DEF Hangup, Kill, screen, TypeOK
  <2>. QED BY <2>1 DEF TypeOK, Selection
<1>4. CASE Enter
  <2>1. /\ UNCHANGED <<list, size, selected, shown, outcome, questions>>
        /\ UNCHANGED <<mode, typed, hung, aim, escaped, lost, broken>>
        /\ \/ pc' = "set" /\ saved' = mode
           \/ pc' = "number" /\ UNCHANGED saved
    BY <1>4 DEF Enter, screen
  <2>. QED BY <2>1 DEF TypeOK, Selection
<1>5. CASE SetRaw
  <2>1. pc = "set" /\ UNCHANGED <<list, size, questions, saved, typed, hung, escaped, broken>>
    BY <1>5 DEF SetRaw
  <2>2. size \in Nat /\ 0 < size
    BY DEF TypeOK
  <2>3. CASE pc' = "read"
    <3>1. /\ selected' = 0 /\ shown' = 0 /\ aim' = 0 /\ lost' = FALSE /\ mode' = "raw"
          /\ outcome' = outcome
      BY <1>5, <2>3 DEF SetRaw
    <3>. QED BY <2>1, <2>2, <2>3, <3>1 DEF TypeOK, Selection
  <2>4. CASE pc' = "drop"
    <3>1. /\ UNCHANGED <<selected, shown, aim, lost>> /\ mode' \in {mode, "raw"}
          /\ outcome' = "unavailable"
      BY <1>5, <2>4 DEF SetRaw
    <3>. QED BY <2>1, <2>4, <3>1 DEF TypeOK, Selection
  <2>. QED BY <1>5, <2>3, <2>4 DEF SetRaw
<1>6. CASE ReadKey
  <2>1. /\ pc = "read" /\ typed # <<>> /\ typed' = Tail(typed)
        /\ UNCHANGED <<mode, saved, hung, escaped, lost, broken, list, size, questions>>
    BY <1>6 DEF ReadKey, Leave, Move, Ignore, screen
  <2>2. typed' \in Seq(Bytes) /\ Len(typed') <= MaxTyped /\ Head(typed) \in Bytes
    <3>1. typed \in Seq(Bytes) /\ Len(typed) <= MaxTyped
      BY DEF TypeOK
    <3>2. Tail(typed) \in Seq(Bytes) /\ Len(Tail(typed)) = Len(typed) - 1 /\ Head(typed) \in Bytes
      BY <2>1, <3>1, HeadTailProperties
    <3>. QED BY <2>1, <3>1, <3>2
  <2>3. aim' \in Nat
    BY <1>6, <2>2, NextAim DEF ReadKey
  <2>4. /\ pc' \in {"read", "escape"} => selected' \in 0 .. size - 1 /\ shown' \in Nat /\ UNCHANGED outcome
        /\ pc' = "drop" => /\ UNCHANGED <<selected, shown>>
                           /\ outcome' \in {"chosen", "cancelled"}
        /\ pc' \in {"read", "escape", "drop"}
    BY <1>6, Moves DEF ReadKey, Leave, Ignore, screen, TypeOK
  <2>. QED BY <2>1, <2>2, <2>3, <2>4 DEF TypeOK, Selection
<1>7. CASE ReadSequence
  <2>1. /\ pc = "escape" /\ pc' = "read" /\ Len(typed) >= 2 /\ typed' = SubSeq(typed, 3, Len(typed))
        /\ UNCHANGED <<mode, saved, hung, escaped, broken, list, size, questions, outcome>>
    BY <1>7 DEF ReadSequence, Move, Ignore, screen, SequenceLen
  <2>2. typed' \in Seq(Bytes) /\ Len(typed') <= MaxTyped
    BY <2>1, RestOfTyped DEF TypeOK
  <2>3. aim' \in Nat /\ lost' \in BOOLEAN
    <3> DEFINE sequence == SubSeq(typed, 1, 2)
    <3>1. sequence[Len(sequence)] \in Bytes
      <4>1. sequence \in Seq(Bytes) /\ Len(sequence) = 2
        BY <2>1, SubSeqProperties DEF TypeOK
      <4> HIDE DEF sequence
      <4>. QED BY <4>1, ElementOfSeq
    <3>2. Track(sequence[Len(sequence)]) /\ lost' \in BOOLEAN
      BY <1>7 DEF ReadSequence, SequenceLen, TypeOK
    <3>. QED BY <3>1, <3>2, NextAim
  <2>4. selected' \in 0 .. size - 1 /\ shown' \in Nat
    BY <1>7, <2>1, Moves DEF ReadSequence, Ignore, screen, TypeOK
  <2>. QED BY <2>1, <2>2, <2>3, <2>4 DEF TypeOK, Selection
<1>8. CASE ReadNothing
  BY <1>8 DEF ReadNothing, EndOfInput, Leave, TypeOK, Selection
<1>9. CASE Drop
  <2>1. /\ pc = "drop" /\ UNCHANGED <<list, size, typed, hung, escaped>>
        /\ shown' = 0 /\ aim' = 0 /\ lost' = FALSE /\ outcome' = "none" /\ saved' = "none"
        /\ selected' \in {0, selected}
        /\ mode' \in {saved, mode} /\ broken' \in {TRUE, broken}
    BY <1>9 DEF Drop, Returned, restore_stty
  <2>2. pc' \in {"number", "ask", "after", "wizard", "exit"} /\ questions' \in {2, 3, questions}
    BY <1>9 DEF Drop, Returned
  <2>3. pc' = "wizard" => selected' # Exit /\ list = "menu" /\ selected' = selected /\ outcome = "chosen"
    BY <1>9 DEF Drop, Returned, TypeOK
  <2>4. mode' \in {"cooked", "raw"} /\ broken' \in BOOLEAN
    BY <2>1 DEF TypeOK, Selection
  <2>5. selected' \in Nat /\ questions' \in 0 .. 3 /\ pc' \notin {"read", "escape"}
    BY <2>1, <2>2 DEF TypeOK
  <2>6. TypeOK'
    BY <2>1, <2>2, <2>4, <2>5 DEF TypeOK
  <2>7. Selection'
    BY <2>1, <2>2, <2>3 DEF TypeOK, Selection
  <2>. QED BY <2>6, <2>7
<1>10. CASE Number
  <2>1. /\ pc = "number" /\ typed' \in Seq(Bytes) /\ Len(typed') <= MaxTyped
        /\ selected' \in 0 .. size - 1
        /\ UNCHANGED <<shown, outcome, mode, saved, hung, aim, escaped, lost, broken, list, size>>
    BY <1>10, LineTyped DEF Number, Returned, TypeOK
  <2>2. pc' \in {"ask", "after", "wizard", "exit"} /\ questions' \in {2, 3, questions}
    BY <1>10 DEF Number, Returned
  <2>3. pc' = "wizard" => selected' # Exit /\ list = "menu"
    BY <1>10, <2>1 DEF Number, Returned, TypeOK
  <2>. QED BY <2>1, <2>2, <2>3 DEF TypeOK, Selection
<1>11. CASE Begin
  BY <1>11 DEF Begin, TypeOK, Selection, Questions, MENU_ITEMS, Create, Export, Trust, Seal, Open, Show, Exit
<1>12. CASE Ask
  <2>1. typed' \in Seq(Bytes) /\ Len(typed') <= MaxTyped
    BY <1>12, LineTyped DEF Ask
  <2>2. /\ pc = "ask" /\ pc' \in {"ask", "after"} /\ questions' \in 0 .. 3
        /\ UNCHANGED <<list, size, selected, shown, outcome, mode, saved, hung, aim, escaped, lost, broken>>
    BY <1>12 DEF Ask, TypeOK
  <2>. QED BY <2>1, <2>2 DEF TypeOK, Selection
<1>13. CASE Finish
  <2>1. /\ UNCHANGED <<list, size, selected, shown, outcome, questions>>
        /\ UNCHANGED <<mode, saved, typed, hung, aim, escaped, lost, broken>> /\ pc' = "after"
    BY <1>13 DEF Finish, screen
  <2>. QED BY <2>1 DEF TypeOK, Selection
<1>14. CASE WaitForEnter
  <2>1. typed' \in Seq(Bytes) /\ Len(typed') <= MaxTyped
    BY <1>14, LineTyped DEF WaitForEnter
  <2>. QED BY <1>14, <2>1 DEF WaitForEnter, TypeOK, Selection
<1>. QED
  BY <1>1, <1>2, <1>3, <1>4, <1>5, <1>6, <1>7, <1>8, <1>9, <1>10, <1>11, <1>12, <1>13, <1>14
  DEF Next, Program

\* The program begins with the menu.
LEMMA InitIInv == Init => IInv
<1> SUFFICES ASSUME Init PROVE IInv
  OBVIOUS
<1>1. typed \in Seq(Bytes) /\ Len(typed) <= MaxTyped
  BY MenuAssumption DEF Init
<1>2. size \in 1 .. (MaxContacts + MENU_ITEMS)
  BY MenuAssumption DEF Init, MENU_ITEMS
<1>3. Selection
  BY DEF Init, Selection, Picker
<1>4. /\ pc = "open" /\ list = "menu" /\ selected = 0 /\ shown = 0 /\ outcome = "none"
      /\ questions = 0 /\ mode = "cooked" /\ saved = "none" /\ hung = FALSE /\ aim = 0
      /\ escaped = FALSE /\ lost = FALSE /\ broken = FALSE
  BY DEF Init
<1>5. TypeOK
  <2>1. pc \in Picker \cup {"open", "number", "wizard", "ask", "after", "exit", "dead"}
    BY <1>4
  <2>2. pc \notin {"read", "escape"} /\ 0 \in Nat /\ 0 \in 0 .. 3
    BY <1>4
  <2>. QED BY <1>1, <1>2, <1>4, <2>1, <2>2, Zenon DEF TypeOK
<1>. QED BY <1>3, <1>5 DEF IInv

\* The selection is always one of the choices that are shown, and what is read
\* was typed.
THEOREM TypeCorrect == Spec => []TypeOK
<1>1. IInv => TypeOK
  BY DEF IInv
<1>. QED BY <1>1, InitIInv, NextIInv, PTL DEF Spec

-----------------------------------------------------------------------------
(***************************************************************************)
(* Why the selection follows the keys: as long as Escape was not pressed   *)
(* on its own, what waits to be read is made of whole keys, and the picker *)
(* cuts them where they end.                                               *)
(***************************************************************************)
Esc       == <<ESC, 0>>
Bracket   == <<"[", 0>>
Letter    == <<"O", 0>>
ArrowUp   == <<"A", -1>>
ArrowDown == <<"B", 1>>

\* The bytes that are a key of their own.
Alone == {<<"k", -1>>, <<"j", 1>>, <<"CR", 0>>, <<"ETX", 0>>, <<"B", 0>>}

\* Bytes that make whole keys; inside says that they begin after an Escape.
Intact(bytes, inside) ==
  /\ inside => bytes # <<>>
  /\ \A i \in 1 .. Len(bytes) :
       /\ bytes[i] \in Alone \cup {Esc, Bracket, Letter, ArrowUp, ArrowDown}
       /\ bytes[i] \in {Esc, Bracket, Letter} => i < Len(bytes)
       /\ bytes[i] \in {Bracket, Letter} <=> (i = 1 /\ inside) \/ (i # 1 /\ bytes[i - 1] = Esc)
       /\ bytes[i] = ArrowUp <=> i # 1 /\ bytes[i - 1] = Bracket
       /\ bytes[i] = ArrowDown <=> i # 1 /\ bytes[i - 1] = Letter

Followed ==
  /\ pc \in {"read", "escape"} => shown = selected /\ (~escaped => selected = aim)
  /\ Running /\ ~escaped => Intact(typed, pc = "escape")

\* The parts of an arrow are told apart, and from the other keys.
LEMMA BytesDiffer ==
  /\ Esc # Bracket /\ Esc # Letter /\ Esc # ArrowUp /\ Esc # ArrowDown
  /\ Bracket # Letter /\ Bracket # ArrowUp /\ Bracket # ArrowDown
  /\ Letter # ArrowUp /\ Letter # ArrowDown /\ ArrowUp # ArrowDown
  /\ Esc \notin Alone /\ Bracket \notin Alone /\ Letter \notin Alone
  /\ ArrowUp \notin Alone /\ ArrowDown \notin Alone
BY DEF Esc, Bracket, Letter, ArrowUp, ArrowDown, Alone, ESC

LEMMA NothingIntact == Intact(<<>>, FALSE)
BY DEF Intact

\* Keys are cut after any byte that is not in the middle of an arrow.
LEMMA RestIntact ==
  ASSUME NEW bytes \in Seq(Bytes), NEW inside \in BOOLEAN, Intact(bytes, inside),
         NEW k \in 1 .. Len(bytes), bytes[k] \notin {Bracket, Letter}
  PROVE  Intact(SubSeq(bytes, k + 1, Len(bytes)), bytes[k] = Esc)
<1> DEFINE n == Len(bytes)  rest == SubSeq(bytes, k + 1, n)
<1>1. n \in Nat /\ k \in Nat /\ k <= n /\ k >= 1
  OBVIOUS
<1>2. Len(rest) = n - k /\ \A i \in 1 .. n - k : rest[i] = bytes[i + k]
  BY <1>1
<1>3. \A i \in 1 .. n :
        /\ bytes[i] \in Alone \cup {Esc, Bracket, Letter, ArrowUp, ArrowDown}
        /\ bytes[i] \in {Esc, Bracket, Letter} => i < n
        /\ bytes[i] \in {Bracket, Letter} <=> (i = 1 /\ inside) \/ (i # 1 /\ bytes[i - 1] = Esc)
        /\ bytes[i] = ArrowUp <=> i # 1 /\ bytes[i - 1] = Bracket
        /\ bytes[i] = ArrowDown <=> i # 1 /\ bytes[i - 1] = Letter
  BY DEF Intact
<1> HIDE DEF n, rest
<1>4. ASSUME NEW i \in 1 .. n - k
      PROVE  /\ rest[i] \in Alone \cup {Esc, Bracket, Letter, ArrowUp, ArrowDown}
             /\ rest[i] \in {Esc, Bracket, Letter} => i < n - k
             /\ rest[i] \in {Bracket, Letter} <=> (i = 1 /\ bytes[k] = Esc) \/ (i # 1 /\ rest[i - 1] = Esc)
             /\ rest[i] = ArrowUp <=> i # 1 /\ rest[i - 1] = Bracket
             /\ rest[i] = ArrowDown <=> i # 1 /\ rest[i - 1] = Letter
  <2> DEFINE j == i + k
  <2>1. j \in 1 .. n /\ j # 1 /\ rest[i] = bytes[j] /\ (j < n <=> i < n - k)
    BY <1>1, <1>2
  <2>2. i = 1 => bytes[j - 1] = bytes[k]
    BY <1>1
  <2>3. i # 1 => rest[i - 1] = bytes[j - 1]
    <3>1. i # 1 => i - 1 \in 1 .. n - k /\ (i - 1) + k = j - 1
      BY <1>1
    <3>. QED BY <1>2, <3>1
  <2> HIDE DEF j
  <2>. QED BY <1>3, <2>1, <2>2, <2>3
<1>5. bytes[k] = Esc => rest # <<>>
  <2>1. bytes[k] = Esc => k < n
    BY <1>1, <1>3
  <2>. QED BY <1>1, <1>2, <2>1
<1>. QED BY <1>2, <1>4, <1>5 DEF Intact, rest, n

\* Whole keys may be added to whole keys.
LEMMA JoinIntact ==
  ASSUME NEW s \in Seq(Bytes), NEW t \in Seq(Bytes), NEW inside \in BOOLEAN,
         Intact(s, inside), Intact(t, FALSE)
  PROVE  Intact(s \o t, inside)
<1> DEFINE n == Len(s)  m == Len(t)  u == s \o t
<1>1. n \in Nat /\ m \in Nat /\ (s # <<>> <=> n # 0)
  OBVIOUS
<1>2. /\ Len(u) = n + m
      /\ \A i \in 1 .. n + m : u[i] = IF i <= n THEN s[i] ELSE t[i - n]
  BY ConcatProperties
<1>3. /\ inside => n # 0
      /\ \A i \in 1 .. n :
           /\ s[i] \in Alone \cup {Esc, Bracket, Letter, ArrowUp, ArrowDown}
           /\ s[i] \in {Esc, Bracket, Letter} => i < n
           /\ s[i] \in {Bracket, Letter} <=> (i = 1 /\ inside) \/ (i # 1 /\ s[i - 1] = Esc)
           /\ s[i] = ArrowUp <=> i # 1 /\ s[i - 1] = Bracket
           /\ s[i] = ArrowDown <=> i # 1 /\ s[i - 1] = Letter
  BY <1>1 DEF Intact
<1>4. \A i \in 1 .. m :
        /\ t[i] \in Alone \cup {Esc, Bracket, Letter, ArrowUp, ArrowDown}
        /\ t[i] \in {Esc, Bracket, Letter} => i < m
        /\ t[i] \in {Bracket, Letter} <=> i # 1 /\ t[i - 1] = Esc
        /\ t[i] = ArrowUp <=> i # 1 /\ t[i - 1] = Bracket
        /\ t[i] = ArrowDown <=> i # 1 /\ t[i - 1] = Letter
  BY DEF Intact
<1>5. u # <<>> <=> n + m # 0
  <2>1. u \in Seq(Bytes)
    BY ConcatProperties
  <2>. QED BY <1>2, <2>1
<1> HIDE DEF n, m, u
<1>6. ASSUME NEW i \in 1 .. n + m
      PROVE  /\ u[i] \in Alone \cup {Esc, Bracket, Letter, ArrowUp, ArrowDown}
             /\ u[i] \in {Esc, Bracket, Letter} => i < n + m
             /\ u[i] \in {Bracket, Letter} <=> (i = 1 /\ inside) \/ (i # 1 /\ u[i - 1] = Esc)
             /\ u[i] = ArrowUp <=> i # 1 /\ u[i - 1] = Bracket
             /\ u[i] = ArrowDown <=> i # 1 /\ u[i - 1] = Letter
  <2>1. CASE i <= n
    <3>1. i \in 1 .. n /\ u[i] = s[i] /\ (i < n => i < n + m)
      BY <1>1, <1>2, <2>1
    <3>2. i # 1 => u[i - 1] = s[i - 1]
      <4>1. i # 1 => i - 1 \in 1 .. n + m /\ i - 1 <= n
        BY <1>1, <2>1
      <4>. QED BY <1>2, <4>1
    <3>. QED BY <1>3, <3>1, <3>2
  <2>2. CASE ~(i <= n)
    <3> DEFINE j == i - n
    <3>1. j \in 1 .. m /\ u[i] = t[j] /\ (j < m => i < n + m) /\ (i = 1 => n = 0)
      BY <1>1, <1>2, <2>2
    <3>2. j # 1 => i # 1 /\ u[i - 1] = t[j - 1]
      <4>1. j # 1 => i # 1 /\ i - 1 \in 1 .. n + m /\ ~(i - 1 <= n) /\ (i - 1) - n = j - 1
        BY <1>1, <2>2
      <4>. QED BY <1>2, <4>1
    <3>3. j = 1 /\ i # 1 => u[i - 1] \notin {Esc, Bracket, Letter}
      <4>1. j = 1 /\ i # 1 => n \in 1 .. n /\ u[i - 1] = s[n]
        <5>1. j = 1 /\ i # 1 => i - 1 = n /\ n \in 1 .. n /\ n \in 1 .. n + m
          BY <1>1
        <5>. QED BY <1>1, <1>2, <5>1
      <4>2. n \in 1 .. n => s[n] \notin {Esc, Bracket, Letter}
        BY <1>1, <1>3
      <4>. QED BY <4>1, <4>2
    <3> HIDE DEF j
    <3>4. CASE j = 1
      BY <1>3, <1>4, <3>1, <3>3, <3>4
    <3>5. CASE j # 1
      BY <1>4, <3>1, <3>2, <3>5
    <3>. QED BY <3>4, <3>5
  <2>. QED BY <2>1, <2>2
<1>7. inside => u # <<>>
  BY <1>1, <1>3, <1>5
<1>. QED BY <1>2, <1>6, <1>7 DEF Intact, u

\* Every key but Escape is whole.
LEMMA KeysIntact == \A key \in Keys \ {"escape"} : Intact(Pressed[key], FALSE)
<1>1. \A byte \in Alone : Intact(<<byte>>, FALSE)
  BY BytesDiffer DEF Intact
<1>2. Intact(<<Esc, Bracket, ArrowUp>>, FALSE) /\ Intact(<<Esc, Letter, ArrowDown>>, FALSE)
  BY BytesDiffer DEF Intact
<1>3. \A key \in Keys \ {"escape"} :
        \/ Pressed[key] \in {<<Esc, Bracket, ArrowUp>>, <<Esc, Letter, ArrowDown>>}
        \/ \E byte \in Alone : Pressed[key] = <<byte>>
  BY MenuAssumption DEF Pressed, Alone, Esc, Bracket, Letter, ArrowUp, ArrowDown
<1>. QED BY <1>1, <1>2, <1>3

\* So are those that are left after a line.
LEMMA LineIntact ==
  ASSUME TypeOK, Intact(typed, FALSE), ReadLine \/ typed' = <<>>
  PROVE  Intact(typed', FALSE)
<1>1. CASE typed' = <<>>
  BY <1>1, NothingIntact
<1>2. CASE ReadLine /\ typed' # <<>>
  <2>1. typed \in Seq(Bytes) /\ DOMAIN typed = 1 .. Len(typed)
    BY DEF TypeOK
  <2>2. PICK i \in 1 .. Len(typed) : typed' = SubSeq(typed, i + 1, Len(typed)) /\ typed[i][1] = "CR"
    BY <1>2, <2>1 DEF ReadLine
  <2>3. typed[i] \notin {Esc, Bracket, Letter}
    BY <2>2 DEF Esc, Bracket, Letter, ESC
  <2>. QED BY <2>1, <2>2, <2>3, RestIntact
<1>. QED BY <1>1, <1>2

\* Where a key points to, counted as the picker counts.
LEMMA AimMoves ==
  ASSUME NEW n \in Nat, n > 0, NEW a \in Nat, a < n
  PROVE  /\ (a + 0 + n) % n = a
         /\ (a + 1 + n) % n = (a + 1) % n
         /\ (a + (-1) + n) % n = IF a = 0 THEN n - 1 ELSE a - 1
OBVIOUS

LEMMA InitFollowed == Init => Followed
<1> SUFFICES ASSUME Init PROVE Followed
  OBVIOUS
<1>1. pc = "open" /\ typed = <<>>
  BY DEF Init
<1>. QED BY <1>1, NothingIntact DEF Followed

\* No step makes the selection and the keys part.
LEMMA NextFollowed == IInv /\ Followed /\ [Next]_vars => Followed'
<1> SUFFICES ASSUME IInv, Followed, [Next]_vars PROVE Followed'
  OBVIOUS
<1>0. TypeOK /\ typed \in Seq(Bytes) /\ size \in Nat /\ size > 0 /\ selected \in Nat
  BY MenuAssumption DEF IInv, TypeOK, MENU_ITEMS
<1>1. CASE UNCHANGED vars
  BY <1>1 DEF vars, screen, Followed, Running
<1>2. ASSUME NEW key \in Keys, Press(key) PROVE Followed'
  <2>1. /\ Running /\ UNCHANGED <<selected, shown, aim>>
        /\ \/ pc' = "dead"
           \/ UNCHANGED pc /\ typed' = typed \o Pressed[key]
        /\ ~escaped' => ~escaped /\ key # "escape"
    BY <1>2 DEF Press, screen
  <2>2. UNCHANGED pc /\ ~escaped' => Intact(typed', pc = "escape")
    <3> SUFFICES ASSUME UNCHANGED pc, ~escaped' PROVE Intact(typed', pc = "escape")
      OBVIOUS
    <3>1. typed' = typed \o Pressed[key] /\ Intact(typed, pc = "escape") /\ key \in Keys \ {"escape"}
      BY <2>1 DEF Followed, Running
    <3>2. Pressed[key] \in Seq(Bytes) /\ Intact(Pressed[key], FALSE)
      BY <3>1, PressedBytes, KeysIntact
    <3>3. (pc = "escape") \in BOOLEAN
      OBVIOUS
    <3>. QED BY <1>0, <3>1, <3>2, <3>3, JoinIntact
  <2>. QED BY <2>1, <2>2 DEF Followed, Running
<1>3. CASE Hangup \/ Kill
  <2>1. UNCHANGED <<selected, shown, aim, typed, escaped>> /\ pc' \in {pc, "dead"} /\ Running
    BY <1>3 DEF Hangup, Kill, screen
  <2>. QED BY <2>1 DEF Followed, Running
<1>4. CASE Enter
  <2>1. pc = "open" /\ pc' \in {"set", "number"} /\ UNCHANGED <<typed, escaped>>
    BY <1>4 DEF Enter
  <2>. QED BY <2>1 DEF Followed, Running
<1>5. CASE SetRaw
  <2>1. /\ pc = "set" /\ UNCHANGED <<typed, escaped>>
        /\ \/ pc' = "read" /\ selected' = 0 /\ shown' = 0 /\ aim' = 0
           \/ pc' = "drop"
    BY <1>5 DEF SetRaw
  <2>. QED BY <2>1 DEF Followed, Running
<1>6. CASE ReadKey
  <2> DEFINE byte == Head(typed)
  <2>1. /\ pc = "read" /\ typed # <<>> /\ typed' = Tail(typed) /\ Track(byte)
        /\ UNCHANGED <<escaped, size>> /\ shown = selected /\ selected < size
    BY <1>6 DEF ReadKey, Leave, Move, Ignore, screen, IInv, TypeOK, Followed
  <2>2. /\ 1 \in 1 .. Len(typed) /\ byte = typed[1]
        /\ typed' = SubSeq(typed, 1 + 1, Len(typed))
    BY <1>0, <2>1
  <2>3. \/ byte[1] \in {"CR", "ETX"} /\ pc' = "drop"
        \/ byte[1] = "k" /\ pc' = "read" /\ selected' = Previous(selected) /\ shown' = selected'
        \/ byte[1] = "j" /\ pc' = "read" /\ selected' = Following(selected) /\ shown' = selected'
        \/ byte[1] = ESC /\ pc' = "escape" /\ UNCHANGED <<selected, shown>>
        \/ /\ byte[1] \notin {"CR", "ETX", "k", "j", ESC}
           /\ pc' = "read" /\ UNCHANGED <<selected, shown>>
    BY <1>6 DEF ReadKey, Leave, Move, Ignore, screen
  <2>4. ASSUME ~escaped
        PROVE  /\ pc' = "read" => selected' = aim'
               /\ pc' = "escape" => selected' = aim'
               /\ Intact(typed', pc' = "escape")
    <3>1. Intact(typed, FALSE) /\ selected = aim
      BY <2>1, <2>4 DEF Followed, Running
    <3>2. byte \in Alone \cup {Esc}
      BY <2>2, <3>1 DEF Intact
    <3>3. byte \notin {Bracket, Letter} /\ (byte = Esc <=> pc' = "escape")
      BY <2>3, <3>2, BytesDiffer DEF Alone, Esc, ESC
    <3>4. Intact(typed', byte = Esc)
      BY <1>0, <2>2, <3>1, <3>3, RestIntact
    <3>5. aim' = (aim + byte[2] + size) % size
      BY <2>1, <2>4 DEF Track
    <3>6. \/ byte[1] = "k" /\ byte[2] = -1
          \/ byte[1] = "j" /\ byte[2] = 1
          \/ byte[1] \notin {"k", "j"} /\ byte[2] = 0
      BY <3>2 DEF Alone, Esc, ESC
    <3>7. pc' # "drop" => selected' = aim'
      <4> DEFINE way == byte[2]
      <4>1. aim' = (aim + way + size) % size /\ aim \in Nat /\ aim < size
        BY <1>0, <2>1, <3>1, <3>5
      <4>2. CASE way = -1 /\ byte[1] = "k"
        <5> HIDE DEF way
        <5>1. aim' = (aim + (-1) + size) % size
          BY <4>1, <4>2
        <5>2. aim' = IF aim = 0 THEN size - 1 ELSE aim - 1
          BY <1>0, <4>1, <5>1, AimMoves
        <5>3. selected' = IF selected = 0 THEN size - 1 ELSE selected - 1
          BY <2>3, <4>2 DEF Previous, ESC
        <5>. QED BY <3>1, <5>2, <5>3
      <4>3. CASE way = 1 /\ byte[1] = "j"
        <5>1. aim' = (aim + 1) % size
          BY <1>0, <4>1, <4>3, AimMoves
        <5>2. selected' = (selected + 1) % size
          BY <2>3, <4>3 DEF Following, ESC
        <5>. QED BY <3>1, <5>1, <5>2
      <4>4. CASE way = 0 /\ byte[1] \notin {"k", "j"}
        <5>1. aim' = aim
          BY <1>0, <4>1, <4>4, AimMoves
        <5>2. pc' # "drop" => selected' = selected
          BY <2>3, <4>4
        <5>. QED BY <3>1, <5>1, <5>2
      <4>. QED BY <3>6, <4>2, <4>3, <4>4
    <3>. QED BY <3>3, <3>4, <3>7
  <2>5. pc' # "drop" => shown' = selected'
    BY <2>1, <2>3
  <2>6. pc' \in {"drop", "read", "escape"}
    BY <2>3
  <2>. QED BY <2>1, <2>4, <2>5, <2>6 DEF Followed
<1>7. CASE ReadSequence
  <2> DEFINE first == typed[1]  last == typed[2]
  <2>1. /\ pc = "escape" /\ pc' = "read" /\ Len(typed) >= 2 /\ typed' = SubSeq(typed, 2 + 1, Len(typed))
        /\ UNCHANGED <<escaped, size>> /\ shown = selected /\ selected < size
    BY <1>7 DEF ReadSequence, Move, Ignore, screen, SequenceLen, IInv, TypeOK, Followed
  <2>2. LET s == SubSeq(typed, 1, 2) IN s[1] = first /\ s[Len(s)] = last
    BY <1>0, <2>1
  <2>3. /\ Track(last)
        /\ \/ /\ <<first[1], last[1]>> \in {<<"[", "A">>, <<"O", "A">>}
              /\ selected' = Previous(selected) /\ shown' = selected'
           \/ /\ <<first[1], last[1]>> \in {<<"[", "B">>, <<"O", "B">>}
              /\ selected' = Following(selected) /\ shown' = selected'
           \/ /\ <<first[1], last[1]>> \notin {"[", "O"} \X {"A", "B"}
              /\ UNCHANGED <<selected, shown>>
    BY <1>7, <2>2 DEF ReadSequence, Move, Ignore, screen, SequenceLen
  <2>4. ASSUME ~escaped PROVE selected' = aim' /\ Intact(typed', FALSE)
    <3>1. Intact(typed, TRUE) /\ selected = aim
      BY <2>1, <2>4 DEF Followed, Running
    <3>2. 1 \in 1 .. Len(typed) /\ 2 \in 1 .. Len(typed)
      BY <1>0, <2>1
    <3>3. first \in {Bracket, Letter}
      BY <3>1, <3>2 DEF Intact
    <3>4. /\ last = ArrowUp <=> first = Bracket
          /\ last = ArrowDown <=> first = Letter
      BY <3>1, <3>2 DEF Intact
    <3>5. last \in {ArrowUp, ArrowDown}
      BY <3>3, <3>4
    <3>6. last \notin {Bracket, Letter} /\ last # Esc
      BY <3>5, BytesDiffer
    <3>7. Intact(typed', FALSE)
      <4>1. Intact(typed', last = Esc)
        BY <1>0, <2>1, <3>1, <3>2, <3>6, RestIntact
      <4>. QED BY <3>6, <4>1
    <3>8. aim' = (aim + last[2] + size) % size /\ aim \in Nat /\ aim < size
      BY <1>0, <2>1, <2>3, <2>4, <3>1 DEF Track
    <3>9. CASE first = Bracket
      <4>1. last[2] = -1 /\ <<first[1], last[1]>> = <<"[", "A">>
        BY <3>4, <3>9 DEF Bracket, ArrowUp
      <4>2. selected' = IF selected = 0 THEN size - 1 ELSE selected - 1
        BY <2>3, <4>1 DEF Previous
      <4>3. aim' = IF aim = 0 THEN size - 1 ELSE aim - 1
        BY <1>0, <3>8, <4>1, AimMoves
      <4>. QED BY <3>1, <3>7, <4>2, <4>3
    <3>10. CASE first = Letter
      <4>1. last[2] = 1 /\ <<first[1], last[1]>> = <<"O", "B">>
        BY <3>4, <3>10 DEF Letter, ArrowDown
      <4>2. selected' = (selected + 1) % size
        BY <2>3, <4>1 DEF Following
      <4>3. aim' = (aim + 1) % size
        BY <1>0, <3>8, <4>1, AimMoves
      <4>. QED BY <3>1, <3>7, <4>2, <4>3
    <3>. QED BY <3>3, <3>9, <3>10
  <2>5. shown' = selected'
    BY <2>1, <2>3
  <2>. QED BY <2>1, <2>4, <2>5 DEF Followed
<1>8. CASE ReadNothing
  <2>1. pc' = "drop" /\ typed' = <<>>
    BY <1>8 DEF ReadNothing, EndOfInput, Leave
  <2>. QED BY <2>1, NothingIntact DEF Followed
<1>9. CASE Drop
  <2>1. pc = "drop" /\ UNCHANGED <<typed, escaped>> /\ pc' \in {"number", "ask", "after", "wizard", "exit"}
    BY <1>9 DEF Drop, Returned
  <2>. QED BY <2>1 DEF Followed, Running
<1>10. CASE Number \/ Ask \/ WaitForEnter
  <2>1. /\ pc \in {"number", "ask", "after"} /\ (ReadLine \/ typed' = <<>>) /\ UNCHANGED escaped
        /\ pc' \in {"ask", "after", "wizard", "exit", "open"}
    BY <1>10 DEF Number, Returned, Ask, WaitForEnter
  <2>2. ~escaped => Intact(typed', FALSE)
    BY <1>0, <2>1, LineIntact DEF Followed, Running
  <2>. QED BY <2>1, <2>2 DEF Followed
<1>11. CASE Begin \/ Finish
  <2>1. pc \in {"wizard", "ask"} /\ pc' \in {"open", "after", "ask"} /\ UNCHANGED <<typed, escaped>>
    BY <1>11 DEF Begin, Finish
  <2>. QED BY <2>1 DEF Followed, Running
<1>. QED
  BY <1>1, <1>2, <1>3, <1>4, <1>5, <1>6, <1>7, <1>8, <1>9, <1>10, <1>11 DEF Next, Program

\* With any number of choices and of keys typed ahead, the selection is the
\* choice that the keys point to, and the one on the screen.
THEOREM SelectionIsFollowed == Spec => []SelectionFollowsKeys
<1>1. Followed => SelectionFollowsKeys
  BY DEF Followed, SelectionFollowsKeys
<1>. QED BY <1>1, InitIInv, NextIInv, InitFollowed, NextFollowed, PTL DEF Spec
=============================================================================

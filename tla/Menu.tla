-------------------------------- MODULE Menu --------------------------------
(***************************************************************************)
(* The interactive program (src/src/cli.rs): the menu, the picker that     *)
(* reads single keys from a terminal in raw mode, the questions of the     *)
(* wizards in the terminal's own mode, and what the user types at any      *)
(* time.  What the wizards do to files is the business of the stores.      *)
(*                                                                         *)
(* The terminal keeps what is typed ahead.  Only the four settings of the  *)
(* picker are told apart from the ones it found: mode is "raw" or          *)
(* "cooked".                                                               *)
(***************************************************************************)
EXTENDS Integers, Sequences

CONSTANTS
  MaxContacts,  \* bound on the pinned contacts
  MaxTyped,     \* bound on the bytes the terminal keeps for the program
  Keys          \* the keys the user presses, of those in Pressed

ASSUME MenuAssumption ==
  /\ MaxContacts \in Nat /\ MaxTyped \in Nat
  /\ Keys \subseteq {"up", "down", "k", "j", "escape", "enter", "cancel", "other"}

MENU_ITEMS == 7

\* Choices of the menu, counted from zero as in the code.
Create == 0
Export == 1
Trust  == 2
Seal   == 3
Open   == 4
Show   == 5
Exit   == 6

VARIABLES
  pc,         \* what the program is about to do
  list,       \* what choose_from_list offers: the menu or the recipients
  size,       \* how many choices it has
  selected,   \* the choice that is selected
  shown,      \* the choice drawn as selected
  outcome,    \* how the picker ended
  questions,  \* how many more lines the wizard asks for
  mode,       \* the mode of the terminal
  saved,      \* RawTerminal::saved_mode
  typed,      \* bytes typed and not read yet: <<byte, the way its key points>>
  hung,       \* the terminal is gone
  aim,        \* history: where the keys read in this picker point to
  escaped,    \* history: Escape was pressed on its own
  lost,       \* history: a Ctrl-C was read in this picker and did not end it
  broken      \* history: a mode could not be restored

screen == <<list, size, selected, shown, outcome, questions>>
vars   == <<pc, screen, mode, saved, typed, hung, aim, escaped, lost, broken>>

Picker == {"set", "read", "escape", "drop"}

-----------------------------------------------------------------------------
(***************************************************************************)
(* The user and the terminal.                                              *)
(***************************************************************************)
ESC == "ESC"

\* What a key sends; the last part of a byte is the way the key points.
Pressed ==
  [up     |-> << <<ESC, 0>>, <<"[", 0>>, <<"A", -1>> >>,
   down   |-> << <<ESC, 0>>, <<"O", 0>>, <<"B", 1>> >>,
   k      |-> << <<"k", -1>> >>,
   j      |-> << <<"j", 1>> >>,
   escape |-> << <<ESC, 0>> >>,
   enter  |-> << <<"CR", 0>> >>,
   cancel |-> << <<"ETX", 0>> >>,
   other  |-> << <<"B", 0>> >>]

\* A byte and the way its key points.
Bytes == {ESC, "[", "O", "A", "B", "k", "j", "CR", "ETX"} \X {-1, 0, 1}

Running == pc \notin {"exit", "dead"}

\* Ctrl-C is a signal unless the terminal is raw.
Press(key) ==
  /\ Running /\ ~hung
  /\ Len(typed) + Len(Pressed[key]) <= MaxTyped
  /\ IF key = "cancel" /\ mode = "cooked"
       THEN pc' = "dead" /\ typed' = <<>>
       ELSE typed' = typed \o Pressed[key] /\ UNCHANGED pc
  /\ escaped' = (escaped \/ key = "escape")
  /\ UNCHANGED <<screen, mode, saved, hung, aim, lost, broken>>

\* The window is closed under a program that ignores the signal for it.
Hangup ==
  /\ Running /\ ~hung
  /\ hung' = TRUE
  /\ UNCHANGED <<pc, screen, mode, saved, typed, aim, escaped, lost, broken>>

\* No destructor runs.
Kill ==
  /\ Running
  /\ pc' = "dead"
  /\ UNCHANGED <<screen, mode, saved, typed, hung, aim, escaped, lost, broken>>

\* A line is read: up to its end, or all there is when lines are not kept
\* apart, since the reader's buffer is dropped with it.
ReadLine ==
  \E i \in DOMAIN typed :
    /\ typed[i][1] = "CR"
    /\ \A h \in 1 .. i - 1 : typed[h][1] # "CR"
    /\ \/ typed' = SubSeq(typed, i + 1, Len(typed))
       \/ mode = "raw" /\ typed' = <<>>

-----------------------------------------------------------------------------
(***************************************************************************)
(* RawTerminal and choose_from_list.                                       *)
(***************************************************************************)

\* RawTerminal::enter: the mode is asked for first ...
Enter ==
  /\ pc = "open"
  /\ \/ ~hung /\ saved' = mode /\ pc' = "set"
     \/ pc' = "number" /\ UNCHANGED saved
  /\ UNCHANGED <<screen, mode, typed, hung, aim, escaped, lost, broken>>

\* ... then it is set.  A failure may leave some settings changed.
SetRaw ==
  /\ pc = "set"
  /\ \/ /\ mode' = "raw" /\ pc' = "read"
        /\ selected' = 0 /\ shown' = 0 /\ aim' = 0 /\ lost' = FALSE
        /\ UNCHANGED outcome
     \/ /\ mode' \in {mode, "raw"} /\ pc' = "drop" /\ outcome' = "unavailable"
        /\ UNCHANGED <<selected, shown, aim, lost>>
  /\ UNCHANGED <<list, size, questions, saved, typed, hung, escaped, broken>>

\* A slip of Previous: it stops at the first choice.
PreviousStops(i) == IF i = 0 THEN 0 ELSE i - 1

Previous(i) == IF i = 0 THEN size - 1 ELSE i - 1

\* A slip of Following: there is no first choice after the last.
FollowingGoesOn(i) == i + 1

Following(i) == (i + 1) % size

\* A key moves the selection, which is drawn again.
Move(way) ==
  /\ selected' = IF way = "up" THEN Previous(selected) ELSE Following(selected)
  /\ shown' = selected'
  /\ pc' = "read"
  /\ UNCHANGED <<list, size, outcome, questions>>

Leave(how) ==
  /\ outcome' = how
  /\ pc' = "drop"
  /\ UNCHANGED <<list, size, selected, shown, questions>>

Ignore == pc' = "read" /\ UNCHANGED screen

\* What has been read points the way of its keys; a bare Escape breaks keys up.
Track(byte) == aim' = IF escaped THEN 0 ELSE (aim + byte[2] + size) % size

\* The first byte of a key.
ReadKey ==
  /\ pc = "read" /\ typed # <<>>
  /\ LET byte == Head(typed)[1]
     IN  \/ byte = "CR"  /\ Leave("chosen")
         \/ byte = "ETX" /\ Leave("cancelled")
         \/ byte = "k"   /\ Move("up")
         \/ byte = "j"   /\ Move("down")
         \/ byte = ESC   /\ pc' = "escape" /\ UNCHANGED screen
         \/ byte \notin {"CR", "ETX", "k", "j", ESC} /\ Ignore
  /\ typed' = Tail(typed)
  /\ Track(Head(typed))
  /\ UNCHANGED <<mode, saved, hung, escaped, lost, broken>>

\* A slip of SequenceLen: the terminal's final byte is waited for.
SequenceUntilLetter == LET ends == {i \in DOMAIN typed : typed[i][1] \in {"A", "B"}}
                       IN  IF ends = {} THEN Len(typed) + 1
                           ELSE CHOOSE i \in ends : \A j \in ends : i <= j

\* How many bytes are taken to belong to an Escape.
SequenceLen == 2

\* What follows an Escape: always two bytes, whatever they are.
ReadSequence ==
  /\ pc = "escape" /\ Len(typed) >= SequenceLen
  /\ LET sequence == SubSeq(typed, 1, SequenceLen)
         keys     == <<sequence[1][1], sequence[Len(sequence)][1]>>
     IN  /\ \/ keys \in {<<"[", "A">>, <<"O", "A">>} /\ Move("up")
            \/ keys \in {<<"[", "B">>, <<"O", "B">>} /\ Move("down")
            \/ keys \notin {"[", "O"} \X {"A", "B"} /\ Ignore
         /\ typed' = SubSeq(typed, SequenceLen + 1, Len(typed))
         /\ Track(sequence[Len(sequence)])
         /\ lost' = (lost \/ \E i \in DOMAIN sequence : sequence[i][1] = "ETX")
  /\ UNCHANGED <<mode, saved, hung, escaped, broken>>

\* A slip of EndOfInput: it is taken for a key without a meaning.
EndOfInputIgnored == Ignore

\* read_exact has no more to give.
EndOfInput == Leave("failed")

ReadNothing ==
  /\ hung
  /\ \/ pc = "read" /\ typed = <<>>
     \/ pc = "escape" /\ Len(typed) < SequenceLen
  /\ EndOfInput
  /\ typed' = <<>>
  /\ UNCHANGED <<mode, saved, hung, aim, escaped, lost, broken>>

\* How choose_from_list ended, in the menu and in wizard_seal.
Returned(how) ==
  /\ pc' = IF how = "unavailable" THEN "number"
           ELSE IF list = "recipients" THEN (IF how = "chosen" THEN "ask" ELSE "after")
           ELSE IF how = "chosen" /\ selected' # Exit THEN "wizard"
           ELSE "exit"
  /\ IF list = "recipients" /\ how = "chosen" THEN questions' \in {2, 3} ELSE UNCHANGED questions
  /\ UNCHANGED <<list, size>>

\* A slip of restore_stty: the terminal is put back at the end of the program.
RestoreLater == UNCHANGED <<mode, broken>>

\* The error of a failed stty is dropped.
restore_stty ==
  \/ mode' = saved /\ UNCHANGED broken
  \/ broken' = TRUE /\ UNCHANGED mode

\* RawTerminal is dropped on every way out of the picker.
Drop ==
  /\ pc = "drop"
  /\ restore_stty
  /\ saved' = "none"
  /\ selected' = IF outcome = "chosen" THEN selected ELSE 0
  /\ shown' = 0 /\ aim' = 0 /\ lost' = FALSE /\ outcome' = "none"
  /\ Returned(outcome)
  /\ UNCHANGED <<typed, hung, escaped>>

\* The list without arrows: a number is asked for.
Number ==
  /\ pc = "number"
  /\ \/ /\ ReadLine
        /\ \/ \E i \in 0 .. size - 1 : selected' = i /\ Returned("chosen")
           \/ selected' = 0 /\ Returned("failed")
     \/ hung /\ typed' = <<>> /\ selected' = 0 /\ Returned("failed")
  /\ UNCHANGED <<shown, outcome, mode, saved, hung, aim, escaped, lost, broken>>

-----------------------------------------------------------------------------
(***************************************************************************)
(* The wizards, as far as they use the terminal.                           *)
(***************************************************************************)

\* The lines a wizard asks for: paths, names, yes or no.
Questions(item) ==
  CASE item = Create -> {1, 2}
    [] item = Export -> {0, 1}
    [] item = Trust  -> {2}
    [] item = Open   -> {2, 3}
    [] item = Show   -> {0}

\* The wizard of the item that was selected.  Sealing begins with a list, if
\* there are contacts and all of them can be read.
Begin ==
  /\ pc = "wizard"
  /\ IF selected = Seal
       THEN \/ \E n \in 1 .. MaxContacts :
                 pc' = "open" /\ list' = "recipients" /\ size' = n /\ UNCHANGED questions
            \/ pc' = "after" /\ UNCHANGED <<list, size, questions>>
       ELSE pc' = "ask" /\ questions' \in Questions(selected) /\ UNCHANGED <<list, size>>
  /\ selected' = 0
  /\ UNCHANGED <<shown, outcome, mode, saved, typed, hung, aim, escaped, lost, broken>>

\* prompt, prompt_yes_no and read_multiline_letter; an answer may be refused,
\* the letter takes more than one line, and the end of input is an error or
\* the default answer.
Ask ==
  /\ pc = "ask" /\ questions > 0
  /\ \/ ReadLine /\ questions' \in {questions, questions - 1} /\ UNCHANGED pc
     \/ ReadLine /\ pc' = "after" /\ UNCHANGED questions
     \/ hung /\ typed' = <<>> /\ questions' = questions - 1 /\ UNCHANGED pc
     \/ hung /\ typed' = <<>> /\ pc' = "after" /\ UNCHANGED questions
  /\ UNCHANGED <<list, size, selected, shown, outcome, mode, saved, hung, aim, escaped, lost, broken>>

\* All questions are answered; the wizard does its work, or fails.
Finish ==
  /\ pc = "ask" /\ questions = 0
  /\ pc' = "after"
  /\ UNCHANGED <<screen, mode, saved, typed, hung, aim, escaped, lost, broken>>

\* wait_for_enter, and the menu again: the end of input is a line, an error of
\* the terminal ends the program.
WaitForEnter ==
  /\ pc = "after"
  /\ \/ ReadLine /\ pc' = "open"
     \/ hung /\ typed' = <<>> /\ pc' \in {"open", "exit"}
  /\ list' = "menu" /\ size' = MENU_ITEMS /\ questions' = 0 /\ selected' = 0
  /\ UNCHANGED <<shown, outcome, mode, saved, hung, aim, escaped, lost, broken>>

-----------------------------------------------------------------------------
Init ==
  /\ pc = "open" /\ list = "menu" /\ size = MENU_ITEMS
  /\ selected = 0 /\ shown = 0 /\ outcome = "none" /\ questions = 0
  /\ mode = "cooked" /\ saved = "none"
  /\ typed = <<>> /\ hung = FALSE
  /\ aim = 0 /\ escaped = FALSE /\ lost = FALSE /\ broken = FALSE

Program ==
  \/ Enter \/ SetRaw \/ ReadKey \/ ReadSequence \/ ReadNothing \/ Drop
  \/ Number \/ Begin \/ Ask \/ Finish \/ WaitForEnter

Next ==
  \/ Program
  \/ \E key \in Keys : Press(key)
  \/ Hangup
  \/ Kill

Spec == Init /\ [][Next]_vars

\* The program goes on as long as it can; the user need not.
FairSpec == Spec /\ WF_vars(Program)

-----------------------------------------------------------------------------
(***************************************************************************)
(* Properties.                                                             *)
(***************************************************************************)

\* Every variable has its type; what is selected is a choice of the list that
\* is open, and at most MaxTyped bytes wait.
TypeOK ==
  /\ pc \in Picker \cup {"open", "number", "wizard", "ask", "after", "exit", "dead"}
  /\ list \in {"menu", "recipients"} /\ size \in 1 .. (MaxContacts + MENU_ITEMS)
  /\ selected \in Nat /\ shown \in Nat /\ aim \in Nat
  /\ pc \in {"read", "escape"} => selected < size
  /\ outcome \in {"none", "chosen", "cancelled", "failed", "unavailable"}
  /\ questions \in 0 .. 3
  /\ mode \in {"cooked", "raw"} /\ saved \in {"none", "cooked", "raw"}
  /\ typed \in Seq(Bytes) /\ Len(typed) <= MaxTyped
  /\ hung \in BOOLEAN /\ escaped \in BOOLEAN /\ lost \in BOOLEAN /\ broken \in BOOLEAN

\* Outside the picker the terminal is as the program found it: at every
\* question, at the next list and when the program ends, whichever way the
\* picker was left, unless stty itself failed.  A program that is killed in
\* the picker cannot see to it (cli.rs:521-539).
TerminalRestored ==
  pc \notin Picker \cup {"dead"} /\ ~broken => mode = "cooked"

\* The selection is the one the keys point to and the one on the screen, at
\* both ends of the list, for both kinds of arrow keys and with keys that were
\* typed before the list was there (cli.rs:347-360, 573-592).
SelectionFollowsKeys ==
  pc = "read" => shown = selected /\ (~escaped => selected = aim)

\* Three times Ctrl-C ends the picker, whatever was pressed before it: an
\* Escape swallows two of them (cli.rs:582-588).
ThreeCancelsEnd ==
  (/\ pc \in {"read", "escape"}
   /\ \E i \in 1 .. Len(typed) - 2 : \A j \in i .. i + 2 : typed[j][1] = "ETX")
    ~> pc \notin Picker

\* A program whose terminal is gone ends: no list, question or pause is
\* repeated for ever on an input that has ended (cli.rs:62-83, 461-474).
HangupEnds == hung ~> ~Running

\* "Ctrl-C cancels" (cli.rs:343): no list goes on after a Ctrl-C was read.
CtrlCCancels == pc = "read" => ~lost
=============================================================================

-------------------------------- MODULE Cli --------------------------------
(***************************************************************************)
(* The program from its start (cli.rs, run): without words it is the menu, *)
(* if there is a terminal; else the first word is a command.               *)
(***************************************************************************)
EXTENDS Menu, Options

CONSTANT CommandLines   \* the words that users give: <<command, words after it>>

ASSUME CommandLinesAssumption ==
  CommandLines \subseteq (Commands \cup {"help", "other"}) \X Seq(Words)

VARIABLE started        \* what the program is: "not", "menu", "command" or "usage"

CliInit == Init /\ LineInit /\ started = "not"

\* stdin and stdout are looked at only when there is no word.
Start ==
  /\ started = "not"
  /\ \/ started' \in {"menu", "usage"} /\ UNCHANGED lineVars
     \/ /\ started' = "command"
        /\ \E line \in CommandLines, e \in BOOLEAN : Run(line[1], line[2], e)
  /\ UNCHANGED vars

MenuNext == started = "menu" /\ Next /\ UNCHANGED <<started, lineVars>>

CommandNext == started = "command" /\ LineStep /\ UNCHANGED <<started, vars>>

CliNext == Start \/ MenuNext \/ CommandNext

CliSpec == /\ CliInit /\ [][CliNext]_<<started, vars, lineVars>>
           /\ WF_vars(Program /\ started = "menu")
=============================================================================

------------------------------- MODULE MCCli -------------------------------
(***************************************************************************)
(* The command line and the menu for TLC.                                  *)
(***************************************************************************)
EXTENDS Cli

CONSTANT MaxArgs

\* An operand with a contact name and one without, a word that is not UTF-8, a
\* word with a dash that is no option, and the options.
MCPlain == {"path", "odd."}
MCWords == MCPlain \cup {"raw", "-x", "--unlock-key", "--name", "--output", "--keep"}

MCCommandLines ==
  {"init", "identity", "trust", "seal", "open"} \X UNION {[1 .. n -> MCWords] : n \in 0 .. MaxArgs}
    \cup {<<"identity", <<"export">>>>, <<"help", <<>>>>, <<"other", <<>>>>}
=============================================================================

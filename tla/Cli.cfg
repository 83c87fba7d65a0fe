SPECIFICATION CliSpec
CONSTANTS
  MaxContacts = 2
  MaxTyped = 3
  Keys = {"up", "down", "k", "escape", "enter", "cancel", "other"}
  Plain <- MCPlain
  Raw = {"raw"}
  Stems = {"path"}
  Unknown = {"-x"}
  CommandLines <- MCCommandLines
  MaxArgs = 4
INVARIANTS TypeOK TerminalRestored SelectionFollowsKeys KeepHonoured FollowsGrammar
PROPERTIES ThreeCancelsEnd HangupEnds
CHECK_DEADLOCK FALSE

SPECIFICATION Spec
CONSTANTS
  MaxContacts = 1
  MaxTyped = 3
  Keys = {"up", "escape", "enter", "cancel"}
INVARIANTS CtrlCCancels
CHECK_DEADLOCK FALSE

SPECIFICATION PowerSpec
CONSTANTS
  Procs = {p1, p2}
  UnlockPaths = {usb, home}
  InsideState = {}
  Draws = {d1, d2}
  Absent = Absent
  Torn = Torn
  MaxCuts = 1
SYMMETRY Symmetric
INVARIANTS IssuedLoadable OneIdentity
PROPERTIES IssuedKeysWholeOrGone

SPECIFICATION Spec
CONSTANTS
  Procs = {p1, p2, p3}
  UnlockPaths = {usb, home, nested}
  InsideState = {nested}
  Draws = {d1, d2}
  Absent = Absent
  Torn = Torn
SYMMETRY Symmetric
INVARIANTS TypeOK IssuedLoadable OneIdentity ExportedHolds DirsPrivate
PROPERTIES CompleteFilesKept

SPECIFICATION Spec
CONSTANTS
  Procs = {p1, p2}
  UnlockPaths = {usb, home}
  InsideState = {}
  Draws = {d1, d2}
  Absent = Absent
  Torn = Torn
INVARIANT SummaryTells

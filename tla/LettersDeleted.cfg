SPECIFICATION Spec
CONSTANTS
  alice = alice
  bob = bob
  l1 = l1
  Procs = {p1, p2}
  Homes <- MCHomes
  Own <- MCOwn
  Offered <- MCFriends
  Claims <- MCNone
  Keys = {1, 2, 3, 4}
  Aliases = {1}
  Letters = {l1, l2}
  Places = {x}
  Stdout = Stdout
  NoPin = NoPin
  Absent = Absent
  Damaged = Damaged
  MaxForeign = 0
SYMMETRY Symmetric
PROPERTY DeletedWasShown


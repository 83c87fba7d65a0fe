SPECIFICATION Spec
CONSTANTS
  alice = alice
  bob = bob
  l1 = l1
  Procs = {p1}
  Homes <- MCHomes
  Own <- MCOwn
  Offered <- MCOffered
  Claims <- MCClaims
  Keys = {1, 2, 3, 4}
  Aliases = {1, 2}
  Letters = {l1}
  Places = {x}
  Stdout = Stdout
  NoPin = NoPin
  Absent = Absent
  Damaged = Damaged
  MaxForeign = 1
INVARIANTS TypeOK PinnedIsGenuine VerdictIsWarranted
PROPERTIES ImplementsPost

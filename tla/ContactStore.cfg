SPECIFICATION FairSpec
CONSTANTS
  Procs = {p1, p2}
  Aliases = {1, 2}
  Profiles = {k1, k2}
  Absent = Absent
  Torn = Torn
INVARIANTS TypeOK AnswersStayTrue NoPinMissed DamageNeedsFault
PROPERTIES ContendedNameIsPinned ImplementsPins

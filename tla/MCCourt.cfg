CONSTANTS
  j1 = j1
  j2 = j2
  desk1 = desk1
  Jurors = {j1, j2}
  threshold = 2
  Desks = {desk1}
  ReleaseIn = 1
  RoundIn = 1
  arbitrationTimeout = 2
  MaxTime = 4
  LastOpened = 0
  MaxRestarts = 1
  MaxLosses = 1
  PermitLife = 1
  CasePermitLife = 2
  grace = 1
SPECIFICATION FairSpec
CHECK_DEADLOCK FALSE
INVARIANTS ClosedTrue DutyKept
PROPERTY CaseEnds

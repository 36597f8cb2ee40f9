CONSTANTS
  Loops = {l1}
  Posters = {p1}
  MinGap = 2
  Interval = 1
  MaxCycle = 1
  MaxTime = 7
SPECIFICATION Spec
INVARIANTS
  TypeOK
  OwnSpacing
  Fresh

CONSTANTS
  Loops = {l1}
  Posters = {p1}
  MinGap = 2
  Interval = 3
  MaxCycle = 3
  MaxTime = 9
SPECIFICATION Spec
INVARIANTS
  NoOverlap

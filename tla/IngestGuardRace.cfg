CONSTANTS
  Loops = {l1, l2}
  Posters = {}
  MinGap = 2
  Interval = 3
  MaxCycle = 0
  MaxTime = 6
SPECIFICATION Spec
INVARIANTS
  Spacing

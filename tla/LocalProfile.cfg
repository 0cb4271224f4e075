CONSTANTS
  Runs = {r1, r2}
  Keys = {k1, k2}
  NoKey = NoKey
  LeaseTime = 1
  MaxSequence = 0
  MaxMishaps = 2
SPECIFICATION Spec
SYMMETRY Symmetry
INVARIANTS
  SelectedWithOutcome
  ProgressEndsWithOutcome
  OneRunPerKey
  CancelStands

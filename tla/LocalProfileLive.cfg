CONSTANTS
  Runs = {r1, r2}
  Keys = {k1}
  NoKey = NoKey
  LeaseTime = 1
  MaxSequence = 1
  MaxMishaps = 2
SPECIFICATION FairSpec
PROPERTIES
  RunEnds

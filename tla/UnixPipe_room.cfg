SPECIFICATION FairSpec
CONSTANTS
  Readers = {r1, r2}
  Writers = {w1, w2}
  Capacity = 2
  MaxChunk = 3
  MaxBytes = 5
PROPERTIES
  WritersWaitOnlyWhenFull

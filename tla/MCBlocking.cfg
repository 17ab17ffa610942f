SPECIFICATION BlockingSpec
CONSTANTS
  Threads = {t1, t2, t3, t4}
  NoThread = NoThread
  Readers = {t1, t2}
  Writers = {t3, t4, t5}
  Initial = 2
  MaxValue = 3
  MaxN = 4
  MealsGoal = 2
  NoOne = NoOne
  Goroutines = {g1, g2, g3}
  Iters = 3
  PipeReaders = {r1, r2}
  PipeWriters = {w1, w2}
  PipeCapacity = 2
  MaxChunk = 3
  MaxBytes = 5
  Gs = {g1, g2}
  FDs = {f1, f2}
  NoG = NoG
  MaxEvents = 1
  MaxPackets = 2
INVARIANTS
  BlockingTypesOK
  SoleOwner
  OwnershipInv
  SemaphoreInv
  RWLockInv
  OnlyCircularWait
  CountsWithinBounds
  StreamIntact
  PipeWakeups
  ParkedCanBeFound
PROPERTIES
  NoBarging
  LocksImplementLockSpec
  WaitersAreServed
  CloseReleases
  EventIsDelivered

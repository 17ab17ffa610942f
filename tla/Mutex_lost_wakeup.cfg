SPECIFICATION FairSpec
CONSTANTS
  Threads = {t1, t2}
  NoThread = NoThread
PROPERTIES
  ParkedIsAwakened
CHECK_DEADLOCK FALSE

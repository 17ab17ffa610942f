SPECIFICATION SystemSpec
CONSTANTS
  MaxPID = 5
  NumPages = 1
  ExitCodes = {0}
  Nil = Nil
  MaxNesting = 2
  WordSize = 16777216
  KernelBase = 4194304
  CallerPIDs = {1, 42}
  BufPtrs = {0, 4194303, 4194304}
  Counts = {0, 1, 8388607, 8388608}
  VirtualPages = {v1, v2, v3, v4}
  NumFrames = 2
  TLBCapacity = 2
  NoPage = NoPage
  Keys = {k1, k2, k3}
  MaxTick = 6
  DirIndices = {0, 1}
  TableIndices = {0, 1}
  TableFrames = {1}
  NoFrame = 0
  HeapStart = 3
  HeapSize = 12
  NoBlock = NoBlock
  Slack = 1
  BlockSizes = {1, 2, 3, 5}
  MinOrder = 1
  MaxOrder = 4
  BuddySizes = {0, 1, 2, 3, 4, 5, 8, 9, 17}
  Modulus = 16
  StackBase = 9
  StackSize = 7
  MaxDepth = 4
  FrameSizes = {0, 1, 2, 3, 5, 12}
  SpaceSize = 12
  PhysicalBase = 5
  MaxIncrement = 5
  Producers = {p1, p2}
  Consumers = {c1, c2}
  NoThread = NoThread
  Capacity = 2
  MaxItems = 4
  NumProcesses = 3
  A = a
  B = b
  MsgTypes = {1, 2}
  QueueCapacity = 3
  MaxSent = 5
  ShmPIDs = {1, 2}
  ShmPages = 2
  MaxVPN = 2
  MaxSegments = 2
  MaxMappings = 3
  SegThreads = {t1, t2, t3}
  NoSegThread = NoSegThread
  NoCall = NoCall
  Bytes = {0, 1}
INVARIANTS
  SystemTypesOK
  ProcessTree
  ZombiesAreLeaves
  DebuggerNeverPanics
  PagingInv
  AllocatorsInv
  StackAndHeapInv
  BufferIntact
  MonitorInv
  TypedFIFO
  SharedMemoryInv
PROPERTIES
  
  EvictionSparesNewest
  ImplementsLRUCache
  TwoLevelIsLinear
  BankerIsSafe

------------------------------ MODULE MCShared ------------------------------
(***************************************************************************)
(* The message queue and the shared memory of pkg/ipc under the names that *)
(* MCSystem uses.                                                          *)
(***************************************************************************)
CONSTANTS
  MsgTypes, QueueCapacity, MaxSent,                     \* of the message queue
  ShmPIDs, ShmPages, MaxVPN, MaxSegments, MaxMappings,  \* of the shared memory manager
  SegThreads, NoSegThread, NoCall, Bytes                \* of a shared segment

VARIABLES
  mqMessages, mqSent, mqReceived,
  shmNext, shmMappings, shmPT,
  segData, segCall, segCopied, segOut, segSettled,
  semValue, semWaiters, semClosed, semPopped, semPC, semAsLock, semHolders, semPermits

MQ == INSTANCE MessageQueue WITH
        Capacity <- QueueCapacity,
        Messages <- mqMessages, sent <- mqSent, received <- mqReceived

Shm == INSTANCE SharedMemory WITH
         PIDs <- ShmPIDs, NumPages <- ShmPages,
         NextShmID <- shmNext, Mappings <- shmMappings, pt <- shmPT

Seg == INSTANCE SharedSegment WITH
         Threads <- SegThreads, NoThread <- NoSegThread,
         PhysicalData <- segData, call <- segCall, copied <- segCopied, out <- segOut,
         settled <- segSettled, value <- semValue, waiters <- semWaiters, closed <- semClosed,
         popped <- semPopped, pc <- semPC, asLock <- semAsLock, holders <- semHolders,
         permits <- semPermits

ASSUME SharedAssumption == MQ!ConstantsOK /\ Shm!ConstantsOK /\ Seg!ConstantsOK

mqVars == <<mqMessages, mqSent, mqReceived>>
shmVars == <<shmNext, shmMappings, shmPT>>
segVars == <<segData, segCall, segCopied, segOut, segSettled, semValue, semWaiters, semClosed,
             semPopped, semPC, semAsLock, semHolders, semPermits>>

-----------------------------------------------------------------------------
(* Message queue: no message is lost or doubled, and each type is a FIFO. *)
TypedFIFO == MQ!TypedFIFO

(* Shared memory: reads are whole, and mappings are recorded as they are in  *)
(* the page tables, as far as those reach.                                   *)
SharedMemoryInv == Seg!ReadsAreWhole /\ Shm!MappedIsRecorded

=============================================================================

-------------------------------- MODULE MCIO --------------------------------
(***************************************************************************)
(* The pipe of pkg/ipc and the netpoller of pkg/io under the names that    *)
(* MCBlocking uses.                                                        *)
(***************************************************************************)
CONSTANTS PipeReaders, PipeWriters, PipeCapacity, MaxChunk, MaxBytes

VARIABLES
  pipeBuffer, pipeReadClosed, pipeWriteClosed, pipeWritten, pipeRead,
  pipeNotEmpty, pipeNotFull, pipePC, pipeLeft

Pipe == INSTANCE UnixPipe WITH
          Readers <- PipeReaders, Writers <- PipeWriters, Capacity <- PipeCapacity,
          Buffer <- pipeBuffer, ReadClosed <- pipeReadClosed, WriteClosed <- pipeWriteClosed,
          TotalWritten <- pipeWritten, TotalRead <- pipeRead, notEmpty <- pipeNotEmpty,
          notFull <- pipeNotFull, pc <- pipePC, left <- pipeLeft

ASSUME PipeAssumption == Pipe!ConstantsOK

pipeVars == <<pipeBuffer, pipeReadClosed, pipeWriteClosed, pipeWritten, pipeRead,
              pipeNotEmpty, pipeNotFull, pipePC, pipeLeft>>

CONSTANTS Gs, FDs, NoG, MaxEvents, MaxPackets

VARIABLES
  netReady, netData, netInterest, netReadyList, netWakeCh, netParkedGs, netWoken, netPC,
  netOn, netPoll, netEvents, netParked, netPackets, netIRQ

Net == INSTANCE Netpoller WITH
         IsReady <- netReady, HasData <- netData, InterestList <- netInterest,
         ReadyList <- netReadyList, wakeCh <- netWakeCh, ParkedGs <- netParkedGs,
         woken <- netWoken, pc <- netPC, on <- netOn, poll <- netPoll, events <- netEvents,
         parked <- netParked, packets <- netPackets, irq <- netIRQ

ASSUME NetAssumption == Net!ConstantsOK

netVars == <<netReady, netData, netInterest, netReadyList, netWakeCh, netParkedGs, netWoken,
             netPC, netOn, netPoll, netEvents, netParked, netPackets, netIRQ>>

-----------------------------------------------------------------------------
(* Properties *)

(* Pipe: the bytes written and not yet read are in it, in order. *)
StreamIntact == Pipe!StreamIntact

(* Pipe: no wakeup of a reader is missed, and readers and writers never all *)
(* wait for each other.                                                     *)
PipeWakeups == Pipe!NoMissedReader /\ Pipe!NoStandstill

(* Pipe: closing an end releases everybody who is in a call at the other. *)
CloseReleases == Pipe!CloseReleases

(* Netpoller: whoever is parked can be found by the poller. *)
ParkedCanBeFound == Net!ParkedCanBeFound

(* Netpoller: an event on the ready list wakes the goroutine parked for it, *)
(* and only a second reader of its descriptor keeps one from being woken.   *)
EventIsDelivered == Net!EventIsDelivered

=============================================================================

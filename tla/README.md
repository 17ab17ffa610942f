# Verification of os-simulator in TLA+

os-simulator is a Go program that simulates the parts of an operating system:
schedulers, processes, virtual memory, locks, pipes and I/O multiplexing. Its
locks, pipes and condition variables are real concurrent code; the rest is
sequential code with rich state. This directory holds TLA+ specifications of
its components, the TLC runs that check them on small instances, and TLAPS
proofs of the most important results for every instance. Paths such as
`concurrency/mutex.go` are relative to `src/pkg/`.

## 1. Inventory

| Part | Code | State and operations | What is hard about it | Module |
|---|---|---|---|---|
| Mutex | `concurrency/mutex.go` | word, queue of channels; Lock, Unlock | the fast path races with the queue; wakeups outside the guard | `Mutex` |
| Spinlock | `concurrency/spinlock.go` | word; Lock, TryLock, Unlock | progress without a queue | `Spinlock` |
| Semaphore | `concurrency/semaphore.go` | value, queue; Wait, Signal | wakeups outside the mutex | `Semaphore` |
| Reader-writer lock | `concurrency/rwlock.go` | three counters, two conditions | whom to wake; starvation | `RWLock` |
| Condition variable, bounded buffer | `concurrency/condvar.go` | queues of channels, buffer; Wait, Signal, Put, Get | gap between test and wait, stolen wakeups | `BoundedBuffer` |
| Dining philosophers | `concurrency/dining_philosophers.go` | forks; the two scenarios | deadlock; a timer that reports one | `DiningPhilosophers` |
| Banker | `concurrency/deadlock_banker.go` | four tables; claim, request | rollback; safety search | `Banker` |
| Race demo, atomics | `concurrency/race_demo.go`, `atomics.go` | counters | lost updates | `RaceDemo` |
| Pipe | `ipc/pipe.go` | buffer, two flags, two conditions; Write, Read, closes | partial writes, closes during calls | `UnixPipe` |
| Message queue | `ipc/message_queue.go` | queue; Send, Receive | removal from the middle | `MessageQueue` |
| Shared memory | `ipc/shared_memory.go` | segments, mappings, page tables, a semaphore; CreateSegment, Attach, WriteSync, ReadSync | torn copies; three records of a mapping | `SharedMemory`, `SharedSegment` |
| Process lifecycle | `kernel/process_lifecycle.go` | process table; Fork, Exec, Exit, Wait | re-parenting, zombies, PID arithmetic | `ProcessManager` |
| Kernel, debugger | `kernel/os_kernel.go`, `cmd/os-sim/main.go` | composition of scheduler, processes, CPU; Step, TriggerSyscall, the commands | parts that disagree about processes and time | `OSKernel` |
| CPU modes, traps, system calls | `kernel/cpu_mode.go`, `trap_table.go`, `syscall.go` | mode, flags, vector table, call table | return path, mode after an error, errors as unsigned words | `HardwareCPU` |
| TLB | `memory/tlb.go` | slots, tick; Lookup, Insert, Flush | slot reuse, LRU order | `TLB` |
| Demand paging | `memory/page_replacement.go`, `paging.go` | frames, page tables, clock hand; AccessMemory | three records of where a page is | `MemoryManager`, `PageTable` |
| Multi-level page table | `memory/multilevel_pt.go` | directory, tables made on demand; Map, Translate | a table replaced or lost | `MultiLevelPageTable` |
| Allocators | `memory/allocator.go` | linked list of blocks; tree of buddies; Malloc, Free, Allocate | coalescing and back links; splitting | `FreeListAllocator`, `BuddyAllocator` |
| Address space, call stack | `memory/address_space.go`, `stack_heap.go` | break, stack pointer; Sbrk, Translate, PushFrame, PopFrame | unsigned arithmetic at the boundaries | `AddressSpace`, `CallStack` |
| Schedulers | `cpu/sched_*.go` | queues, running process; Tick | admission, preemption, accounting, starvation | `Scheduler` |
| GMP runtime | `cpu/gmp_runtime.go` | goroutines, threads, processors; Step | hand-off and stealing lose or duplicate work | `GMPRuntime` |
| Epoll, netpoller | `io/epoll.go`, `netpoller.go` | interest and ready lists, wake channel | lost and stale wakeups | `Netpoller` |
| Demos, rendering, menus | `kernel/isolation.go`, `parallelism/`, `visualizer/`, `cmd/`, `io/blocking_io.go`, `select_poll.go`, `cpu/thread.go`, `context_switch.go` | none that others depend on | | not modelled, see 6 |

How they interact: the bounded buffer is built on the condition variable, and
that on the mutex; shared memory is guarded by the semaphore; the memory
manager looks pages up through the TLB; Fork and Exec create address spaces
and page tables; the kernel owns a scheduler, a process manager and a memory
manager, and the netpoller owns an epoll instance.

## 2. Modules

Three abstract specifications say what components promise:

* `LockSpec`: threads are idle, waiting or holding, and at most `Permits` hold.
  `Mutex`, `Spinlock` (one permit) and `Semaphore` (`Initial` permits) implement it.
* `LRUCache`: a bounded map that forgets the key unused for longest. `TLB`
  implements it, and `MemoryManager` uses it in place of the TLB.
* `PageTable`: the linear page table of `paging.go`, which is a component of its
  own and what `MultiLevelPageTable` implements. Both share `PageTableEntry`.

`Mutex`. One action per atomic access or section under the guard `mu`. Lock's
section is two actions (append, then the store of 2), because another thread's
compare-and-swap can fall between them. `next` is the local variable of Unlock,
`ready` the closed channels.

`Semaphore`. Wait and Signal are one action each under `mu`, followed by the
receive and the close outside of it. `holders` and `out` are history variables.
`asLock`, fixed by Init, chooses the discipline: every thread waits and signals
as it likes, or as `WriteSync` and `ReadSync` in `ipc/shared_memory.go` do.

`Spinlock`. One action per atomic operation. Failed attempts after the first
change nothing.

`RWLock`, `UnixPipe`. `sync.Cond` and `sync.Mutex` are Go's: Signal
wakes the goroutine that has waited longest, Broadcast all, and a woken one
competes for the mutex with everybody else. A call runs without interruption
between mutex and Wait, so an action is a call, or the rest of one after a
Wait, up to its return or next Wait. In `UnixPipe` a byte is named by its
position in the stream.

`BoundedBuffer`. Put, Get, `CondVar.Wait` and `CondVar.Signal` composed with an
instance of `Mutex`, all of whose steps interleave. `CondVar.Broadcast` has no
caller and is left out.

`DiningPhilosophers`. One action per lock, meal and unlock of a philosopher;
`n` and the method called are chosen by Init and `Run`. The timer of
RunDeadlockScenario may fire at any time.

`Banker`. Sequential: SetProcessClaim, and RequestResources with its pretended
allocation and rollback. CheckSafeState is a recursive function that follows
the two loops; `BankerIsSafe` compares it with a definition that tries every
order of processes.

`RaceDemo`. A load and a store per unlocked increment, one step per atomic one;
the second goroutines start when the first have finished.

`MessageQueue`. Send and Receive, which return errors rather than block. A
message is a type and the number of its Send.

`SharedMemory`. CreateSegment and Attach. MapPage ignores pages beyond the
table, as the code does. `SharedSegment` has WriteSync and ReadSync on a segment
of two bytes, copied one by one, between Wait and Signal of an instance of
`Semaphore`, all of whose steps interleave.

`Netpoller`. ReadNonBlocking and PollAndWakeup on top of EpollCtl, EpollWait and
NotifyDeviceInterrupt. There are two mutexes and fields guarded by neither: a
section under a mutex is one action, and so is each access to `IsReady` and
`DataBuffer`. The timer of EpollWait may fire at any time. A device puts data
into the buffer and raises the interrupt afterwards, as in `io_test.go`.

`ProcessManager`. Fork, Exec, Exit and Wait, one action each, since all run
under `pm.mu`. A PCB is spread over functions of the PID. Bases are counted in
units of an address space (64 KiB). Fork and Exec on a zombie dereference a nil
pointer; the actions `ForkZombie` and `ExecZombie` model that as the end of the
program. Names, descriptors, registers and the log are left out.

`OSKernel`. Extends `ProcessManager` by NewOSKernel, Step and the step
debugger's set-up and commands. Of the scheduler it keeps what all six Ticks have
in common. Ticks are relative to the current one, which makes the model
finite without a bound on time.

`HardwareCPU`. Mode switches, instructions that change the interrupt flag or CR3
(refused in user mode only if their caller marked them privileged), DispatchTrap (its entry
and its return are two actions, with anything a handler may do in between,
traps and failures included), and the system call table. Registers hold
unsigned words, so that an error is a word that reads as a negative number.

`TLB`. Slots with validity, key, frame and tick. A key stands for ASID and VPN.

`MemoryManager`. One call of AccessMemory is one of four
actions: a TLB hit, a miss on a present page, a fault served from a free frame,
a fault with eviction. A page stands for PID and VPN. Ticks serve to order
frames only, so the orders are kept instead. `Policy` is a variable fixed by
Init. An access to an invalid page returns an error and is not an action.

`MultiLevelPageTable`. Map and Translate over a directory of tables. The
refinement maps the directory to one function from pairs of indices to entries.

`FreeListAllocator`. The doubly linked list with Size, IsAllocated, Next and
Prev of each block; Malloc for first and best fit, Free with a merge to the
right and one to the left. `BuddyAllocator` keeps the leaves of the tree, in
address order, which is the order in which the search visits them.

`CallStack`, `AddressSpace`. PushFrame and PopFrame, Sbrk and Translate. The
stack's addresses wrap at `Modulus` (2^64 in the code).

`Scheduler`. AddProcess and one Tick action per policy, all under one set of
variables; `Policy` is fixed by Init. The phases the six Ticks share (admitting
arrivals, counting waiting times, running for a tick, finishing) are operators;
what differs is who is preempted and who is dispatched. The lottery may be won
by any ready process, since all hold the same number of tickets. The drivers
add all processes before tick 0; the model lets them be added between ticks
too, before the tick of their arrival.

`GMPRuntime`. SpawnGoroutine, and Step, which holds `rt.mu` throughout: an
action for each iteration of its loop over the Ps (`Handoff`, `Work`,
`Schedule`) and one for its loop over blocked threads; `turn` keeps them in
order and keeps SpawnGoroutine out. findRunnableG is the set of its possible
results, more than one only when it steals. RunNext and NetworkPoller are left
out because nothing fills them, acquireM because a hand-off gives
P a new thread at once and nothing else takes its thread away.

`Lists` has what the code, and Go's `sync.Cond`, do with lists: cutting an
element out, sorting, waiting and waking.

`MCBlocking`, `MCSystem` and `MCCPU` instantiate several components for
one run of TLC. The components share no state: a variable fixed by Init says
which of them a behaviour exercises, and the others stay in their initial
states. Composition proper is in `BoundedBuffer`, `SharedSegment`, `OSKernel`,
`MemoryManager` and `Netpoller`. The instances themselves, and the properties
that join those of several units, are in modules that the former extend:
`MCSync` and `MCIO` (for `MCBlocking`), `MCPaging`, `MCHeap` and `MCShared` (for
`MCSystem`). The proofs extend these, and so speak about the very definitions
that TLC checks.

Operators introduced by "Mutation:" are plausible mistakes in the definition
that follows. Putting one in its place breaks the property `PROJECT.json` names
with it; that is how the properties are known to have force.

## 3. Runs

Passing runs. A property that joins those of several units is given with its
parts.

| Run | Checks | Bounds |
|---|---|---|
| `blocking`: mutex | `SoleOwner`, `OwnershipInv`, `NoBarging`, `LocksImplementLockSpec`, `WaitersAreServed` (a queued thread gets the lock) | 4 threads: holder, one being woken, one queued, one newcomer |
| `blocking`: spinlock | `LocksImplementLockSpec`, `WaitersAreServed` (one or another spinning thread gets through) | 4 threads |
| `blocking`: semaphore | `SemaphoreInv` (permits balance; a blocked thread is queued or on its way), `LocksImplementLockSpec`, `WaitersAreServed` | 4 threads, 2 permits, value up to 3: two hold, two wait |
| `blocking`: reader-writer lock | `RWLockInv` (`Exclusion`, `NoMissedWakeup`), `WaitersAreServed` (readers do not starve writers) | 2 readers, 3 writers: one inside, one woken, one asleep |
| `blocking`: philosophers | `OnlyCircularWait`, `WaitersAreServed` (in the hierarchy everybody eats) | 1 to 4 philosophers, 2 meals each |
| `blocking`: race demo | `CountsWithinBounds` | 3 goroutines, 3 iterations: a store can undo increments of two others |
| `blocking`: pipe | `StreamIntact`, `PipeWakeups` (`NoMissedReader`, `NoStandstill`), `CloseReleases` | 2 readers, 2 writers, capacity 2, chunks up to 3 (more than the capacity), 5 bytes |
| `blocking`: netpoller | `ParkedCanBeFound`, `EventIsDelivered` | 2 goroutines, 2 descriptors, 2 packets, 1 event per EpollWait (64 in the code) so that some are left over |
| `system`: banker | `BankerIsSafe` (tables agree, the search is exact, safe states stay safe) | 3 processes, 2 units of one resource and 1 of another, all claims |
| `system`: bounded buffer | `BufferIntact`, `MonitorInv` (no missed signal, monitor discipline) | 2 producers, 2 consumers, capacity 2, 4 items: two Puts fill it, two more wait |
| `system`: message queue | `TypedFIFO` | 2 types and "any", capacity 3, 5 messages: full, and emptied from the middle |
| `system`: shared memory | `SharedMemoryInv` (`ReadsAreWhole`, `MappedIsRecorded`) | 3 threads on 2 bytes; 2 processes, 2 segments, 3 mappings, pages inside and beyond a table of 2 |
| `system`: processes | `ProcessTree`, `ZombiesAreLeaves` | PIDs up to 5 (a grandchild, siblings, adoption), 1 page, 1 exit code (neither property looks at pages or codes) |
| `system`: debugger | the same and `DebuggerNeverPanics` | PIDs up to 5: init, the two of the set-up, two more forks |
| `system`: CPU | `TrapDiscipline` | traps nested twice; words of 24 bits, with arguments on both sides of the sign bit and of the kernel's base |
| `system`: paging | `PagingInv` (`TranslationsAgree`, `ModifiedIsDirty`), `EvictionSparesNewest` | 4 pages, 2 frames, 2 TLB slots: two evictions in a row |
| `system`: TLB | `ImplementsLRUCache` | 3 keys, 2 slots, 6 ticks: eviction after flush and reuse |
| `system`: page table | `TwoLevelIsLinear` | 2 tables of 2 entries |
| `system`: allocators | `AllocatorsInv` (`BlocksTile`, `BytesAddUp`, `BuddiesTile`) | 12 bytes in blocks of 1, 2, 3, 5 with a slack of 1; orders 1 to 4, with sizes at, below and above powers of two |
| `system`: stack and heap | `StackAndHeapInv` (`FramesNest`, `HeapBounded`) | addresses modulo 16, a stack of 7 below 9 and frames up to 12, so that differences wrap; a space of 12 and increments up to 5 |
| `cpu`: schedulers | `NobodyLostOrDoubled` (`OnePlace`), `AccountsAddUp` (`TimesAddUp`, `AllotmentKept`, `AllotmentCharged`), `RoundRobinResponse`, `ShortestRuns`, `NoIdlingNextToWork` (`WorkConserving`), `EverybodyFinishes` | 3 processes, arrivals up to 3, bursts 1 and 4 with a quantum of 2; for MLFQ bursts 2 and 14 with a boost every 15 ticks, so that all levels are reached and boosted; the clock ends at 45, after the longest workload |
| `cpu`: GMP runtime | `NobodyLostOrDoubled` (`OneOwner`), `NoIdlingNextToWork` (`IdleMeansNoWork`), `EverybodyFinishes` | 2 Ps, 5 goroutines of 2 work units, each with or without a system call, queues of 2 (256 in the code) so that they overflow, a look at the global queue every 3 ticks (61 in the code) |

Each also checks that variables keep their types. Deadlock is checked where a
unit cannot come to a stop. `MayStop` lists those that can: a semaphore for which
everybody waits, the mutex as described below, philosophers and counters at
their end, a bounded buffer of which only one side has calls left to make, a
program after a panic, an exhausted buddy system. In `cpu` all work comes to an
end, so deadlock is not checked there.

A page faults once only, since it keeps its Present bit when it is evicted (see
`memory_present`); so there are as many evictions as pages beyond the frames.
Hence 4 pages on 2 frames, for the hand of the clock to move twice.

`TimesAddUp` relates WaitingTime to the ticks a process spends ready, turnaround
less burst: it is one more, because a Tick counts arrivals before it dispatches
them. `process.go:43` and `scheduler.go:87` describe it as the ticks in the ready
queue, one less than what the schedulers compute and print; the property says
what every scheduler computes, so that none of them can drift from the others.

`TrapDiscipline` says what RAX holds after a failed system call: -22 for a bad
pointer, although the handler returned -14. `README.md:205` and `syscall.go:173`
promise -EFAULT, which only the Go caller of Dispatch sees.

`EventIsDelivered` says that an event wakes the goroutine parked on its
descriptor, and that the one way to be forgotten is to be replaced there by a
second reader (`netpoller.go:57`); such a goroutine is never woken, against
`netpoller.go:88`.

Runs in which TLC finds a statement of the repository violated:

| Run | Statement | What happens |
|---|---|---|
| `mutex_lost_wakeup` | `mutex.go:44` "Park thread (blocks until awakened by Unlock)" | the holder unlocks between the waiter's failed compare-and-swap and its append; the waiter parks on a free mutex and stores 2, so later callers park too |
| `dining_report` | `dining_philosophers.go:85` "DEADLOCK CONFIRMED! All goroutines stuck waiting in circular cycle" | the timer fires while the philosophers are only slow; all of them eat and leave |
| `attach_beyond_table` | `shared_memory.go:66` "Attach maps the shared physical frame into a process's virtual address space", `README.md:295` | MapPage ignores a page beyond the table; Attach records the mapping and returns nil all the same, as for the addresses `main.go:280` and `ipc_test.go:59` pass |
| `pipe_room` | `pipe.go:44` "blocks if buffer is full" | Read frees several bytes and wakes one writer; another sleeps on with room |
| `netpoller_data` | `netpoller.go:109` "When network data arrives, sysmon / epoll wakes the G and puts it in P's queue." | data and interrupt come between ReadNonBlocking's test and its registration; epoll drops the interrupt and the goroutine stays parked |
| `kernel_idle` | `README.md:662` "(triggers timer interrupts and context switches)" | Step increments the tick before the scheduler sees it, and every process arrives at a tick that is over: none is ever admitted |
| `process_isolation` | `README.md:271` "private, isolated address space" | bases or frames computed from PIDs coincide |
| `memory_present` | `paging.go:20` "1 if currently in physical RAM, 0 if swapped to disk" | eviction does not clear the victim's bit, nor its TLB entry |
| `mlfq_rule1` | `sched_mlfq.go:17` "If Priority(A) > Priority(B), A runs (B does not)." | priority is looked at only when the CPU is free; a process of a lower level finishes its quantum first |

`DebuggerNeverPanics` and `kernel_idle` belong together. The debugger forks and
execs the process that runs, and would panic on a zombie; it does not only
because no process other than init ever comes to run. With arrival at the next
tick (the mutation `ArrivesNextTick`) it does panic: a repair of the one has to
tell the scheduler about Exit too.

Other behaviour the models show, for which there is no run: a writer of the
reader-writer lock can be overtaken by other writers for ever (`rwlock.go:54`);
a Write after CloseWrite is accepted (`pipe.go:50`); a second Exit replaces the
exit code (`process_lifecycle.go:180`); a write that hits the TLB does not set
the page table entry's Dirty bit (`page_replacement.go:77`); a hand-off always
makes a new thread, although "Find or create" is what the comment says
(`gmp_runtime.go:174`), so idle threads pile up; a trap within a trap returns to
user mode while the outer handler still runs (`trap_table.go:116`); a philosopher alone at the table waits for
their own fork (`dining_philosophers.go:97`).

## 4. Fairness

Go's scheduler preempts, so a goroutine that can take its next step inside a
call takes it in the end (weak fairness of the steps after a call began). A
holder is assumed to unlock, as every caller in the repository does. Nobody is
assumed to begin a call. `sync.Mutex` is starvation-free, hence weak fairness
for a goroutine woken from `sync.Cond.Wait`. No fairness is assumed between
competing goroutines, which is why a single writer may starve among writers.
Philosophers need no more than weak fairness, because meals are finitely many.
The drivers of schedulers and GMP runtime call Tick and Step in a loop: weak
fairness of these. The netpoller's PollAndWakeup is called in a loop, and a
device raises the interrupts of the data it has delivered: weak fairness of the
poller and of each device. In `kernel_idle` the user goes on stepping: weak
fairness of Step. In `blocking` each of these is stated for the unit that a
behaviour exercises, since the others do not move.

## 5. Proofs

Eight modules hold proofs. `BasicLemmas` has facts about lists and finite sets
that the others share; the seven others each treat one part of the system, for
every value of the constants that satisfies the named assumptions. A temporal
theorem combines, with PTL, an inductive invariant or a step simulation. What
follows says which one, and why the property alone is not enough.

All invariants and action properties of the passing runs are theorems, but for
those listed at the end. A theorem about a unit is stated for the unit's own
specification (`Sem!Spec`, `Pipe!Spec`, `Mem!Spec` and so on, the instances of
the MC modules), since the units of a run share no state; those of `CPUProofs`
are stated for the specification of the run itself.

**`LocksProofs`** (`pkg/concurrency`).

* Mutex, any set of threads: `TypeCorrect`, `MutualExclusion`,
  `OwnershipAgrees`, `FastPathDoesNotBarge`, `MutexIsLock`. `SoleOwner` is not
  inductive: that a hand-off does not create a second owner depends on who is in
  the queue, and that the fast path does not depends on state 0 meaning
  "unowned". The invariant is `TypeOK /\ OwnershipInv`; its last clause, that a
  parked thread shows as state 2, gives `NoBarging`. For the refinement a thread
  holds the lock once its compare-and-swap succeeds or it has received from its
  channel.
* Spinlock: `SpinlockIsLock`. `SpinInv`: the word is 0 exactly if nobody holds
  the lock, and one thread at most does; the second is needed because Unlock
  stores 0 without looking.
* Semaphore, any finite set of threads and any initial value: `PermitsKept`,
  `SemaphoreIsLock`. `SemInv` adds to the balance of permits where each channel
  is: queued, popped, or closed, exactly one of these for a blocked thread
  (`Channels`). Counting permits needs lemmas about cardinalities.
* `LocksRefine`: the three together implement `LockSpec`.
* Reader-writer lock, any finite, disjoint sets of readers and writers:
  `ExclusionAndWakeups`. `Exclusion` and `NoMissedWakeup` need each other: that
  Unlock may broadcast to the readers and signal no writer depends on
  writerWaiters counting all who sleep. `RWInv` adds that nobody is twice on
  the list of a condition variable.
* Philosophers, any number of them and of meals: `StuckOnlyInACircle`. `PhilInv`
  says which forks a philosopher holds at each statement. With the hierarchy, a
  philosopher who holds the highest fork that is held can go on.
* Race demo, any goroutines and iterations: `RaceCounts`. `RaceInv` bounds the
  counter and every value loaded but not yet stored by the increments that can
  have gone into it; the lower bound comes from the goroutine that stores last.

**`IPCProofs`** (bounded buffer, shared memory, message queue).

* Buffer, any finite, disjoint sets of producers and consumers and any
  capacity: `BufferTypes`, `ItemsInOrder`, `NoSignalMissed`. `MonInv` joins the
  mutex's invariant, the contents of the buffer, `NoMissedSignal` and where each
  waiter is (`Queues`): the steps of the mutex are part of the composition, so
  that only its owner touches buffer and queues has to be carried along.
* `SharedMemoryIsWhole`: `SegInv` says that with one permit only one thread is
  past Wait and not yet past Signal, in terms of all the places the permit can
  be in (`OneOwner`), and what has been copied so far (`Copies`). Any threads
  and bytes; segments, pages and processes likewise.
* `QueueIsTypedFIFO`, any capacity and types: `QueueInv` orders the queue by
  number, and puts what is queued behind what has been received of its type.

**`KernelProofs`** (`pkg/kernel`, the netpoller and the pipe).

* Processes, any bound on PIDs, pages and exit codes: `TypeCorrect`,
  `TreeRootedAtInit`, `LeafZombies`. The invariant is the conjunction:
  `ProcessTree` needs `ZombiesAreLeaves`, since Wait would leave orphans if a
  zombie had children; `ZombiesAreLeaves` needs `ProcessTree`, since Exit
  appends to init's list and Fork must not append to a zombie's.
* Debugger: `NoCommandPanics`. `DebuggerInv` adds that nothing is admitted to
  the scheduler (whatever is added is due at a tick that is over), so that init
  is all that ever runs, and init is no zombie.
* CPU, any depth of nesting and words of any width that holds the handlers'
  results: `TrapsAreDisciplined`. Lemmas show that the encoding of results and
  errors in a word is read back, and what Dispatch leaves in RAX.
* `ParkedIsFound`, any goroutines, descriptors and events per call:
  `NetpollInv` adds what the poller has in hand while it deregisters a
  descriptor and closes the channel: nobody is parked on it meanwhile.
* Pipe, any capacity and finite sets of readers and writers: `PipeCorrect`,
  `BytesInOrder`, `NobodySleepsThrough`. `PipeInv` adds that a call in progress
  has bytes left to transfer and that nobody is on a list twice.

**`PagingProofs`** (paging in `pkg/memory`).

* Demand paging, any pages, frames and TLB slots, all three policies:
  `PagingIsCorrect`, `NewestIsSpared`. `MemInv` adds that both orders list the
  occupied frames once, that frames are filled from the first to the last, and
  that from then on the clock's hand is just behind the frame loaded last, whose
  use bit is set (`Placement`, `Orders`, `Clock`).
* TLB, any capacity: `SlotsAreLRU`, `TLBImplementsLRUCache`. `TLBInv`: valid
  slots have different keys and different ticks, none later than the clock, and
  come before the others. The mapping lists them by tick; a lookup moves one
  entry to the end.
* Page table, any numbers of entries in the two levels:
  `TwoLevelsImplementLinear`. A valid directory entry has a whole table, and
  AllocatedPTs counts the valid entries. Each operation changes one entry of one
  table in place, or makes a table of unmapped entries first.

**`HeapProofs`** (allocators, call stack, heap).

* `HeapIsTiled`, any size, start, slack and requests: `ListInv` says that the
  blocks tile the memory and that Next and Prev follow the tiling (`Tiles`),
  that no two neighbours are free (without which merging one neighbour on each
  side would not be enough), and that AllocatedBytes is the number of
  addresses in use.
* `MemoryIsTiled`: the leaves of the buddy system are aligned and tile the
  memory. `BuddyInv` adds that a leaf ends within the memory.
* `AllocatorsTile` joins the two.
* `StackAndHeapWithinBounds`, addresses of any width: `StackInv` adds that a
  frame is below the base at all, which keeps the unsigned differences from
  wrapping (lemma `NoWrap`); `BreakInv` does so for the break.

**`SchedulerProofs`**, **`CPUProofs`** (`pkg/cpu`).

* Schedulers, any number of processes, bursts, arrivals, quantum and boost
  period, all six policies: `CPUTypes`, `OwnersAreUnique`, `BooksAreKept`,
  `RoundRobinIsFair`, `ShortestAlwaysRuns`, `NothingIdlesNextToWork`.
  `SchedInv` has four parts. `PlaceInv`: the queues hold the ready processes,
  each once and in the queue of its level, and each state determines the fields
  of a process. `TimesInv`: the accounts in the middle of a process's life.
  `AllotInv`: a waiting process has some of its allotment left; with it, each
  step charges the account of the process that runs (`AllotmentCharged`).
  `RRInv`: a
  process that has not run yet and is i-th in the queue has waited so long that
  the i - 1 quanta before it and the rest of the current one still fit the
  bound; this is what makes the bound on the response time inductive. Lemmas
  treat the phases the Ticks share, and show that sorting a queue neither loses
  nor duplicates anything and puts the least key first.
* GMP runtime, any number of Ps, goroutines, queue limit and poll period: the
  same theorems. `RuntimeInv`: the queues of the Ps and the global one hold the
  runnable goroutines, each once; a thread's goroutine runs if it has a P and
  is in a system call if it is blocked; and there are as many threads beyond
  the first as system calls made, which is why the thread numbers stay in their
  bounds although every hand-off makes a thread.

Assumptions: the numbers that bound the instances are natural numbers (positive
where the code divides by them or would have nothing to work on); the values
that stand for "nobody" or nil are none of the things themselves; sets of
threads are finite where something counts them; an address space has room
between heap and stack. They are stated as `ASSUME` in the modules that declare the
constants, or as `ConstantsOK` in a module that is instantiated, and TLC
evaluates them on the instances of the runs. `BuddyAllocator` also states what
powers of two are, which the provers do not know.

`LocksProofs` and `CPUProofs` bring the library's theorems on finite sets in
near their end: until then `LibraryFacts` stands for what is used of them, as a
hypothesis, and `LibraryHolds` discharges it.

Only model-checked:

* Liveness, that is, everything under fairness (`WaitersAreServed`,
  `CloseReleases`, `EventIsDelivered`, `EverybodyFinishes`): there is no support
  for ENABLED and fairness in the prover.
* `BankerIsSafe`: CheckSafeState is a recursive function and the sums are folds;
  what they compute for every input needs induction over data.
* `BlockingTypesOK` and `SystemTypesOK`, the types of all units of a
  run at once. The types of each unit but the banker are part of its inductive
  invariant; what is missing is only the step from the units to the run.

## 6. Not modelled

* Rendering (`visualizer/`, the Gantt charts, dashboards, logs and counters):
  output that nothing reads back.
* `cmd/os-sim/main.go` but for the debugger: menus, and labs that are fixed
  scripts over components modelled here; likewise `kernel/isolation.go`.
* `parallelism/comparison.go`: measures elapsed time of a fixed workload.
* `io/blocking_io.go`, `io/select_poll.go`: scans of a list and timed sleeps,
  without state of their own.
* `cpu/thread.go` declares types nothing uses; `cpu/context_switch.go` copies
  records nothing reads back; `concurrency/atomics.go` forwards to `sync/atomic`.
* Operations without a caller: `CondVar.Broadcast`, EPOLL_CTL_MOD,
  ValidateUserPointer.
* CalculateMetrics and the other reports of the schedulers.
* Inputs no caller passes: reads of zero bytes from a pipe, page numbers from
  2^63 (`MapPage` converts to int), allocations above 2^63 bytes, processes with
  a burst of 0 or added after the tick of their arrival, claims of the banker
  above what the system has.

What could come next: the composed type invariants as theorems, and a model of
the labs in `main.go` as clients of the components.

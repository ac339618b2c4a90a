# Verification of the raikopon kernel, timing and GPU threading

raikopon is a Nintendo 3DS emulator for the Switch, a descendant of Citra and
Azahar.  About 226 thousand lines of C++ emulate the console.  The part that decides
*when* something happens, and that everything else relies on, is the high-level
emulation of the kernel in `src/src/core/hle/kernel`, the event timing in
`src/src/core/core_timing.cpp`, the loop over the emulated cores in
`src/src/core/core.cpp`, and the threads that take work off the emulation thread: the
GPU thread (`src/src/video_core/gpu_thread.cpp`, `gpu.cpp`) and the worker pool
(`src/src/common/thread_worker.h`).  This project models that part in TLA+, checks the
models with TLC on small instances and proves theorems about them with TLAPS.

All paths below are relative to the directory that holds `src/`; inside it the
repository's sources are under `src/src/`.

## 1. Inventory

### 1.1 The kernel

| Component | State | Operations | Interacts with |
|---|---|---|---|
| Handle table (`handle_table.cpp`) | objects, generations doubling as a free list, `next_generation`, `next_free_slot` | `Create`, `Duplicate`, `Close`, `IsValid`, `GetGeneric`, `Clear` | every system call that takes a handle |
| Threads (`thread.cpp`) | status, nominal and current priority, objects waited for, held and pending mutexes, wakeup callback | create, set/update/boost priority, stop, resume, wake after delay | scheduler, wait objects, timing |
| Scheduler (`ThreadManager`, `core.cpp`) | per core: ready queue, current thread, thread list | `Reschedule`, `PopNextReadyThread`, `SwitchContext`, `TerminateProcessThreads`, `System::RunLoop` | threads, timing, CPU back ends |
| Wait objects (`wait_object.cpp`, event, timer, semaphore, mutex, thread) | waiting threads and the object's own state | `ShouldWait`, `Acquire`, add and remove waiters, wake all; signal, clear, set, cancel, release | threads, timing |
| Ready queue (`common/thread_queue_list.h`) | 64 queues, the used ones linked | push, pop, `pop_first_better`, move, remove, `prepare` | scheduler |
| Core timing (`core_timing.cpp`) | per core: event heap, threadsafe queue, ticks, slice | schedule, unschedule, advance, idle | timers, thread wakeups, services |
| Address arbiter | waiting threads and addresses | wait, signal, time out | threads, guest memory |
| IPC (`server_session.cpp`, `client_session.cpp`, ports, `hle_ipc.cpp`) | pending and current requests, endpoints | connect, accept, send, reply, close | threads, services |
| Resource limits | current and maximum values | reserve, release | create calls |
| Process, VM manager, memory regions | mappings, free intervals | map, unmap, allocate, free, terminate | loaders, threads |
| CPU limiter of core 1 | state, ids of the threads it put to sleep | tick, limit, wake | scheduler |

### 1.2 Host threads

| Component | State | Operations | Interacts with |
|---|---|---|---|
| GPU thread (`video_core/gpu_thread.cpp`) | ring of slots, payload arena, three atomic words with waiting flags | queue a command, wait for a fence, stop; the consumer's loop | emulation thread, rasterizer |
| Asynchronous GPU (`video_core/gpu.cpp`) | mode, pending invalidation, fence of the last swap, page table updates | submit, flush, invalidate, swap, apply updates | GPU thread, timing, rasterizer |
| Worker pool (`common/thread_worker.h`) | requests, counters, a mutex and two condition variables | queue work, wait for all, stop | shader and texture code |
| Host part of a service request (`hle_ipc.h`, `RunAsync`) | the client asleep, its wakeup, the pending count | start, wake, report | IPC, timing, save states |

### 1.2.1 The rest of the program

HLE services (66 thousand lines of request handlers), HLE applets, file systems,
loaders, emulated hardware, CPU back ends, save states and movies, cheats, GDB stub
and RPC, rendering, the Vulkan scheduler and the texture cache, audio core, network
rooms, common containers (`threadsafe_queue.h`, `bounded_threadsafe_queue.h`,
`ring_buffer.h`), web service, input and the front ends.  `PROJECT.json` lists all of
them with the reason why a part is not modelled.

### 1.3 What is hard

The emulated cores run on one host thread, one after the other, and a system call
runs under the HLE lock to its end.  So the difficulty in the kernel is not in data
races but in the order in which system calls of different threads, timer events and
reschedules come, and in what is left over from an earlier step when a later one runs:

* **nested work**: a signal wakes a thread, which leaves the lists of several objects,
  which changes the priority of a mutex, which moves its holder in a ready queue;
* **late timeouts**: a wait that was signalled keeps its timeout event until the thread
  is switched to;
* **forced termination**: `Thread::Stop` may hit a thread in any state;
* **several cores**: a system call on one core changes threads of another, but only
  the running core is halted and rescheduled; cores overshoot their slices and lag;
* **boundaries**: full tables, wrapping generations, counts at their maximum;
* **two ends**: a session may be closed from either side while requests are pending,
  being handled, or worked on by a host thread.

Between host threads it is the classical one: stale copies of indices, flags that say
whether a notification is needed, condition variables, work that overtakes other work.

`PROJECT.json` lists each hazard at its line with the properties that cover it, and
says why where none does.

### 1.4 What makes each component correct

* Handle table: the free list holds exactly the empty slots; a live slot is never
  overwritten; a closed handle stays invalid.
* Scheduler: the ready queues hold exactly the ready threads at their current
  priority; what puts a better ready thread behind the one that executes halts the core;
  a core executes only its running thread.
* Wait objects: no lost wakeup, lists that agree, results that do not change once
  the thread is ready, no timeout that reaches a later wait, loops that end.
* Mutexes: held by live threads only; the holder has at least the own priority of its
  waiters, and loses it with the mutex.
* Arbiter and sessions: lists hold every waiting thread once; every request has one client
  and is pending or handled once; the slots of a port are given back exactly once; no
  server sleeps on a session with a pending request; an asynchronous part ends.
* Timing: no slice runs over an event; events are late by a bounded number of ticks;
  the cores stay within a bound of each other, also after a state is loaded.
* GPU: commands reach the handler once, in order and intact; fences mean that the
  handler returned; no wakeup is lost; the rasterizer has one user at a time; page
  table updates are applied in order and in the end.
* Worker pool: a request is not left while all workers sleep or starved by newer ones;
  `WaitForRequests` returns, and the destructor where the library has a `jthread`.

## 2. Plan

| # | Module | Content | State |
|---|---|---|---|
| 1 | `HandleTable`, `HandleTableProofs` | handle table and its free list | done, proved |
| 2 | `KernelSync`, `KernelSyncProofs` | threads, scheduler, wait objects, run loop | done; safety proved |
| 3 | `ThreadQueueList`, `PriorityFIFO`, `CommonProofs` | linked levels, shown to implement one FIFO per priority | done, proved |
| 4 | `ThreadState`, `AddressArbiter`, `Sessions`, `KernelWaits`, `KernelWaitsProofs` | the blocking calls outside `KernelSync`, composed over the same threads | done, proved |
| 5 | `CoreTiming`, `CoreTimingProofs` | event queues, slices, the catch-up of lagging cores | done, proved |
| 6 | `GPUThread`, `CommandStream`, `GPUThreadProofs` | command ring and arena, shown to implement a stream | done, proved |
| 7 | `AsyncGPU`, `AsyncGPUProofs` | what the emulation thread does with that stream | done, proved |
| 8 | `ThreadWorker`, `CommonProofs` | the worker pool | done; safety proved |
| 9 | `ResourceLimit` | reserve and give back along the error paths of the create calls | later |
| 10 | `CpuLimiter` | time limit of core 1, unschedule mode | later |
| 11 | `MemoryRegion` | intervals of a memory region, mappings of a process | later |
| 12 | `Room` | room server and members | later |

Two abstract specifications are stated: `PriorityFIFO`, which `ThreadQueueList`
implements and `KernelSync` uses, and `CommandStream`, which `GPUThread` implements and
`AsyncGPU` uses.

## 3. The modules and how they correspond to the code

### 3.1 `HandleTable`

One variable per member of the C++ class: `objects`, `generations` (of a live slot its
generation, of an empty one the next free slot), `next_generation`, `next_free_slot`.
A handle is a record of its two bit fields; `GetSlot` keeps the truncation to 16 bits.
`Create`, `Duplicate`, `Close` and `Clear` are the actions; `IsValid` and `GetGeneric`
are operators.  `recent` and `stale` are history variables that no action's guard reads: the handles of
the last `GEN_LIMIT - 1` creations, and those of them that were closed.

### 3.2 `KernelSync`

The module models `thread.cpp`, `wait_object.cpp`, `event.cpp`, `timer.cpp`,
`semaphore.cpp`, `mutex.cpp`, the system calls on them in `svc.cpp`, the timing events
they schedule and `System::RunLoop`.

*Nested calls.*  A system call is one step, and what it sets in motion in the kernel
is played out from `calls`, the stack of calls that are still to be made: the wakeup
loop of an object (`WakeupOne`, `WakeupDone`), entering and leaving the list of each
object (`AddWaitingThread`, `RemoveWaitingThread`), `ResumeFromWait`, the mutexes of a
dead thread, the end of `Timer::Signal`, the pending mutexes of `SetThreadPriority`, the
threads of a terminated process.  While the stack is not empty nothing else happens, as
in the code.  Where the code iterates over a set ordered by address or by an unordered
container (held mutexes, pending mutexes, the thread list) the model takes the elements
in any order.

*The loop.*  `to_advance` and `to_run` are the cores that the current iteration of
`RunLoop` has still to advance and to run.  While a core is advanced, events fire
(`ThreadWakeupCallback`, `TimerCallback`, `SignalEvent` for services) and `EndAdvance`
reschedules it; while a core is run, its current thread makes system calls until it is
`halted` or `EndSlice` ends the slice.  `StartIteration` covers both branches of
`RunLoop`: cores that lag behind are advanced first, and one that is far behind is run
alone.

*Counts and failures.*  The count of a semaphore is an s32: `ReleaseSemaphore` takes any
s32, as the system call does, and `Add32` wraps around where the code's addition
overflows, which is what a machine addition of the targets gives.  `CreateThread`
may find no thread-local storage: the thread then stays, dormant, in the list of its core.

*Terminated threads that execute.*  `TerminateProcess` halts the core it is called on; a
thread that it stops while another core has it current is dead and goes on to the end of
that core's slice.  `Spec` lets it make any system call in that time, `SilentSpec` is the
behaviours in which it makes none.  What section 5 does not prove of `Spec` fails there: the
dead thread locks a mutex or begins a wait.

*What is abstracted.*

* Time is reduced to the order in which events fire; any scheduled event may fire when
  a core is advanced.  A timer's event may fire while any core is advanced, because a
  timer schedules it on the core that called `Set`.
* A timeout is zero, finite or infinite.  The output index of a wait, argument checks,
  handle lookups and error codes are left out; calls that return an error without
  changing state are the absence of a step.
* Objects exist from the start (threads do not); resource limits are left out.
* `CanSchedule` and the unschedule mode, the CPU time limiter of core 1 and the HLE
  notifier of a wait object are left out.
* `Thread::SetPriority` and the `UpdatePriority` that follows it are one move.
* Recursion of a mutex is bounded by `MaxLockCount`.

### 3.3 `ThreadQueueList` and `PriorityFIFO`

`ThreadQueueList` models `common/thread_queue_list.h` with its pointers: levels are
numbers, `next_nonempty` links the prepared ones, the null pointer and the tag of a
level that was never prepared are smaller than every level, as their addresses are.  A
lookup (`get_first`, `pop_first`, `pop_first_better`) is a walk of one step for each
level.  The guards of the pushes and of `pop_first_better` are what the callers in
`thread.cpp` guarantee: they prepare a level before a thread gets its priority, push a
thread only when it is in no queue, and pass `pop_first_better` the priority of a thread.

`PriorityFIFO` is the abstract queue: one FIFO for each priority and lookups that answer
with the head of the best one below a bound.  This is what `KernelSync` uses as
`ready_queue`; `ImplementsFIFO` says that the linked list behaves like it.

### 3.4 `ThreadState`, `AddressArbiter`, `Sessions` and `KernelWaits`

`ThreadState` is what the blocking calls outside `KernelSync` share: the status of each
thread, its wakeup callback and its wakeup events, in the queue of the timer or still in
the threadsafe one.  Which ready thread is switched to is left open here; `KernelSync`
models that choice.

`AddressArbiter` has one action per kind of arbitration: `ArbitrateWait`, `ResumeFirst`
and `ResumeAllThreads`, with the partition of the list and the choice of the
first best thread as the code makes them, and `TimedOut`, the callback of a timeout.  The
guest word is memory that any thread may write, so a comparison may go either way.

`Sessions` models both ports, both session classes, `hle_ipc` and the system calls on
them: `Connect`, `AcceptSession`, `RequestGuest` (to a guest server), `RequestService`
(answered at once), `RequestDeterministic` (the blocking part runs at once, the client
sleeps for as long as it says), `RequestAsync` and `SleepClientThread` (a host thread works
and wakes the client through the threadsafe queue, `AsyncSectionDone`), `ReplyAndReceive`,
`CloseClient` and `CloseServer`.  `RunAsync` starts the host thread before the client
sleeps: between the two steps the client is in `starting`, the emulation thread does nothing
else, and the host thread may already be done.  An endpoint of a service stays alive as long as a request refers to it,
so its destructor may run in the callback of a wakeup.  Command buffers are reduced to
the session they were sent through.

`KernelWaits` composes them over one set of threads and adds what touches all of them:
`ThreadWakeup`, which runs the callback of the wait, and `Stop`.  `KillStates` is the set
of states in which a thread is terminated.  It leaves out `WaitHleEvent`, because the code
does not survive it: a client killed while a host thread works for it has its wakeup fire
without a thread (`thread.cpp:285`).  A thread killed in `WaitArb` stays in the arbiter's
list, dead; the next signal asserts that the list holds waiting threads only
(`AllWait`, `address_arbiter.cpp:35`) and ends the program, so that the model has no step
for it.

### 3.5 `CoreTiming`

Both queues of each timer, `ScheduleEvent` from the running core (which cuts the slice
short), for another core and from a host thread (both through `ts_queue`, the second
with a delay of at least two slices and a reading of the time that is up to a slice old),
`ScheduleEventThreadsafeAt`, `UnscheduleEvent`, `Advance` with its callbacks, `SetNextSlice`,
idling, and all of `System::RunLoop`: the cores that are behind are advanced, the one
furthest behind runs alone if it lags more than `min_delay`, else all are advanced and
run with the shortest slice.  A core may execute `Overshoot` ticks past its slice, the
rest of a block of translated code.  `LoadState` keeps what is serialized and resets
`is_timer_sane`, which is not.  Left out: clock scaling, `idled_cycles`, global time.

### 3.6 `GPUThread` and `CommandStream`

Every access to a shared atomic is a step.  `AwaitStep(w)` is the loop that both sides
use to sleep on a word (`Load`, `Arm`, `Check`, `Wait`, `Disarm`), `Signal(w)` the test of the flag
and the notification after a store.  The producer's side: `QueueAsync`, `Claim`,
`LoadPayloadTail`, `WritePayload`, `Publish`, `SignalConsumer`; waiting for a fence; the
destructor.  The consumer's side is the loop of `Run`.  A byte of the arena is the fence
of the command that wrote it, so an overwritten payload is visible.  `published` and
`handled` are history: `CommandStream` is stated over them.

### 3.7 `AsyncGPU`

A call of the emulation thread is the sequence of steps it has still to do (`todo`):
flush the pending invalidation, wait for the queue, apply page table updates, work
directly, queue, swap.  The modes are synchronous, asynchronous and strict.  The GPU
thread takes commands from a `CommandStream`, notes the pages it marks, exchanges the
flag and schedules the event; `PageTableUpdateCallback` clears the flag and drains.

### 3.8 `ThreadWorker`

Workers at the top of their loop, between predicate and sleep, asleep, woken, running or
stopped; the deque with its two ends and the guard that takes the oldest request;
`WaitForRequests` with the gap between its predicate and its sleep; the destructor, whose
threads are stopped and joined one by one (`RequestStop`).  `queue_mutex` is held over one
step, except by whoever is about to sleep.

How a worker is stopped while it waits depends on the build, and `JThread` says which it
is.  Where the library has a `jthread`, its condition variable looks at the stop token once
more under the lock that its notification takes, so that a worker about to sleep does not
sleep.  Where it has none, `polyfill_thread.h` stands in: the stop callback calls
`notify_all` without the mutex, which reaches only who sleeps already (`WokenByStop`).

### 3.9 The other modules

The `MC` modules are the instances for TLC.  `SequenceLemmas` holds facts on sequences
without duplicates, on minima and on counting; `HandleTableProofs`, `KernelSyncProofs`,
`KernelWaitsProofs`, `CoreTimingProofs`, `GPUThreadProofs`, `AsyncGPUProofs` and
`CommonProofs` (the queue list and the worker pool) hold the theorems.

## 4. The runs

| Run | Instance | Shows |
|---|---|---|
| `handle_table` | 3 slots, generations 1..3, 2 objects | the free list is complete, no closed handle comes back until its generation is reused |
| `ready_queue` | 3 threads, 4 priorities | the linked levels never end in null under a lookup and implement the priority FIFO |
| `signals` | 2 cores, 3 threads; one-shot event, pulsed event, semaphore with a maximum of 1, releases of -2 and 1 in numbers of -3..2 | no lost wakeup, lists that agree, cores that execute their running thread only |
| `timers` | 1 core, 2 threads of 2 priorities, one of them perhaps without thread-local storage, of a process that may exit; a timer and a pulsed event | no stale timeout, one event per timer; with fairness: wakeup loops end, timeouts wake their threads |
| `mutexes` | 2 cores, 2 processes, of which one terminates itself and the other; 3 threads of 2 priorities, 2 mutexes, a join; `SilentSpec` | exact queues through every boost, boosts that end with the mutex, holders with the priority of their waiters, settled results, the core halted for a better thread; nothing of a dead thread is left behind |
| `kernel_waits` | 2 clients, 1 server, 2 sessions, a guest port and a service port of one session each, an arbiter with 2 addresses | counts, requests and lists stay consistent; no idle server, also when threads are killed in the arbiter and a host thread is done first; with fairness: asynchronous parts end |
| `core_timing` | 2 cores, slices of 6, overshoot 2, delays 0 and 4, one loaded state | no event inside a slice, bounded lateness, cores in step |
| `thread_worker` | 2 workers, 4 requests | enough workers awake; with fairness: no starvation, waits and joins return |
| `gpu_thread` | ring of 2 slots, arena of 6 bytes aligned to 2, payloads of 0 and 3 bytes, 4 commands | fences, notifications, the refinement of `CommandStream`; with fairness: commands are handled, calls return |
| `async_gpu` | 5 calls, 3 page table updates | one user of the rasterizer, program order, ordered updates; with fairness: every update is applied |
| `gpu_payload` | arena of 4 bytes, payloads of 2 and 3 | **violation** of `CallsReturn`, see below |
| `worker_stop` | 2 workers, 1 request, no `jthread` in the library | **violation** of `Joined`, see below |

`gpu_payload` refutes `gpu_thread.h:129`, by which a payload need only fit into the
arena.  `AllocatePayload` does not split a payload at the end of the arena, and the bytes
it skips count as used.  A payload larger than half of the arena may find the head where
skipped bytes and payload together exceed the capacity; it then waits for ever, although
the GPU thread has consumed everything.  In `gpu_thread` no payload is larger than half
of the arena.

`worker_stop` shows that with `polyfill_thread.h` the destructor of a pool may never return:
the request is done, a worker finds the queue empty, announces this to `WaitForRequests` and
goes to sleep; between its predicate and its sleep the owner destroys the pool, and the
notification of the stop is lost.  This is how `PipelineCache::EndBootLoading` uses its pool,
which "drains and tears down the boot worker pool" (`vk_pipeline_cache.h:80`).

The models have also shown limits of the code, which an instance leaves out or a property
allows:

* `handle_table.h` gives the slot the bits 31:15 of a handle, `GetSlot` drops bit 31;
  the instance has no handle with it;
* priority inheritance stops at the direct holder: a holder that waits for a mutex does
  not pass its boost on, and a thread that takes a free mutex gets no boost from one that
  waits for the mutex and all of some other objects, because `Mutex::Acquire` does not look
  at the waiters.  `PriorityInherited` therefore speaks of the own priority of waiters for
  any of several objects, with any number of mutexes;
* `PrepareReschedule` halts the core that executes and no other: a thread readied for
  another core, or by the timer of its own core after its advance, waits for that core's next
  reschedule; and terminating a waiter lowers the priority of the mutex's holder without
  asking for one.  `HighestPriorityRuns` speaks of the steps within a slice, and excepts
  the last case (`TerminatedLeaves`);
* a process terminated from one core may leave a thread dead and current on another,
  which goes on executing to the end of its slice.  `CurrentThreads` allows it; `mutexes`
  takes the behaviours in which it makes no system call then (`SilentSpec`, section 3.2);
* a thread that waits for itself is, when it is stopped, dead in its own list: the lists
  of `mutexes` let nobody join itself;
* a wait-all list that names a one-shot event twice acquires it twice: the lists of the
  instances have no repetitions;
* a client terminated while a host thread works for it, which `KillStates` leaves out, and
  the dead threads in the arbiter's list, which `ArbiterConsistent` allows (section 3.4);
* when two server threads receive from the same session and one of them replies while the
  other waits, a request that is pending makes the session ready and wakes nobody, because
  `ReplyAndReceive` looks only at the objects its own thread waits for.  `NoIdleServer`
  promises this of a session only to the one server of a system, as in the instance;
* closing a server session forgets its clients, which stay in `WaitIPC`: `RequestsTracked`
  promises a reply to no client whose session has a closed endpoint.

### 4.1 Bounds, and why they are enough

* Two threads are needed for every race between a signal and a timeout, three for a
  wakeup that has to choose between waiters while a third runs, and for a chain of
  mutexes.  The wait lists of an instance (`MCKernelSync`) contain single objects and
  one list of two, so that *wait any* and *wait all* differ.
* The code has two or four cores.  Two are enough for a system call on one that meets a
  thread of the other; the properties of `timers` are about the timers and loops of the
  kernel, in which the second core only adds steps, and the theorems of section 5 hold for
  any number.
* `signals`: with counts of -3..2 a release below zero is accepted, one wraps
  around and one is refused; the least bounds with all three.
* Two priorities give every thread one that is better or worse than another's, and
  let it be boosted, worsened and restored; the walk of the
  queue list needs four levels to have a level before, between and after linked ones.
* Generations wrap after three creations, fewer than the slots can use up.
* `wakeups` and `timer_events` count events and are not bounded by a guard:
  `NoStaleWakeup` and `OneTimerEvent` keep them small.
* Lock counts are bounded by `MaxLockCount`, 1 in `mutexes`: a recursive lock only counts.
* `worker_stop`: one request is all it takes.
* `kernel_waits`: two clients make a queue of pending requests with an order, two ports
  of one session each reach their limit, and each session is used once, so that a closed
  one stays observable.
* `core_timing`: `MaxTicks` covers two full slices, so that an event can be scheduled
  in one slice and be due in the next, and a core can lag by more than `min_delay`;
  `MaxEvents` 2 gives two events their order; one load is enough to lose a slice.  The
  bounds of the properties double with every load, which two cores and one load cannot
  tell from a constant increase: with four cores and three loads the distance does
  outgrow one.  The theorems of section 5 hold for any number of both.
* `thread_worker`: four requests make the deque longer than `lifo_threshold` while both
  workers are busy, and reach the guard against starvation.
* `gpu_thread`: two slots fill up and wrap twice in four commands; 3 bytes aligned to 2
  in 6 bytes make a payload that must skip to the start of the arena.  The theorems of
  section 5 remove these bounds for safety.
* `async_gpu`: five calls are a held-back invalidation, two merged ones, a flush and a
  swap; three marks are one in the list, one noted and one under way.

### 4.2 Fairness

`KernelSync` (`timers`):

* `WF(KernelCall)`: kernel code runs to its end on the host thread; nothing in it waits;
* `SF(EndAdvance)`, `SF(EndSlice)`: a core's advance handles the events that are due and
  returns, and a slice has at most `MAX_SLICE_LENGTH` cycles, after which the core stops,
  whatever system calls it made in between (each of them disables the action for a
  moment, hence the strong form);
* `SF(ThreadWakeupCallback(t))`: global time advances with every slice, so a scheduled
  wakeup comes due while its core is advanced again and again.

`KernelWaits`: weak fairness of the host thread that ends an asynchronous part, of the rest
of `RunAsync` (`Asleep`), of moving the threadsafe queue (every advance does it) and of a
scheduled wakeup.  `GPUThread`,
`AsyncGPU` and `ThreadWorker`: weak fairness of each host thread's own steps, because the
operating system schedules it, the handlers and tasks return, and events of the timing
queue fire.  `CoreTiming` has safety properties only.

No fairness is assumed of the guest's system calls, of servers, of timers, of services,
or of calls that the emulation thread need not make.

## 5. The proofs

All theorems hold for every value of the constants under the assumptions named in the
modules (`CountAssumption`, `ObjectAssumption`, `ConstantAssumption`,
`MainAssumption`, `QueuesAssumption`, `ThreadAssumption`, and in `GPUThread`
`CapacityAssumption`, `AlignmentAssumption`, `SizesAssumption`, `MaxCommandsAssumption`;
for `KernelWaits` `PriorityAssumption`, `SignalAssumption`, `PortAssumption`,
`SessionAssumption`, `NoneAssumption`, `ServerAssumption`, `KillAssumption`; for
`CoreTiming` `TimingAssumption`, for `ThreadWorker` `WorkerAssumption`), which say
that the set of workers is finite, the sets of threads, events, timers, semaphores and mutexes, and those of sessions
and ports, are disjoint, servers are threads, numbers are naturals, functions have their
types, and that the alignment divides the arena, in which every payload fits.

**Handle table.**  `TypeCorrect`, `FreeListCorrect` (`FreeListComplete`) and
`NeverOverwrites` (`NoOverwrite`).  The free list is described by a sequence that visits
exactly the empty slots; `Create` drops its head, `Close` puts a slot in front, `Clear`
starts again with all slots.  `StaleHandlesStayInvalid` (`StaleHandlesInvalid`) needs more
than that closed handles are invalid: the generations of the remembered handles, at most
`GEN_LIMIT - 1`, are those just before `next_generation`, without repetition (`RecentOK`), so that
the handle `Create` gives out has the generation of none of them.

**Thread queue list.**  The invariant is `TypeOK /\ LevelsInOrder /\ WalkOK`.
`LevelsInOrder` alone does not say where a walk is: `WalkOK` adds that every level before
the walk's position is empty, that the position is linked or null, and that the level at
which the lookup stops is linked.  From it follow `LevelsOrdered`, `NullNeverRead`
(the walk of `pop_first_better`, which compares addresses and never tests for null, does
not step on it) and `ListImplementsFIFO`, the refinement of `PriorityFIFO`: every
operation maps to one abstract step, a step of the walk to a stutter.

**Kernel.**  `TypeCorrect` covers every action; that counts of semaphores are s32 numbers of
at most `MaxCount`, whatever is released, and the fields of pending calls are part of it.
`QueuesExact`, `CurrentAreRunning` and `WakeupsCancelled` prove `ReadyQueueExact`,
`CurrentThreads` and `NoStaleWakeup` together; none of the three is inductive alone:

* a sleeping thread may be put to sleep only because it is not in a queue, which
  follows from its being the current thread and `CurrentThreads`;
* a reschedule may put the current thread back only because, if it is running, it is
  in no queue (`ReadyQueueExact`), and the thread it takes belongs to the core;
* a thread may be current and not running only on the core that is halted with a
  reschedule pending, so that `EndSlice` never leaves such a thread behind.

The argument rests on four lemmas on the queues: taking a ready thread out
(`ExactRemove`), putting one in at either end (`ExactPush`), changing one that is in no
queue (`ExactOther`), and `Thread::BoostPriority`, which does the first two in turn
(`ExactBoost`).  Most other actions leave all that alone (`QuietStep`) or only change
priorities (`PriorityStep`).

**Kernel waits.**  The second part of `KernelSyncProofs` builds on this.  What the properties say, they say
of moments between kernel calls; their invariants speak of the stack in `calls`.

* *Shape.*  The stack holds only calls that the code can have pending together: below a
  call that takes a thread out of its lists are the calls of the same wakeup, stop or
  timeout (`Shape`).
* `ListsAgree` (`WaitListsAgree`): the lists of the objects and of the threads agree,
  except for the thread that a call on the stack is entering into or taking out of lists,
  and for that one the call names the objects that are left.
* `NoWakeupLost` (`NoLostWakeup`): a thread that could acquire all it waits for has, for
  one of its objects, a `WakeupAllWaitingThreads` on the stack, or is itself being
  resumed or stopped.  Each action is put down to what it does to availability: a step
  that makes an object available pushes the wakeup of that object (`Announced`), and
  the loop ends only when nobody in the list can be woken.
* `TimersScheduledOnce` (`OneTimerEvent`): while its `RearmTimer` is on the stack the timer has no
  event.
* `WaitersWait` (`WaitersAreWaiting`), under `NoSelfWait`: a thread in a list that is not
  waiting is on the stack to be taken out, above the wakeup loop.  A thread that joins
  itself would be dead in the very list that its death wakes.
* `WaitsSettled` (`SettledWaits`), `MutexesOwned` (`MutexOwned`) and `PrioritiesAreBest`
  (`PriorityIsBest`) are proved of `SilentSpec`, for any number of cores and any process
  terminating any other.  A dead thread that is current then only ends its slice (`Silent`);
  it holds a mutex only while its `ReleaseThreadMutexes` is on the stack (`DeadInv`); and
  every change of a mutex's priority or holder is followed, in the same step, by the
  `UpdatePriority` of each live thread it affects (`BestInv`).  That a mutex is locked
  exactly when a thread that was created holds it (`HeldInv`) and that no thread runs at a
  priority worse than its own or than its mutexes' (`BoundInv`) holds of `Spec`.
* `PrioritiesInherited` (`PriorityInherited`), of `Spec`, for any number of mutexes: a held
  mutex is at least as urgent as the own priority of each thread that waits for any of
  several objects, this one among them, or an `UpdatePending` for it is on the stack
  (`Inherits`).  A thread that enters or leaves the list has the mutex updated in the same
  step (`ListLends`); a mutex that is handed on goes to the most urgent of the waiters
  that could take it, and every thread that waits for any of several objects could
  (`WakeupOneLends`); a free mutex has no such waiter, by `NoneLost`, so that a thread that
  takes it from outside overtakes nobody.  By `BoundInv` the holder is at least as urgent
  as the mutex.
* `HighestRuns` (`HighestPriorityRuns`), of `Spec`, for any number of cores: a step that puts a
  better ready thread behind the one that executes either halts the core or leaves a
  `ResumeFromWait` on the stack that will.  It rests on what is halted already when
  lists and priorities change (`HaltedCalls`), and on what follows when a thread leaves its
  lists (`PairedCalls`).

**Sessions and arbiter.**  `KernelWaitsProofs` shows `TypeCorrect`, `EverySessionCounted`
(`SessionsCounted`), `EveryRequestTracked` (`RequestsTracked`), `ArbiterListRight`
(`ArbiterConsistent`) and `ServersNotIdle` (`NoIdleServer`) under `SafeKills`: no thread is
terminated in `WaitHleEvent` (section 3.4).  The run's instance meets it.  The invariant is
`Inside`.  Outside of `RunAsync` it is `Inv`, which joins all parts of the state, because they
lean on each other; between the two steps of `RunAsync` it is `Mid`, which says that the state
would satisfy `Inv` but for the client, which runs although it has a host thread or a wakeup
in the threadsafe queue:

* `EndpointsOK`, `CountsOK`: the slots a port counts are the open server endpoints.  A
  service's endpoint outlives its client as long as a host thread works on a request, and
  is destroyed by the callback of the wakeup; `RequestOK` says that it is still open then,
  so that no slot is given back twice;
* `WakeupsOK`, `CallbacksOK`: which wakeups and callbacks a thread may have in each state.
  A host thread works for a thread, or its wakeup is in the threadsafe queue, or in that
  of the timer, and never in two of the three places; a running thread has none left, and
  the callback that runs is that of the wait the thread is in;
* `AsyncOK`: the pending count is the number of threads in `WaitHleEvent`, a finite set;
  `Mid` adds the one in `starting`;
* `QueuesOK`: a request that a session holds belongs to a guest's session and to one that
  is still in use; this with `WakeupsOK` keeps a timer from waking its client early;
* `ListsOK`, `ArbiterOK`: lists of objects, of threads and of the arbiter agree, with dead
  threads in that of the arbiter.

`ServersNotIdle` needs besides that no object which a server waits for has become ready
(`AllWaited` for ports and closed clients, `NoneMissed` for requests).  The second is kept by
every step but one: `OnlyRepliesMiss` shows, for any number of servers, that a session
becomes ready while somebody waits for it (`Missed`) only through a reply to it.
With one server the one that replies is not asleep.

Lists are erased from by `Without`, a recursive function; what it leaves, in which order
and how often (`WithoutMembers`, `WithoutPlaces`, `WithoutOnce`), and that a signal of
several threads takes out exactly those it woke (`AfterSignalPart`), is proved from the
fact that a set of numbers that is not all of `0..n` has a least number missing (`UpTo`).

**Core timing.**  `TypeCorrect`, `SlicesEndAtEvents` (`NoEventInSlice`) and
`CoreEventsOnTime` (`OnTime`).  The invariant follows the run loop: which cores have been
advanced in this iteration, and so have a slice that counts (`SaneOK`), that the timer of
the core that fires events stands still (`LoopOK`), and that an event of the core itself
is not before the end of the slice, or, while the core fires, at most an overshoot in the
past (`CoreEvents`).  `NoEventInSlice` alone is not inductive: a timer that is sane has
events inside its old slice.

`CoresStayInStep` (`CoresInStep`) needs how far the cores are apart in each phase of the
loop (`Apace`).  At the top they are within the bound, more precisely: from any time that
some core has not passed to the core furthest ahead it is no further than `Apart` and one
overshoot for each core that has passed it (`Spread`, `TopOK`).  While lagging cores catch
up, each has its delay to go to the one furthest ahead (`LagOK`), and one that runs alone
stops there (`RunOneOK`).  When all run, the loop has seen that they are within
`min_delay`, and none runs further than those before it plus the overshoots of the cores
between (`AllOK`, `RunAllOK`).  A state that is loaded while cores run resets
`is_timer_sane`, so that the loop takes a core in the middle of its slice for where the
slice began (`Tainted`, `Seen`): until that core is advanced, the invariant keeps the bound
of before the load and the loss next to each other (`LoadedTop`, `LoadedLag`, `LoadedOne`,
`TaintedOne`).  A core may catch up what was lost on top of the old distance, which is why
`Apart` doubles with every load.  A bound that grows by a constant for each load, which TLC
accepts on two cores, turned out to be false in the proof.

`QueuedEventsOnTime` (`QueuedOnTime`) follows: an event in `ts_queue` is not before the
start of the slice its core is in (`Awaited`), and one of a host thread is at least
`MAX_SLICE_LENGTH` after it: of the two slices that `ScheduleEvent` adds, one pays for the
thread's old reading of the time.  The next time the core advances, the event is moved
(`Arrived`), late by that core's slice at most, which `Apace` bounds (`SlicesOK`).

**GPU thread.**  `TypeCorrect` and `NotificationsArrive` (`NoLostNotification`, from the
fact that a waiter's flag is set from the moment it is about to look again) need little.
The other three theorems rest on the invariant `RingOK`:

* `IndexOK`: each side's copy of the other's index is behind it, and neither side goes
  further than its copy allows; so the slot that is filled in is, modulo the capacity,
  none of those between the indices (`FreeSlot`, by `ModDistinct`);
* `SlotsOK`, `PublishedOK`: the slots between the indices hold the published commands;
* `ArenaOK`: the payloads lie one after the other between the freed bytes and the head,
  in a window no longer than the arena and none of them across its end, each with its own
  bytes; so a new block shares no byte with a pending one (`NoOverlap`), although
  `AllocatePayload` knows only a stale copy of the tail;
* `CommandOK`, `FenceSeen`, `HandledOK`: the GPU thread's copy of the slot, the fence and
  the handled commands keep step with the read index.

From it follow `HandlerInput` (what the handler reads is what was published, as long as
it runs), `FencesDone` (`FencesAreDone`, with the arena empty for whoever waited for the
newest fence) and `RingImplementsStream`: `Publish` and `HandlerReturns` are steps of
`CommandStream`, all others stutter.

**Asynchronous GPU.**  `TypeCorrect`, `DirectExclusive` (`DirectIsExclusive`),
`MarksOrdered` (`MarksInOrder`) and the action property `ProgramOrderKept`
(`ProgramOrder`).  The first two rest on what the remaining steps of a call guarantee: a
direct use of the rasterizer is preceded in `todo` by the wait for the queue and the
application of updates, and nothing between can queue a command (`DirectOK`); marks are
applied, in the list, noted or under way in this order (`UpdatesOK`).  For the order of
calls, the numbers of the calls in the rasterizer, the queue, the held-back invalidation
and the steps left to do are increasing in this sequence (`Ordered`); a held-back
invalidation is flushed before any later call is queued or made directly.

**Worker pool.**  `PoolTypeCorrect` and `RequestsWakeWorkers` (`EnoughAwake`).  The invariant counts
workers.  A worker goes to sleep only when it sees no request while it holds the mutex; a
request that is queued later brings its notification with it; and a notification is spent
on a worker that sleeps, which it wakes, or when none sleeps.  So requests never outnumber
the workers that are awake and the notifications under way.  That `unfinished` stays a
number (part of the type) follows from its being the count of queued requests and of
workers that run (`PoolCounted`); and since a worker between its predicate and its sleep holds the mutex, nothing
is queued behind its back (`PoolHeld`).  Both theorems hold in either build.

**Only model-checked.**  Liveness under fairness (`KernelCallsFinish`, `TimeoutsFire`,
`AsyncReturns`, `NoStarvation`, `WaitReturns`, `Joined`, `CommandsHandled`, `CallsReturn`,
`UpdatesApplied`) is beyond the prover.  Every invariant and action property of the
passing runs is proved, under the hypotheses that its paragraph names, and so is the type invariant of every state machine (that of `ThreadQueueList` as part of its
proof).

## 6. What is not modelled

Open (section 2): resource limits, the CPU limiter and the unschedule mode, memory
regions and mappings, network rooms; and, next to what is modelled:

* the arbiter's guest words and their arithmetic;
* the creation of kernel objects, and the closing of ports;
* the translation of command buffers (copied and moved handles, mapped buffers);
* saving and loading of the GPU's state, and a second producer: front ends and debuggers
  call the GPU from their own threads, which the ring does not allow and where the
  outcome is undefined;
* the Vulkan scheduler, the bounded and the lock-free queues of `common`.

For good:

* instruction semantics, rendering, audio and crypto: numerical code;
* file systems, loaders, save state formats, web service: parsing and I/O;
* front ends, input, applets: user interfaces;
* the individual HLE services, except where one turns out to have a protocol of its own;
* vendored libraries and generated data.

`PROJECT.json` gives the reason for each component.

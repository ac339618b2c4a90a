------------------------------ MODULE KernelSync -------------------------------
(******************************************************************************)
(* The emulated kernel's threads, its scheduler and the objects a thread can  *)
(* wait for (src/core/hle/kernel: thread, wait_object, event, timer,          *)
(* semaphore, mutex, the system calls on them in svc, and the loop that runs  *)
(* the cores in src/core/core.cpp).                                           *)
(*                                                                            *)
(* A system call is one guest step.  What it sets in motion in the kernel (the*)
(* wakeup loop of an object, the removal of a thread from every object it     *)
(* waits for, ...) goes on in `calls', the stack of calls still to be made;   *)
(* nothing else happens until that stack is empty, for the code holds the HLE *)
(* lock and runs all cores on one host thread.                                *)
(******************************************************************************)
EXTENDS Integers, Sequences, FiniteSets, SequencesExt

CONSTANTS
  Thread, Event, Timer, Semaphore, Mutex,   \* the objects a thread can wait for
  NoThread,           \* nullptr
  Process, OwnerOf,   \* OwnerOf[t]: the process of thread t
  NumCores, CoreOf,   \* CoreOf[t]: the core thread t was created for
  ThreadPrioLowest,   \* 63 in the code; 0 is the best priority
  ResetType,          \* ResetType[o] of events and timers
  IntMax,             \* 2^31 - 1 in the code: the greatest s32
  InitialCount, MaxCount,              \* of semaphores
  InitialThreads, InitialPriority,     \* main threads of the processes
  WithoutTLS,         \* threads whose creation may find no thread-local storage
  Kills,              \* Kills[p]: the processes that threads of p terminate
  Priorities,         \* priorities the guest asks for
  WaitLists,          \* WaitLists[t]: the object lists thread t waits for
  Timeouts,           \* what is told apart of a timeout: "zero", "finite", "forever"
  ReleaseCounts,      \* arguments of ReleaseSemaphore
  MaxLockCount        \* bound on the recursion of a mutex

WaitObject == Thread \cup Event \cup Timer \cup Semaphore \cup Mutex
Signalable == Event \cup Timer
Core       == 0 .. NumCores - 1
AllCores   == [i \in 1 .. NumCores |-> i - 1]
Priority   == 0 .. ThreadPrioLowest
Int32      == -(IntMax + 1) .. IntMax

ASSUME ObjectAssumption ==
  /\ NoThread \notin Thread
  /\ Thread \cap (Event \cup Timer \cup Semaphore \cup Mutex) = {}
  /\ Event \cap (Timer \cup Semaphore \cup Mutex) = {}
  /\ Timer \cap (Semaphore \cup Mutex) = {}
  /\ Semaphore \cap Mutex = {}
ASSUME ConstantAssumption ==
  /\ NumCores \in Nat \ {0} /\ ThreadPrioLowest \in Nat
  /\ OwnerOf \in [Thread -> Process] /\ CoreOf \in [Thread -> Core]
  /\ ResetType \in [Signalable -> {"OneShot", "Sticky", "Pulse"}]
  /\ IntMax \in Nat
  /\ InitialCount \in [Semaphore -> Int32] /\ MaxCount \in [Semaphore -> Int32]
  /\ \A s \in Semaphore : InitialCount[s] <= MaxCount[s]
  /\ InitialThreads \subseteq Thread /\ WithoutTLS \subseteq Thread
  /\ InitialPriority \in [Thread -> Priority]
  /\ Priorities \subseteq Priority /\ Timeouts \subseteq {"zero", "finite", "forever"}
  /\ \A t \in Thread : WaitLists[t] \subseteq Seq(WaitObject)
  /\ \A p \in Process : Kills[p] \subseteq Process
  /\ ReleaseCounts \subseteq Int32 /\ MaxLockCount \in Nat
\* Two main threads never start in the same queue: their order is not fixed.
ASSUME MainAssumption ==
  \A t, u \in InitialThreads :
    CoreOf[t] = CoreOf[u] /\ InitialPriority[t] = InitialPriority[u] => t = u

VARIABLES
  status,             \* ThreadStatus, see Status; "Unborn" before CreateThread
  nominal_priority,
  current_priority,
  wait_objects,       \* wait_objects[t]: the objects t waits for
  result,             \* r0 of the last wait: "Timeout" unless it was signalled
  wakeups,            \* wakeups[t]: pending ThreadWakeupCallback events of t
  ready_queue,        \* ready_queue[c][p]: threads of core c ready at priority p
  current_thread,     \* current_thread[c], or NoThread when the core idles
  waiting_threads,    \* waiting_threads[o]: threads waiting for o
  signaled,           \* of events and timers
  timer_events,       \* timer_events[o]: pending TimerCallback events of timer o
  interval,           \* interval[o]: timer o has an interval_delay
  available_count,    \* of semaphores
  lock_count,         \* of mutexes
  holding_thread,     \* of mutexes
  mutex_priority,     \* Mutex::priority
  process_status,     \* "Running" or "Exited"
  calls,              \* kernel calls still to be made, innermost first
  to_advance,         \* cores whose timers are still to be advanced in this iteration
  to_run,             \* cores still to be run in this iteration
  halted,             \* the running core has been told to stop executing
  reschedule_pending  \* System::curr_core_reschedule_pending

priority_vars == <<nominal_priority, current_priority, ready_queue>>
wait_vars     == <<wait_objects, waiting_threads, result>>
timer_vars    == <<signaled, timer_events, interval>>
mutex_vars    == <<lock_count, holding_thread, mutex_priority>>
loop_vars     == <<to_advance, to_run>>
halt_vars     == <<halted, reschedule_pending>>
vars == <<status, priority_vars, wait_vars, wakeups, current_thread, timer_vars,
          available_count, mutex_vars, process_status, calls, loop_vars, halt_vars>>

RunningCore == IF to_advance # <<>> THEN Head(to_advance) ELSE Head(to_run)

\* Mutant of PrepareReschedule: the core is not told to stop.
PendingOnly == reschedule_pending' = TRUE /\ UNCHANGED halted

\* System::PrepareReschedule: only a core that executes can be halted.
PrepareReschedule ==
  /\ reschedule_pending' = TRUE
  /\ halted' = (halted \/ to_advance = <<>>)

--------------------------------------------------------------------------------
\* ThreadQueueList (a thread is in one queue at most, once: ReadyQueueExact).
QueueRemove(queue, t, priority) ==
  [queue EXCEPT ![CoreOf[t]][priority] = RemoveFirst(@, t)]
QueuePushBack(queue, t, priority) ==
  [queue EXCEPT ![CoreOf[t]][priority] = Append(@, t)]
QueuePushFront(queue, t, priority) ==
  [queue EXCEPT ![CoreOf[t]][priority] = <<t>> \o @]
\* Mutant of QueueMove: the thread stays in the queue of its old priority.
StaysInPlace(queue, t, old, new) == queue

QueueMove(queue, t, old, new) == QueuePushBack(QueueRemove(queue, t, old), t, new)

\* The ready thread the queue of core c gives first, among the priorities better
\* than bound.
ReadyLevels(c, bound) == {p \in Priority : p < bound /\ ready_queue[c][p] # <<>>}
FirstReady(c, bound) ==
  IF ReadyLevels(c, bound) = {} THEN NoThread
  ELSE Head(ready_queue[c][Min(ReadyLevels(c, bound))])

\* The calls that can be on the stack.
Wakeup(o)         == [op |-> "WakeupAllWaitingThreads", obj |-> o]
Enter(t, objs)    == [op |-> "AddWaitingThread", thread |-> t, objs |-> objs]
Leave(t)          == [op |-> "RemoveWaitingThread", thread |-> t]
Resume(t)         == [op |-> "ResumeFromWait", thread |-> t]
ReleaseMutexes(t) == [op |-> "ReleaseThreadMutexes", thread |-> t]
Rearm(o)          == [op |-> "RearmTimer", obj |-> o]
UpdatePending(ms) == [op |-> "UpdatePending", mutexes |-> ms]
Terminate(p, c)   == [op |-> "TerminateProcessThreads", process |-> p, core |-> c]

\* Mutants: a woken thread stays in the lists of the objects it waited for; a dead
\* thread keeps its mutexes.
ResumesOnly(t)   == <<Resume(t)>>
KeepsMutexes(t)  == <<Wakeup(t), Leave(t)>>
\* What follows when a wait has been settled, and when a thread has died.
WakingCalls(t)   == <<Leave(t), Resume(t)>>
StoppingCalls(t) == <<Wakeup(t), Leave(t), ReleaseMutexes(t)>>

Calling(op) == calls # <<>> /\ Head(calls).op = op
Top == Head(calls)
Return(more) == calls' = more \o Tail(calls)

--------------------------------------------------------------------------------
\* The objects.

ShouldWait(o, t) ==
  CASE o \in Thread     -> status[o] # "Dead"
    [] o \in Signalable -> ~signaled[o]
    [] o \in Semaphore  -> available_count[o] <= 0
    [] o \in Mutex      -> lock_count[o] > 0 /\ holding_thread[o] # t

Occurrences(o, objs) == Cardinality({i \in DOMAIN objs : objs[i] = o})

HeldMutexes(t) == {m \in Mutex : holding_thread[m] = t}

\* Mutant of BestPriority: a priority that never gets worse again.
NeverLowers(t, held, priorities) ==
  Min({nominal_priority[t], current_priority[t]} \cup {priorities[m] : m \in held})

\* Thread::UpdatePriority's best priority of t when it holds the mutexes `held'.
BestPriority(t, held, priorities) ==
  Min({nominal_priority[t]} \cup {priorities[m] : m \in held})

\* Thread::BoostPriority
BoostPriority(t, priority) ==
  /\ current_priority' = [current_priority EXCEPT ![t] = priority]
  /\ ready_queue' = IF status[t] = "Ready"
                    THEN QueueMove(ready_queue, t, current_priority[t], priority)
                    ELSE ready_queue

\* Event::Acquire and Timer::Acquire for the objects of a list.
AcquireSignals(objs) ==
  [o \in Signalable |-> signaled[o] /\ ~(o \in ToSet(objs) /\ ResetType[o] = "OneShot")]

\* Semaphore::Acquire for the objects of a list; it leaves alone a count that is not
\* positive.
AcquireCounts(objs) ==
  [s \in Semaphore |->
     CASE available_count[s] <= 0 -> available_count[s]
       [] Occurrences(s, objs) < available_count[s] ->
            available_count[s] - Occurrences(s, objs)
       [] OTHER -> 0]

\* object->Acquire(t) for every object of the list.  A mutex that is not held yet
\* takes the thread's current priority, and Thread::UpdatePriority follows.
Acquire(objs, t) ==
  LET Free(m) == m \in ToSet(objs) /\ lock_count[m] = 0
  IN  /\ signaled'        = AcquireSignals(objs)
      /\ available_count' = AcquireCounts(objs)
      /\ lock_count'      = [m \in Mutex |-> lock_count[m] + Occurrences(m, objs)]
      /\ holding_thread'  = [m \in Mutex |-> IF Free(m) THEN t ELSE holding_thread[m]]
      /\ mutex_priority'  = [m \in Mutex |->
                               IF Free(m) THEN current_priority[t] ELSE mutex_priority[m]]
      /\ IF \E m \in Mutex : Free(m)
         THEN /\ BoostPriority(t, BestPriority(t, {m \in Mutex : holding_thread'[m] = t},
                                              mutex_priority'))
              /\ PrepareReschedule
         ELSE UNCHANGED <<current_priority, ready_queue, halt_vars>>

\* Mutant of UpdateMutexPriority: waiters do not boost the holder.
NoInheritance(m, waiters) == UNCHANGED <<mutex_priority, current_priority, ready_queue>>

\* Mutex::UpdatePriority, when `waiters' wait for m.
UpdateMutexPriority(m, waiters) ==
  LET best   == Min({ThreadPrioLowest} \cup {current_priority[w] : w \in ToSet(waiters)})
      holder == holding_thread[m]
  IN  IF holder = NoThread \/ best = mutex_priority[m]
      THEN UNCHANGED <<mutex_priority, current_priority, ready_queue>>
      ELSE /\ mutex_priority' = [mutex_priority EXCEPT ![m] = best]
           /\ BoostPriority(holder, BestPriority(holder, HeldMutexes(holder), mutex_priority'))

--------------------------------------------------------------------------------
\* Kernel calls.

\* The thread of o's list that WaitObject::GetHighestPriorityReadyThread returns is
\* the first of the best priority among those that can acquire all they wait for.
CanAcquire(t, o) ==
  /\ ~ShouldWait(o, t)
  /\ status[t] = "WaitSynchAll" =>
       \A x \in ToSet(wait_objects[t]) : ~ShouldWait(x, t)

\* Mutant of ReadyIndices: only the first thread of the list is considered.
FirstIndex(o) ==
  {i \in DOMAIN waiting_threads[o] : i = 1 /\ CanAcquire(waiting_threads[o][i], o)}

ReadyIndices(o) ==
  {i \in DOMAIN waiting_threads[o] : CanAcquire(waiting_threads[o][i], o)}
IsHighestPriority(o, i) ==
  /\ i \in ReadyIndices(o)
  /\ \A j \in ReadyIndices(o) :
       LET p == current_priority[waiting_threads[o][i]]
           q == current_priority[waiting_threads[o][j]]
       IN  p < q \/ (p = q /\ i <= j)

\* One turn of the loop of WaitObject::WakeupAllWaitingThreads: the thread acquires
\* what it waits for, its callback stores the result, and it leaves every list.
WakeupOne ==
  /\ Calling("WakeupAllWaitingThreads")
  /\ \E i \in DOMAIN waiting_threads[Top.obj] :
       LET t == waiting_threads[Top.obj][i]
       IN  /\ IsHighestPriority(Top.obj, i)
           /\ Acquire(IF status[t] = "WaitSynchAll" THEN wait_objects[t] ELSE <<Top.obj>>, t)
           /\ result' = [result EXCEPT ![t] = "Success"]
           /\ calls' = WakingCalls(t) \o calls
  /\ UNCHANGED <<status, nominal_priority, wait_objects, waiting_threads, wakeups,
                 current_thread, timer_events, interval, process_status, loop_vars>>

\* The loop ends; Event and Timer then clear a pulse.
WakeupDone ==
  /\ Calling("WakeupAllWaitingThreads")
  /\ ReadyIndices(Top.obj) = {}
  /\ signaled' = [o \in Signalable |->
                    signaled[o] /\ ~(o = Top.obj /\ ResetType[o] = "Pulse")]
  /\ Return(<<>>)
  /\ UNCHANGED <<status, priority_vars, wait_vars, wakeups, current_thread, timer_events,
                 interval, available_count, mutex_vars, process_status, loop_vars, halt_vars>>

\* AddWaitingThread for the next object of the list.
AddWaitingThread ==
  /\ Calling("AddWaitingThread")
  /\ LET t  == Top.thread
         o  == Head(Top.objs)
         ws == IF t \in ToSet(waiting_threads[o]) THEN waiting_threads[o]
               ELSE Append(waiting_threads[o], t)
     IN  /\ waiting_threads' = [waiting_threads EXCEPT ![o] = ws]
         /\ wait_objects' = [wait_objects EXCEPT ![t] = Append(@, o)]
         /\ IF o \in Mutex THEN UpdateMutexPriority(o, ws)
            ELSE UNCHANGED <<mutex_priority, current_priority, ready_queue>>
         /\ Return(IF Len(Top.objs) = 1 THEN <<>> ELSE <<Enter(t, Tail(Top.objs))>>)
  /\ UNCHANGED <<status, nominal_priority, result, wakeups, current_thread, timer_vars,
                 available_count, lock_count, holding_thread, process_status, loop_vars,
                 halt_vars>>

\* RemoveWaitingThread for the next object the thread waits for.
RemoveWaitingThread ==
  /\ Calling("RemoveWaitingThread")
  /\ LET t  == Top.thread
         o  == Head(wait_objects[t])
         ws == RemoveFirst(waiting_threads[o], t)
     IN  \/ /\ wait_objects[t] # <<>>
            /\ waiting_threads' = [waiting_threads EXCEPT ![o] = ws]
            /\ wait_objects' = [wait_objects EXCEPT ![t] = Tail(@)]
            /\ IF o \in Mutex THEN UpdateMutexPriority(o, ws)
               ELSE UNCHANGED <<mutex_priority, current_priority, ready_queue>>
            /\ UNCHANGED calls
         \/ /\ wait_objects[t] = <<>>
            /\ Return(<<>>)
            /\ UNCHANGED <<wait_objects, waiting_threads, mutex_priority, current_priority,
                           ready_queue>>
  /\ UNCHANGED <<status, nominal_priority, result, wakeups, current_thread, timer_vars,
                 available_count, lock_count, holding_thread, process_status, loop_vars,
                 halt_vars>>

\* Mutant of Waiting: sleeping threads cannot be resumed.
WaitingForObjects == {"WaitSynchAny", "WaitSynchAll"}

\* The statuses ResumeFromWait wakes a thread from.
Waiting == {"WaitSynchAny", "WaitSynchAll", "WaitSleep"}

\* Thread::ResumeFromWait; a thread that is already ready stays where it is.
ResumeFromWait ==
  /\ Calling("ResumeFromWait")
  /\ LET t == Top.thread
     IN  \/ /\ status[t] \in Waiting
            /\ ready_queue' = QueuePushBack(ready_queue, t, current_priority[t])
            /\ status' = [status EXCEPT ![t] = "Ready"]
            /\ PrepareReschedule
         \/ /\ status[t] \notin Waiting
            /\ UNCHANGED <<ready_queue, status, halt_vars>>
  /\ Return(<<>>)
  /\ UNCHANGED <<nominal_priority, current_priority, wait_vars, wakeups, current_thread,
                 timer_vars, available_count, mutex_vars, process_status, loop_vars>>

\* Mutant of CancelWakeup: the wakeup event stays in the queue.
KeepsWakeup(t) == wakeups
\* UnscheduleEvent(ThreadWakeupEventType, thread_id)
CancelWakeup(t) == [wakeups EXCEPT ![t] = 0]

\* Thread::Stop takes a ready thread from the queue.
Unready(t) ==
  IF status[t] = "Ready" THEN QueueRemove(ready_queue, t, current_priority[t]) ELSE ready_queue

\* The part of Thread::Stop before the first call it makes.
Stop(t, more) ==
  /\ status' = [status EXCEPT ![t] = "Dead"]
  /\ wakeups' = CancelWakeup(t)
  /\ ready_queue' = Unready(t)
  /\ calls' = StoppingCalls(t) \o more
  /\ UNCHANGED <<nominal_priority, current_priority, wait_vars, current_thread, timer_vars,
                 available_count, mutex_vars, loop_vars>>

\* ReleaseThreadMutexes, the next mutex of the set.
ReleaseThreadMutexes ==
  /\ Calling("ReleaseThreadMutexes")
  /\ \/ \E m \in HeldMutexes(Top.thread) :
          /\ lock_count' = [lock_count EXCEPT ![m] = 0]
          /\ holding_thread' = [holding_thread EXCEPT ![m] = NoThread]
          /\ calls' = <<Wakeup(m)>> \o calls
     \/ /\ HeldMutexes(Top.thread) = {}
        /\ Return(<<>>)
        /\ UNCHANGED <<lock_count, holding_thread>>
  /\ UNCHANGED <<status, priority_vars, wait_vars, wakeups, current_thread, timer_vars,
                 available_count, mutex_priority, process_status, loop_vars, halt_vars>>

\* The end of Timer::Signal.
RearmTimer ==
  /\ Calling("RearmTimer")
  /\ timer_events' = IF interval[Top.obj] THEN [timer_events EXCEPT ![Top.obj] = @ + 1]
                     ELSE timer_events
  /\ Return(<<>>)
  /\ UNCHANGED <<status, priority_vars, wait_vars, wakeups, current_thread, signaled, interval,
                 available_count, mutex_vars, process_status, loop_vars, halt_vars>>

\* The end of SVC::SetThreadPriority, the next mutex of pending_mutexes.
UpdatePendingMutexes ==
  /\ Calling("UpdatePending")
  /\ \/ \E m \in Top.mutexes :
          /\ UpdateMutexPriority(m, waiting_threads[m])
          /\ Return(<<UpdatePending(Top.mutexes \ {m})>>)
     \/ /\ Top.mutexes = {}
        /\ Return(<<>>)
        /\ UNCHANGED <<mutex_priority, current_priority, ready_queue>>
  /\ UNCHANGED <<status, nominal_priority, wait_vars, wakeups, current_thread, timer_vars,
                 available_count, lock_count, holding_thread, process_status, loop_vars,
                 halt_vars>>

\* ThreadManager::TerminateProcessThreads, the next thread of the process; the
\* core's current thread comes last.
TerminateProcessThreads ==
  /\ Calling("TerminateProcessThreads")
  /\ LET cur    == current_thread[Top.core]
         doomed == {t \in Thread : /\ CoreOf[t] = Top.core /\ OwnerOf[t] = Top.process
                                   /\ status[t] \notin {"Unborn", "Dead"} /\ t # cur}
     IN  \/ \E t \in doomed : Stop(t, calls) /\ UNCHANGED halt_vars
         \/ /\ doomed = {} /\ cur # NoThread /\ OwnerOf[cur] = Top.process
            /\ Stop(cur, Tail(calls))
            /\ PrepareReschedule
         \/ /\ doomed = {} /\ (cur # NoThread => OwnerOf[cur] # Top.process)
            /\ Return(<<>>)
            /\ UNCHANGED <<status, priority_vars, wait_vars, wakeups, current_thread,
                           timer_vars, available_count, mutex_vars, loop_vars, halt_vars>>
  /\ UNCHANGED process_status

KernelCall ==
  \/ WakeupOne \/ WakeupDone \/ AddWaitingThread \/ RemoveWaitingThread \/ ResumeFromWait
  \/ ReleaseThreadMutexes \/ RearmTimer \/ UpdatePendingMutexes \/ TerminateProcessThreads

--------------------------------------------------------------------------------
\* System calls of the thread that the running core executes.

Guest(t) ==
  /\ to_advance = <<>> /\ calls = <<>> /\ ~halted
  /\ t = current_thread[Head(to_run)]

Available(objs, t, wait_all) ==
  IF wait_all THEN \A i \in DOMAIN objs : ~ShouldWait(objs[i], t)
              ELSE \E i \in DOMAIN objs : ~ShouldWait(objs[i], t)

\* SVC::WaitSynchronization1 (a list of one object) and SVC::WaitSynchronizationN.
WaitSynchronization(t, objs, wait_all, timeout) ==
  /\ Guest(t)
  /\ \A m \in HeldMutexes(t) : lock_count[m] + Occurrences(m, objs) <= MaxLockCount
  /\ \/ /\ Available(objs, t, wait_all)
        /\ LET first == SelectInSeq(objs, LAMBDA o : ~ShouldWait(o, t))
           IN  Acquire(IF wait_all THEN objs ELSE <<objs[first]>>, t)
        /\ result' = [result EXCEPT ![t] = "Success"]
        /\ UNCHANGED <<status, wakeups, calls>>
     \/ /\ ~Available(objs, t, wait_all)
        /\ result' = [result EXCEPT ![t] = "Timeout"]
        /\ IF timeout = "zero"
           THEN UNCHANGED <<status, wakeups, calls, halt_vars>>
           ELSE /\ status' = [status EXCEPT ![t] =
                                IF wait_all THEN "WaitSynchAll" ELSE "WaitSynchAny"]
                /\ wakeups' = IF timeout = "finite" THEN [wakeups EXCEPT ![t] = @ + 1]
                              ELSE wakeups
                /\ calls' = IF objs = <<>> THEN <<>> ELSE <<Enter(t, objs)>>
                /\ PrepareReschedule
        /\ UNCHANGED <<current_priority, ready_queue, signaled, available_count, mutex_vars>>
  /\ UNCHANGED <<nominal_priority, wait_objects, waiting_threads, current_thread, timer_events,
                 interval, process_status, loop_vars>>

\* SVC::SleepThread; yielding to nobody returns at once.
SleepThread(t, timeout) ==
  /\ Guest(t)
  /\ timeout = "zero" => FirstReady(Head(to_run), ThreadPrioLowest + 1) # NoThread
  /\ status' = [status EXCEPT ![t] = "WaitSleep"]
  /\ wakeups' = IF timeout = "forever" THEN wakeups ELSE [wakeups EXCEPT ![t] = @ + 1]
  /\ PrepareReschedule
  /\ UNCHANGED <<priority_vars, wait_vars, current_thread, timer_vars, available_count,
                 mutex_vars, process_status, calls, loop_vars>>

\* Event::Signal, from SVC::SignalEvent or from an HLE service's timing event.
SignalEvent(e) ==
  /\ calls = <<>>
  /\ to_advance = <<>> => \E t \in Thread : Guest(t)
  /\ signaled' = [signaled EXCEPT ![e] = TRUE]
  /\ calls' = <<Wakeup(e)>>
  /\ UNCHANGED <<status, priority_vars, wait_vars, wakeups, current_thread, timer_events,
                 interval, available_count, mutex_vars, process_status, loop_vars, halt_vars>>

\* SVC::ClearEvent and SVC::ClearTimer.
Clear(t, o) ==
  /\ Guest(t)
  /\ signaled' = [signaled EXCEPT ![o] = FALSE]
  /\ UNCHANGED <<status, priority_vars, wait_vars, wakeups, current_thread, timer_events,
                 interval, available_count, mutex_vars, process_status, calls, loop_vars,
                 halt_vars>>

\* Mutant of CancelEvent: Timer::Set forgets the event that is already scheduled.
KeepsEvent(o) == timer_events

\* Timer::Cancel
CancelEvent(o) == [timer_events EXCEPT ![o] = 0]

\* Timer::Set: any pending event is cancelled; a zero delay signals at once.
SetTimer(t, o, delayed, periodic) ==
  /\ Guest(t)
  /\ interval' = [interval EXCEPT ![o] = periodic]
  /\ timer_events' = IF delayed THEN [CancelEvent(o) EXCEPT ![o] = @ + 1] ELSE CancelEvent(o)
  /\ signaled' = [signaled EXCEPT ![o] = @ \/ ~delayed]
  /\ calls' = IF delayed THEN <<>> ELSE <<Wakeup(o), Rearm(o)>>
  /\ UNCHANGED <<status, priority_vars, wait_vars, wakeups, current_thread, available_count,
                 mutex_vars, process_status, loop_vars, halt_vars>>

CancelTimer(t, o) ==
  /\ Guest(t)
  /\ timer_events' = CancelEvent(o)
  /\ UNCHANGED <<status, priority_vars, wait_vars, wakeups, current_thread, signaled, interval,
                 available_count, mutex_vars, process_status, calls, loop_vars, halt_vars>>

\* An s32 addition, which wraps around.
Add32(x, y) == ((x + y + IntMax + 1) % (2 * (IntMax + 1))) - (IntMax + 1)

MayRelease(s, release_count) == MaxCount[s] >= Add32(release_count, available_count[s])

\* Neither the system call nor Semaphore::Release looks at the sign of the argument.
ReleaseSemaphore(t, s, release_count) ==
  /\ Guest(t)
  /\ MayRelease(s, release_count)
  /\ available_count' = [available_count EXCEPT ![s] = Add32(release_count, @)]
  /\ calls' = <<Wakeup(s)>>
  /\ UNCHANGED <<status, priority_vars, wait_vars, wakeups, current_thread, timer_vars,
                 mutex_vars, process_status, loop_vars, halt_vars>>

\* Mutex::Release by its holder.
ReleaseMutex(t, m) ==
  /\ Guest(t)
  /\ holding_thread[m] = t /\ lock_count[m] > 0
  /\ lock_count' = [lock_count EXCEPT ![m] = @ - 1]
  /\ IF lock_count[m] > 1
     THEN UNCHANGED <<holding_thread, current_priority, ready_queue, calls, halt_vars>>
     ELSE /\ holding_thread' = [holding_thread EXCEPT ![m] = NoThread]
          /\ BoostPriority(t, BestPriority(t, HeldMutexes(t) \ {m}, mutex_priority))
          /\ calls' = <<Wakeup(m)>>
          /\ PrepareReschedule
  /\ UNCHANGED <<status, nominal_priority, wait_vars, wakeups, current_thread, timer_vars,
                 available_count, mutex_priority, process_status, loop_vars>>

\* Thread::SetPriority followed by Thread::UpdatePriority; then the mutexes the
\* thread waits for are updated.
SetThreadPriority(t, u, priority) ==
  /\ Guest(t)
  /\ status[u] \notin {"Unborn", "Dormant"}
  /\ nominal_priority' = [nominal_priority EXCEPT ![u] = priority]
  /\ BoostPriority(u, Min({priority} \cup {mutex_priority[m] : m \in HeldMutexes(u)}))
  /\ calls' = <<UpdatePending(Mutex \cap ToSet(wait_objects[u]))>>
  /\ PrepareReschedule
  /\ UNCHANGED <<status, wait_vars, wakeups, current_thread, timer_vars, available_count,
                 mutex_vars, process_status, loop_vars>>

\* A thread whose thread-local storage cannot be allocated stays in the list of the
\* core's threads, dormant, and the guest gets no handle to it.
CreateThread(t, u, priority) ==
  /\ Guest(t)
  /\ status[u] = "Unborn" /\ OwnerOf[u] = OwnerOf[t]
  /\ nominal_priority' = [nominal_priority EXCEPT ![u] = priority]
  /\ current_priority' = [current_priority EXCEPT ![u] = priority]
  /\ \/ /\ status' = [status EXCEPT ![u] = "Ready"]
        /\ ready_queue' = QueuePushBack(ready_queue, u, priority)
        /\ PrepareReschedule
     \/ /\ u \in WithoutTLS
        /\ status' = [status EXCEPT ![u] = "Dormant"]
        /\ UNCHANGED <<ready_queue, halt_vars>>
  /\ UNCHANGED <<wait_vars, wakeups, current_thread, timer_vars, available_count, mutex_vars,
                 process_status, calls, loop_vars>>

ExitThread(t) ==
  /\ Guest(t)
  /\ Stop(t, <<>>)
  /\ PrepareReschedule
  /\ UNCHANGED process_status

\* SVC::ExitProcess and SVC::TerminateProcess.
TerminateProcess(t, p) ==
  /\ Guest(t)
  /\ process_status[p] = "Running"
  /\ process_status' = [process_status EXCEPT ![p] = "Exited"]
  /\ calls' = [i \in 1 .. NumCores |-> Terminate(p, i - 1)]
  /\ UNCHANGED <<status, priority_vars, wait_vars, wakeups, current_thread, timer_vars,
                 available_count, mutex_vars, loop_vars, halt_vars>>

SystemCall(t) ==
  \/ \E objs \in WaitLists[t], wait_all \in BOOLEAN, timeout \in Timeouts :
       WaitSynchronization(t, objs, wait_all, timeout)
  \/ \E timeout \in Timeouts : SleepThread(t, timeout)
  \/ \E o \in Signalable : Clear(t, o)
  \/ \E o \in Timer, delayed, periodic \in BOOLEAN : SetTimer(t, o, delayed, periodic)
  \/ \E o \in Timer : CancelTimer(t, o)
  \/ \E s \in Semaphore, n \in ReleaseCounts : ReleaseSemaphore(t, s, n)
  \/ \E m \in Mutex : ReleaseMutex(t, m)
  \/ \E u \in Thread, p \in Priorities : SetThreadPriority(t, u, p) \/ CreateThread(t, u, p)
  \/ ExitThread(t)
  \/ \E p \in Kills[OwnerOf[t]] : TerminateProcess(t, p)

--------------------------------------------------------------------------------
\* Timing events and the loop over the cores.

\* Mutant of TimesOut: a timeout that comes late overwrites the result.
AlwaysTimesOut(t) == TRUE

TimesOut(t) == status[t] \in {"WaitSynchAny", "WaitSynchAll"}

\* A wait times out; if the thread was signalled first, nothing is left to do.
ThreadWakeupCallback(t) ==
  /\ to_advance # <<>> /\ calls = <<>>
  /\ CoreOf[t] = RunningCore /\ wakeups[t] > 0
  /\ wakeups' = [wakeups EXCEPT ![t] = @ - 1]
  /\ IF TimesOut(t)
     THEN /\ result' = [result EXCEPT ![t] = "Timeout"]
          /\ calls' = WakingCalls(t)
     ELSE /\ calls' = <<Resume(t)>>
          /\ UNCHANGED result
  /\ UNCHANGED <<status, priority_vars, wait_objects, waiting_threads, current_thread,
                 timer_vars, available_count, mutex_vars, process_status, loop_vars, halt_vars>>

TimerCallback(o) ==
  /\ to_advance # <<>> /\ calls = <<>>
  /\ timer_events[o] > 0
  /\ timer_events' = [timer_events EXCEPT ![o] = @ - 1]
  /\ signaled' = [signaled EXCEPT ![o] = TRUE]
  /\ calls' = <<Wakeup(o), Rearm(o)>>
  /\ UNCHANGED <<status, priority_vars, wait_vars, wakeups, current_thread, interval,
                 available_count, mutex_vars, process_status, loop_vars, halt_vars>>

\* ThreadManager::PopNextReadyThread
PopNextReadyThread(c) ==
  LET cur    == current_thread[c]
      better == FirstReady(c, current_priority[cur])
  IN  IF cur # NoThread /\ status[cur] = "Running"
      THEN IF better = NoThread THEN cur ELSE better
      ELSE FirstReady(c, ThreadPrioLowest + 1)

\* ThreadManager::Reschedule and ThreadManager::SwitchContext
Reschedule(c) ==
  LET cur   == current_thread[c]
      next  == PopNextReadyThread(c)
      yield == cur # NoThread /\ status[cur] = "Running"
      queue == IF yield THEN QueuePushFront(ready_queue, cur, current_priority[cur])
               ELSE ready_queue
      saved == IF yield THEN [status EXCEPT ![cur] = "Ready"] ELSE status
  IN  /\ current_thread' = [current_thread EXCEPT ![c] = next]
      /\ status' = IF next = NoThread THEN saved ELSE [saved EXCEPT ![next] = "Running"]
      /\ wakeups' = IF next = NoThread THEN wakeups ELSE CancelWakeup(next)
      /\ ready_queue' = IF next = NoThread THEN queue
                        ELSE QueueRemove(queue, next, current_priority[next])

\* The timer of a core has run its events.
EndAdvance ==
  /\ to_advance # <<>> /\ calls = <<>>
  /\ Reschedule(RunningCore)
  /\ to_advance' = Tail(to_advance)
  /\ UNCHANGED <<nominal_priority, current_priority, wait_vars, timer_vars, available_count,
                 mutex_vars, process_status, calls, to_run, halt_vars>>

\* System::RunLoop first advances the cores that lag behind the fastest one.  If one
\* of them is far behind it is run alone; otherwise all cores are advanced, and run
\* one after the other.
StartIteration ==
  \E n \in 0 .. NumCores - 1 : \E lagging \in [1 .. n -> Core] :
    /\ \A i, j \in 1 .. n : i < j => lagging[i] < lagging[j]
    /\ \/ to_advance' = lagging \o AllCores /\ to_run' = AllCores
       \/ \E i \in 1 .. n : to_advance' = lagging /\ to_run' = <<lagging[i]>>

\* The slice of a core is over, or it was halted.
EndSlice ==
  /\ to_advance = <<>> /\ calls = <<>>
  /\ IF reschedule_pending \/ current_thread[RunningCore] = NoThread
     THEN Reschedule(RunningCore)
     ELSE UNCHANGED <<current_thread, status, wakeups, ready_queue>>
  /\ reschedule_pending' = FALSE
  /\ halted' = FALSE
  /\ IF Len(to_run) > 1 THEN to_run' = Tail(to_run) /\ UNCHANGED to_advance
                        ELSE StartIteration
  /\ UNCHANGED <<nominal_priority, current_priority, wait_vars, timer_vars, available_count,
                 mutex_vars, process_status, calls>>

--------------------------------------------------------------------------------
MainThread(c, p) == {t \in InitialThreads : CoreOf[t] = c /\ InitialPriority[t] = p}

Init ==
  /\ status = [t \in Thread |-> IF t \in InitialThreads THEN "Ready" ELSE "Unborn"]
  /\ nominal_priority = InitialPriority
  /\ current_priority = InitialPriority
  /\ wait_objects     = [t \in Thread |-> <<>>]
  /\ result           = [t \in Thread |-> "Success"]
  /\ wakeups          = [t \in Thread |-> 0]
  /\ ready_queue      = [c \in Core |-> [p \in Priority |->
                           IF MainThread(c, p) = {} THEN <<>>
                           ELSE <<CHOOSE t \in MainThread(c, p) : TRUE>>]]
  /\ current_thread   = [c \in Core |-> NoThread]
  /\ waiting_threads  = [o \in WaitObject |-> <<>>]
  /\ signaled         = [o \in Signalable |-> FALSE]
  /\ timer_events     = [o \in Timer |-> 0]
  /\ interval         = [o \in Timer |-> FALSE]
  /\ available_count  = InitialCount
  /\ lock_count       = [m \in Mutex |-> 0]
  /\ holding_thread   = [m \in Mutex |-> NoThread]
  /\ mutex_priority   = [m \in Mutex |-> 0]
  /\ process_status   = [p \in Process |-> "Running"]
  /\ calls            = <<>>
  /\ to_advance       = AllCores
  /\ to_run           = AllCores
  /\ halted           = FALSE
  /\ reschedule_pending = FALSE

Next ==
  \/ KernelCall
  \/ \E t \in Thread : SystemCall(t) \/ ThreadWakeupCallback(t)
  \/ \E e \in Event : SignalEvent(e)
  \/ \E o \in Timer : TimerCallback(o)
  \/ EndAdvance
  \/ EndSlice

Spec == Init /\ [][Next]_vars

\* TerminateProcess stops a thread that is the current one of another core without
\* halting that core, which may go on executing it for the rest of its slice.  These
\* are the behaviours in which it makes no system call in that time.
StoppedAreSilent == \A t \in Thread : Guest(t) /\ status[t] = "Dead" => EndSlice
SilentSpec == Init /\ [][Next /\ StoppedAreSilent]_vars

\* Kernel code runs to completion, the timers of the cores keep advancing, slices are
\* of bounded length, and a scheduled wakeup comes due.
Fairness ==
  /\ WF_vars(KernelCall)
  /\ SF_vars(EndAdvance) /\ SF_vars(EndSlice)
  /\ \A t \in Thread : SF_vars(ThreadWakeupCallback(t))
FairSpec == Spec /\ Fairness

--------------------------------------------------------------------------------
\* Properties.

Status == {"Unborn", "Dormant", "Ready", "Running", "Dead"} \cup Waiting

Call ==
  [op : {"WakeupAllWaitingThreads"}, obj : WaitObject]
    \cup [op : {"AddWaitingThread"}, thread : Thread, objs : Seq(WaitObject) \ {<<>>}]
    \cup [op : {"RemoveWaitingThread", "ResumeFromWait", "ReleaseThreadMutexes"},
          thread : Thread]
    \cup [op : {"RearmTimer"}, obj : Timer]
    \cup [op : {"UpdatePending"}, mutexes : SUBSET Mutex]
    \cup [op : {"TerminateProcessThreads"}, process : Process, core : Core]

\* Every variable keeps its type; an available count never exceeds max_count, but a
\* negative release or one that wraps around can take it anywhere below.
TypeOK ==
  /\ status \in [Thread -> Status]
  /\ nominal_priority \in [Thread -> Priority] /\ current_priority \in [Thread -> Priority]
  /\ wait_objects \in [Thread -> Seq(WaitObject)]
  /\ result \in [Thread -> {"Success", "Timeout"}]
  /\ wakeups \in [Thread -> Nat]
  /\ ready_queue \in [Core -> [Priority -> Seq(Thread)]]
  /\ current_thread \in [Core -> Thread \cup {NoThread}]
  /\ waiting_threads \in [WaitObject -> Seq(Thread)]
  /\ signaled \in [Signalable -> BOOLEAN]
  /\ timer_events \in [Timer -> Nat] /\ interval \in [Timer -> BOOLEAN]
  /\ available_count \in [Semaphore -> Int32]
  /\ \A s \in Semaphore : available_count[s] <= MaxCount[s]
  /\ lock_count \in [Mutex -> Nat]
  /\ holding_thread \in [Mutex -> Thread \cup {NoThread}]
  /\ mutex_priority \in [Mutex -> Priority]
  /\ process_status \in [Process -> {"Running", "Exited"}]
  /\ calls \in Seq(Call)
  /\ to_advance \in Seq(Core) /\ to_run \in Seq(Core) \ {<<>>}
  /\ halted \in BOOLEAN /\ reschedule_pending \in BOOLEAN

InSynch(t) == status[t] \in {"WaitSynchAny", "WaitSynchAll"}

\* The waiting lists of the objects and the wait lists of the threads agree, and no
\* list names a thread twice: what a wakeup, a timeout or Thread::Stop removes, it
\* removes everywhere.
WaitListsAgree ==
  /\ \A o \in WaitObject :
       /\ IsInjective(waiting_threads[o])
       /\ \A t \in ToSet(waiting_threads[o]) : o \in ToSet(wait_objects[t])
  /\ calls = <<>> =>
       \A t \in Thread :
         /\ wait_objects[t] # <<>> => InSynch(t)
         /\ \A o \in ToSet(wait_objects[t]) : t \in ToSet(waiting_threads[o])

\* While an object wakes its waiters, its list only holds threads that wait for
\* objects (the assertion of WaitObject::GetHighestPriorityReadyThread: "The list
\* of waiting threads must not contain threads that are not waiting to be
\* awakened").
WaitersAreWaiting ==
  Calling("WakeupAllWaitingThreads") =>
    \A t \in ToSet(waiting_threads[Top.obj]) : InSynch(t)

\* The ready queues hold exactly the ready threads, each once, on its core and at
\* its current priority, whatever boosts, timeouts and terminations happen: the
\* scheduler neither loses a ready thread nor switches to one that is not ready.
ReadyQueueExact ==
  /\ \A c \in Core, p \in Priority :
       /\ IsInjective(ready_queue[c][p])
       /\ \A t \in ToSet(ready_queue[c][p]) :
            status[t] = "Ready" /\ CoreOf[t] = c /\ current_priority[t] = p
  /\ \A t \in Thread : status[t] = "Ready" =>
       t \in ToSet(ready_queue[CoreOf[t]][current_priority[t]])

\* Only the current thread of a core runs, and no wakeup event is left over for it:
\* the timeout of a wait that was signalled cannot reach a later wait or sleep of
\* the same thread.
NoStaleWakeup ==
  \A t \in Thread : status[t] = "Running" => current_thread[CoreOf[t]] = t /\ wakeups[t] = 0

\* The current thread of a core belongs to it and is running or has been killed,
\* except on the core that executes, between the call that put the thread to sleep
\* and the reschedule: that core is then halted, and a reschedule is pending.
CurrentThreads ==
  /\ halted => to_advance = <<>> /\ reschedule_pending
  /\ \A c \in Core : current_thread[c] # NoThread =>
       /\ CoreOf[current_thread[c]] = c
       /\ \/ status[current_thread[c]] \in {"Running", "Dead"}
          \/ halted /\ c = Head(to_run)

\* A timer never has two events scheduled: Timer::Set cancels the old one, and a
\* periodic timer schedules the next only when it fires.
OneTimerEvent == \A o \in Timer : timer_events[o] <= 1

\* When the kernel has finished its calls, no thread is left waiting for what it
\* could have: every operation that makes an object available wakes the threads
\* that can then acquire all they wait for.
NoLostWakeup ==
  calls = <<>> =>
    \A t \in Thread :
      InSynch(t) => ~Available(wait_objects[t], t, status[t] = "WaitSynchAll")
                      \/ wait_objects[t] = <<>>

\* A mutex is locked exactly when a thread holds it, and outside of kernel calls
\* that thread lives: Thread::Stop leaves no mutex behind.
MutexOwned ==
  \A m \in Mutex :
    /\ lock_count[m] > 0 <=> holding_thread[m] # NoThread
    /\ calls = <<>> /\ holding_thread[m] # NoThread =>
         status[holding_thread[m]] \notin {"Unborn", "Dormant", "Dead"}

\* The current priority of a live thread is the best among its own and those of the
\* mutexes it holds (Thread::UpdatePriority), so that a boost ends with the mutex.
PriorityIsBest ==
  \A t \in Thread : status[t] \notin {"Unborn", "Dead"} =>
    /\ \A p \in {nominal_priority[t]} \cup {mutex_priority[m] : m \in HeldMutexes(t)} :
         current_priority[t] <= p
    /\ \/ current_priority[t] = nominal_priority[t]
       \/ \E m \in HeldMutexes(t) : current_priority[t] = mutex_priority[m]

\* While a core executes a slice, no operation puts a better ready thread behind the
\* one that executes: all that ready or boost a thread of that core, or worsen the
\* one that executes, ask for a reschedule before the guest goes on.  A thread that
\* another core or its timer readies has to wait, and the code forgets a case: the
\* holder of a mutex loses the priority of a waiter that is terminated.
Executes(t) == to_advance = <<>> /\ t = current_thread[Head(to_run)]
BestOrHalted(t) ==
  \/ ReadyLevels(CoreOf[t], current_priority[t]) = {}
  \/ halted
  \/ \E i \in DOMAIN calls : /\ calls[i].op = "ResumeFromWait"
                            /\ status[calls[i].thread] \in Waiting
TerminatedLeaves == Calling("RemoveWaitingThread") /\ status[Top.thread] = "Dead"
HighestPriorityRuns ==
  [][\A t \in Thread :
       Executes(t) /\ Executes(t)' /\ to_run' = to_run /\ BestOrHalted(t)
         => BestOrHalted(t)' \/ TerminatedLeaves]_vars

\* The result of a wait is settled when the thread is made ready: a timeout that
\* comes late changes nothing, and a dead thread stays dead.
SettledWaits ==
  [][\A t \in Thread :
       /\ status[t] = "Ready" => result'[t] = result[t] /\ wait_objects'[t] = <<>>
       /\ status[t] = "Dead" => status'[t] = "Dead"]_vars

\* The loops of the kernel end: in particular WakeupAllWaitingThreads, which goes on
\* while it finds a thread that can be woken.
KernelCallsFinish == calls # <<>> ~> calls = <<>>

\* A thread whose wait or sleep has a wakeup scheduled does wake up.
TimeoutsFire ==
  \A t \in Thread :
    status[t] \notin {"Ready", "Running", "Dead"} /\ wakeups[t] > 0
      ~> status[t] \in {"Ready", "Running", "Dead"}

\* The holder of a mutex is never of worse priority than a thread that waits for it
\* has of its own (thread.h, Thread::UpdatePriority: "This prevents priority inversion
\* via priority inheritance"), whatever else the holder and the waiters hold or wait
\* for.  Two things are not inherited: what a waiter got from others, for
\* Mutex::UpdatePriority stops at the direct holder; and what a thread that waits for
\* all of several objects lends, for Mutex::Acquire does not look at those who already
\* wait for a free mutex.
PriorityInherited ==
  calls = <<>> =>
    \A m \in Mutex : holding_thread[m] # NoThread =>
      \A t \in ToSet(waiting_threads[m]) : status[t] = "WaitSynchAny" =>
        current_priority[holding_thread[m]] <= nominal_priority[t]

================================================================================

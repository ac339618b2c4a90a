------------------------------ MODULE ThreadWorker -----------------------------
(******************************************************************************)
(* The worker pool of common/thread_worker.h (StatefulThreadWorker).  Workers *)
(* take requests from a deque: the newest first when it is long, but every so *)
(* often the oldest.  One thread queues work, waits for it and destroys the   *)
(* pool; others may queue work too.  Pacing only delays a worker.  How a      *)
(* worker is stopped while it waits depends on the build: polyfill_thread.h   *)
(* stands in for std::jthread where the library has none.                     *)
(******************************************************************************)
EXTENDS Naturals, FiniteSets, SequencesExt

CONSTANTS Worker, Task,
          lifo_threshold, starvation_guard_interval,
          MaxNotifies,  \* threads that are between queueing and notify_one
          JThread       \* the library has jthread: __cpp_lib_jthread

ASSUME WorkerAssumption ==
  /\ IsFiniteSet(Worker)
  /\ {lifo_threshold, starvation_guard_interval, MaxNotifies} \subseteq Nat
  /\ JThread \in BOOLEAN

VARIABLES
  requests, lifo_pulls_since_oldest,
  unfinished,   \* work_scheduled - work_done
  notifies,     \* notify_one calls on condition still to be made
  state,        \* of each worker, see States
  task,         \* of each worker, while it runs
  waiter,       \* of WaitForRequests, see Waits
  stop          \* the workers whose jthread was asked to stop

pool_vars == <<requests, lifo_pulls_since_oldest, unfinished, notifies, state, task, waiter, stop>>

\* "top" of the loop; in CondvarWait the predicate was "false" and the mutex is still
\* held, then "asleep" and "woken"; "running" a task.
States == {"top", "false", "asleep", "woken", "running", "stopped"}
\* "deciding": the predicate was false, the mutex is still held.
Waits  == {"out", "deciding", "blocked", "woken", "returned"}

PoolInit ==
  /\ requests = << >> /\ lifo_pulls_since_oldest = 0
  /\ unfinished = 0 /\ notifies = 0
  /\ state = [w \in Worker |-> "top"]
  /\ task = [w \in Worker |-> {}]
  /\ waiter = "out" /\ stop = {}

Running == UNION {task[w] : w \in Worker}
In(S)   == {w \in Worker : state[w] \in S}

\* Everyone else holds queue_mutex for one step only.
MutexFree == waiter # "deciding" /\ In({"false"}) = {}

QueueWork(t) ==
  /\ MutexFree /\ stop = {} /\ notifies < MaxNotifies
  /\ t \notin Range(requests) \cup Running
  /\ requests' = Append(requests, t)
  /\ unfinished' = unfinished + 1
  /\ notifies' = notifies + 1
  /\ UNCHANGED <<lifo_pulls_since_oldest, state, task, waiter, stop>>

\* Mutant of NotifyOne: the notification gets lost.
NotifyNobody ==
  /\ notifies > 0 /\ notifies' = notifies - 1
  /\ UNCHANGED <<requests, lifo_pulls_since_oldest, unfinished, state, task, waiter, stop>>

NotifyOne ==
  /\ notifies > 0 /\ notifies' = notifies - 1
  /\ IF In({"asleep"}) = {} THEN UNCHANGED state
     ELSE \E w \in In({"asleep"}) : state' = [state EXCEPT ![w] = "woken"]
  /\ UNCHANGED <<requests, lifo_pulls_since_oldest, unfinished, task, waiter, stop>>

--------------------------------------------------------------------------------
(* The loop of a worker. *)

\* Mutant of Notified: the waiter is not told.
NotNotified(w) == waiter

\* wait_condition.notify_all, on the way to sleep.
Notified(w) == IF state[w] = "top" /\ waiter = "blocked" THEN "woken" ELSE waiter

Check(w) ==
  /\ MutexFree /\ w \notin stop /\ state[w] \in {"top", "woken"}
  /\ requests = << >>
  /\ waiter' = Notified(w)
  /\ state' = [state EXCEPT ![w] = "false"]
  /\ UNCHANGED <<requests, lifo_pulls_since_oldest, unfinished, notifies, task, stop>>

\* The library's wait looks at the token once more under the lock its notification
\* takes; the polyfill's waits for a notification that may have been given.
Sleep(w) ==
  /\ state[w] = "false"
  /\ state' = [state EXCEPT ![w] = IF JThread /\ w \in stop THEN "woken" ELSE "asleep"]
  /\ UNCHANGED <<requests, lifo_pulls_since_oldest, unfinished, notifies, task, waiter, stop>>

Long == lifo_threshold > 0 /\ Len(requests) > lifo_threshold

\* Mutant of LifoPulls: they are not counted.
Uncounted == lifo_pulls_since_oldest

LifoPulls == lifo_pulls_since_oldest + 1

TakeOldest == Long => starvation_guard_interval > 0 /\ LifoPulls >= starvation_guard_interval

Take(w) ==
  /\ MutexFree /\ w \notin stop /\ state[w] \in {"top", "woken"}
  /\ requests # << >>
  /\ IF TakeOldest
     THEN /\ lifo_pulls_since_oldest' = 0
          /\ task' = [task EXCEPT ![w] = {Head(requests)}]
          /\ requests' = Tail(requests)
     ELSE /\ lifo_pulls_since_oldest' = LifoPulls
          /\ task' = [task EXCEPT ![w] = {Last(requests)}]
          /\ requests' = Front(requests)
  /\ state' = [state EXCEPT ![w] = "running"]
  /\ UNCHANGED <<unfinished, notifies, waiter, stop>>

Finish(w) ==
  /\ state[w] = "running"
  /\ unfinished' = unfinished - 1
  /\ task' = [task EXCEPT ![w] = {}]
  /\ state' = [state EXCEPT ![w] = "top"]
  /\ UNCHANGED <<requests, lifo_pulls_since_oldest, notifies, waiter, stop>>

Exit(w) ==
  /\ w \in stop
  /\ state[w] = "top" \/ (state[w] = "woken" /\ MutexFree)
  /\ state' = [state EXCEPT ![w] = "stopped"]
  /\ UNCHANGED <<requests, lifo_pulls_since_oldest, unfinished, notifies, task, waiter, stop>>

--------------------------------------------------------------------------------
(* The owner. *)

\* The predicate of WaitForRequests.
AllDone == unfinished = 0 \/ In({"stopped"}) = Worker

\* WaitForRequests is called, or its wait is over: look again.
Look ==
  /\ waiter \in {"out", "woken"} /\ stop = {} /\ MutexFree
  /\ waiter' = IF AllDone THEN "returned" ELSE "deciding"
  /\ UNCHANGED <<requests, lifo_pulls_since_oldest, unfinished, notifies, state, task, stop>>

Block ==
  /\ waiter = "deciding" /\ waiter' = "blocked"
  /\ UNCHANGED <<requests, lifo_pulls_since_oldest, unfinished, notifies, state, task, stop>>

Return ==
  /\ waiter = "returned" /\ waiter' = "out"
  /\ UNCHANGED <<requests, lifo_pulls_since_oldest, unfinished, notifies, state, task, stop>>

\* Mutant of WokenByStop: the worker is only flagged.
WokenByLater(w) == state

\* The callback that request_stop runs notifies the condition, without queue_mutex.
WokenByStop(w) == [state EXCEPT ![w] = IF @ = "asleep" THEN "woken" ELSE @]

\* The destructor's next jthread asks its worker to stop; the one before was joined.
RequestStop(w) ==
  /\ waiter = "out" /\ w \notin stop /\ stop \subseteq In({"stopped"})
  /\ stop' = stop \cup {w}
  /\ state' = WokenByStop(w)
  /\ UNCHANGED <<requests, lifo_pulls_since_oldest, unfinished, notifies, task, waiter>>

--------------------------------------------------------------------------------
Work(w) == Check(w) \/ Sleep(w) \/ Take(w) \/ Finish(w) \/ Exit(w)

PoolNext == \/ \E t \in Task : QueueWork(t)
            \/ \E w \in Worker : Work(w) \/ RequestStop(w)
            \/ NotifyOne \/ Look \/ Block \/ Return

PoolSpec == PoolInit /\ [][PoolNext]_pool_vars

\* Host threads run and tasks end; nobody has to queue work, wait or destroy the pool,
\* but a destructor goes on.
PoolFairSpec == /\ PoolSpec
                /\ WF_pool_vars(NotifyOne) /\ WF_pool_vars(Block)
                /\ WF_pool_vars(waiter = "woken" /\ Look)
                /\ WF_pool_vars(stop # {} /\ \E w \in Worker : RequestStop(w))
                /\ \A w \in Worker : WF_pool_vars(Work(w))

--------------------------------------------------------------------------------
PoolTypeOK ==
  /\ requests \in Seq(Task) /\ IsInjective(requests)
  /\ lifo_pulls_since_oldest \in Nat /\ unfinished \in Nat /\ notifies \in 0..MaxNotifies
  /\ state \in [Worker -> States] /\ task \in [Worker -> SUBSET Task]
  /\ waiter \in Waits /\ stop \subseteq Worker

\* While a worker sleeps, every request has an awake worker or a notification that
\* is still to come: no request waits for a worker to finish another one although a
\* worker is free.
EnoughAwake ==
  stop = {} /\ In({"asleep"}) # {} =>
    Len(requests) <= notifies + Cardinality(In({"top", "woken"}))

\* Every request is taken, however many newer ones arrive, unless the pool is stopped.
NoStarvation ==
  \A t \in Task : t \in Range(requests) ~> t \notin Range(requests) \/ stop # {}

\* WaitForRequests returns, unless more and more work arrives.
WaitReturns ==
  <>[][\A t \in Task : ~QueueWork(t)]_pool_vars => (waiter = "blocked" ~> waiter = "returned")

\* The destructor returns: every worker it asks to stop, whether it sleeps, works or is
\* about to sleep, leaves its loop and is joined.
Joined == stop # {} ~> In({"stopped"}) = Worker
================================================================================

------------------------------ MODULE ThreadState ------------------------------
(******************************************************************************)
(* What the blocking calls outside KernelSync share: the status of every      *)
(* thread, the callback to run when its wait ends, and its wakeup events.     *)
(* Which ready thread is switched to is the scheduler's choice (KernelSync);  *)
(* here it may be any.                                                        *)
(******************************************************************************)
EXTENDS Naturals, Sequences

CONSTANTS Thread,
          Priority   \* Priority[t]: current_priority of t, a lower value is better

ASSUME PriorityAssumption == Priority \in [Thread -> Nat]

VARIABLES status,
          wakeup_callback,  \* "none", "ipc", "arbiter" or "async"
          event_queue,      \* wakeup events of each thread that Advance will fire
          ts_queue          \* those pushed by other host threads and not moved yet

thread_vars == <<status, wakeup_callback, event_queue, ts_queue>>

\* "WaitSynchAny" is a ReplyAndReceive that found nothing to receive.
Waits  == {"WaitArb", "WaitIPC", "WaitHleEvent", "WaitSynchAny"}
Status == Waits \cup {"Ready", "Running", "Dead"}

InitThreads ==
  /\ status = [t \in Thread |-> "Ready"]
  /\ wakeup_callback = [t \in Thread |-> "none"]
  /\ event_queue = [t \in Thread |-> 0]
  /\ ts_queue = [t \in Thread |-> 0]

\* What is left of the list s when the members of T are erased (a recursive function,
\* so that theorems can speak about it).
Without(s, T) ==
  LET left[i \in 0..Len(s)] ==
        IF i = 0 THEN << >>
        ELSE IF s[i] \in T THEN left[i - 1] ELSE Append(left[i - 1], s[i])
  IN  left[Len(s)]

\* The events of a set of threads are removed, but not those still in ts_queue.
UnscheduleEvent(T) == [t \in Thread |-> IF t \in T THEN 0 ELSE event_queue[t]]

\* Thread::ResumeFromWait for the threads of T, after the updates st and cb: ready,
\* running and dead threads are left alone.
Resumed(st, T)  == [t \in Thread |-> IF t \in T /\ st[t] \in Waits THEN "Ready" ELSE st[t]]
Released(st, cb, T) == [t \in Thread |-> IF t \in T /\ st[t] \in Waits THEN "none" ELSE cb[t]]

ResumeFromWait(T) ==
  /\ status' = Resumed(status, T)
  /\ wakeup_callback' = Released(status, wakeup_callback, T)

\* SwitchContext to t.
SwitchTo(t) ==
  /\ status[t] = "Ready"
  /\ status' = [status EXCEPT ![t] = "Running"]
  /\ event_queue' = UnscheduleEvent({t})
  /\ UNCHANGED <<wakeup_callback, ts_queue>>

\* SwitchContext away from t, which goes on later.
Preempt(t) ==
  /\ status[t] = "Running"
  /\ status' = [status EXCEPT ![t] = "Ready"]
  /\ UNCHANGED <<wakeup_callback, event_queue, ts_queue>>

\* Timer::MoveEvents, at the start of Advance.
MoveEvents ==
  /\ \E t \in Thread : ts_queue[t] > 0
  /\ event_queue' = [t \in Thread |-> event_queue[t] + ts_queue[t]]
  /\ ts_queue' = [t \in Thread |-> 0]
  /\ UNCHANGED <<status, wakeup_callback>>
================================================================================

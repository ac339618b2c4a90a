------------------------------- MODULE KernelWaits -----------------------------
(******************************************************************************)
(* Sessions and an address arbiter over the same threads, with what concerns  *)
(* both: the events that wake a thread and the termination of threads.        *)
(******************************************************************************)
EXTENDS AddressArbiter, Sessions, FiniteSets

CONSTANT KillStates   \* the states in which threads are terminated
ASSUME KillAssumption == KillStates \subseteq Status

vars == <<thread_vars, waiting_threads, session_vars>>

Init == InitThreads /\ InitArbiter /\ InitSessions

\* A thread that runs again is done with its request.
Schedule ==
  /\ \/ \E t \in Thread : SwitchTo(t) /\ request' = [request EXCEPT ![t] = None]
     \/ \E t \in Thread : Preempt(t) /\ UNCHANGED request
     \/ MoveEvents /\ UNCHANGED request
  /\ UNCHANGED <<waiting_threads, endpoint_vars, queue_vars, wait_vars, async_vars>>

\* ReportAsyncState(false), in the callback of an asynchronous request.
OperationsLeft(t) == pending_async_operations - (IF wakeup_callback[t] = "async" THEN 1 ELSE 0)

\* ThreadWakeupCallback for an event of t, a thread in the table: the callback of
\* its wait first, then the thread resumes.  With the callback goes the service's
\* request, and with the last request of a session without client the endpoint.
ThreadWakeup(t) ==
  /\ event_queue[t] > 0
  /\ status[t] # "Dead"
  /\ event_queue' = [event_queue EXCEPT ![t] = @ - 1]
  /\ waiting_threads' = IF wakeup_callback[t] = "arbiter" THEN TimedOut(t) ELSE waiting_threads
  /\ StopWaiting({t})
  /\ ResumeFromWait({t})
  /\ pending_async_operations' = OperationsLeft(t)
  /\ LET s == request[t]
     IN  IF wakeup_callback[t] = "async" /\ client[s] = "closed" /\ ~InUse(s, wakeup_callback')
         THEN server' = [server EXCEPT ![s] = "closed"] /\ active_sessions' = Disconnected(s)
         ELSE UNCHANGED <<server, active_sessions>>
  /\ UNCHANGED <<ts_queue, client, port, pending_sessions, queue_vars,
                 request, worker, starting>>

\* Mutant of Stop: the thread stays in the lists of the objects it waits for.
StopOnly(t) ==
  /\ status[t] \in KillStates \ {"Dead"}
  /\ status' = [status EXCEPT ![t] = "Dead"]
  /\ event_queue' = UnscheduleEvent({t})
  /\ UNCHANGED <<wakeup_callback, ts_queue, waiting_threads, session_vars>>

\* Thread::Stop: the thread leaves the lists of its wait objects; an arbiter and
\* a session keep it.
Stop(t) ==
  /\ status[t] \in KillStates \ {"Dead"}
  /\ status' = [status EXCEPT ![t] = "Dead"]
  /\ event_queue' = UnscheduleEvent({t})
  /\ StopWaiting({t})
  /\ UNCHANGED <<wakeup_callback, ts_queue, waiting_threads, endpoint_vars, queue_vars,
                 request, async_vars>>

Arbitrate == ArbitrateAddress /\ UNCHANGED session_vars
IPC       == Call /\ UNCHANGED waiting_threads
HostDone  == \E t \in Thread : AsyncSectionDone(t) /\ UNCHANGED waiting_threads
Asleep    == \E t \in Thread : SleepClientThread(t) /\ UNCHANGED waiting_threads

\* The emulation thread does one thing after the other; only host threads come between.
Emulation == \/ Schedule \/ Arbitrate \/ IPC
             \/ \E t \in Thread : ThreadWakeup(t) \/ Stop(t)

Next == \/ starting = {} /\ Emulation
        \/ Asleep \/ HostDone

Spec == Init /\ [][Next]_vars

\* Host threads run, and the emulation loop comes round to the events of the clients
\* that are due, although no event fires while RunAsync is under way.
FairSpec == /\ Spec
            /\ WF_vars(Asleep)
            /\ WF_vars(MoveEvents /\ UNCHANGED <<waiting_threads, session_vars>>)
            /\ \A t \in Thread \ Server :
                 /\ WF_vars(AsyncSectionDone(t) /\ UNCHANGED waiting_threads)
                 /\ WF_vars(ThreadWakeup(t))

--------------------------------------------------------------------------------
TypeOK ==
  /\ status \in [Thread -> Status]
  /\ wakeup_callback \in [Thread -> {"none", "ipc", "arbiter", "async"}]
  /\ event_queue \in [Thread -> Nat] /\ ts_queue \in [Thread -> Nat]
  /\ waiting_threads \in Seq([thread : Thread, address : Address])
  /\ client \in [Session -> {"none", "open", "closed"}]
  /\ server \in [Session -> {"none", "open", "closed"}]
  /\ port \in [Session -> Port \cup {None}]
  /\ pending_requesting_threads \in [Session -> Seq(Thread)]
  /\ currently_handling \in [Session -> Thread \cup {None}]
  /\ pending_sessions \in [Port -> Seq(Session)]
  /\ active_sessions \in [Port -> Nat]
  /\ waiters \in [Object -> Seq(Thread)]
  /\ wait_objects \in [Thread -> SUBSET Object]
  /\ request \in [Thread -> Session \cup {None}]
  /\ worker \subseteq Thread /\ starting \subseteq Thread
  /\ pending_async_operations \in Nat

\* A port counts exactly the sessions whose server endpoint exists: whichever end
\* is closed first, and also while a request keeps the endpoint alive, no slot of
\* the port is lost or given back twice (ClientPort::ConnectionClosed asserts
\* active_sessions > 0).
SessionsCounted ==
  \A p \in Port :
    /\ active_sessions[p] = Cardinality({s \in Session : port[s] = p /\ server[s] = "open"})
    /\ active_sessions[p] <= max_sessions[p]

\* A request is queued or handled at most once, by the session it was sent to, and
\* its thread sleeps until the reply; conversely a thread that sleeps for a reply
\* is queued, handled or has its wakeup scheduled, unless an endpoint of its
\* session was closed (the sessions then forget their clients).  The count that
\* holds back save states is that of the requests a host thread works on, also when
\* it is done before the client sleeps.
RequestsTracked ==
  /\ \A s \in Session : LET q == pending_requesting_threads[s] IN
       /\ IsInjective(q) /\ ~Contains(q, currently_handling[s])
       /\ \A t \in Range(q) \cup ({currently_handling[s]} \ {None}) :
            request[t] = s /\ status[t] \in {"WaitIPC", "Dead"}
  /\ \A t \in Thread : status[t] = "WaitIPC" => LET s == request[t] IN
       \/ Contains(pending_requesting_threads[s], t)
       \/ currently_handling[s] = t
       \/ event_queue[t] > 0
       \/ client[s] = "closed" \/ server[s] = "closed"
  /\ pending_async_operations = Cardinality({t \in Thread : status[t] = "WaitHleEvent"} \cup starting)

OneServer == \A t, u \in Server : t = u

\* No server thread sleeps while one of the objects it waits for is ready, and the
\* lists of the objects agree with those of the threads.  When several server threads
\* wait for one session, a reply may leave it ready and wake none of them, because
\* ReplyAndReceive looks at the objects of its own thread only.
NoIdleServer ==
  /\ \A s \in Session : waiters[s] # << >> =>
       /\ client[s] = "open"
       /\ OneServer => ~SessionReady(s, pending_requesting_threads[s], currently_handling[s])
  /\ \A p \in Port : waiters[p] # << >> => pending_sessions[p] = << >>
  /\ \A t \in Thread, o \in Object :
       /\ Contains(waiters[o], t) <=> o \in wait_objects[t]
       /\ o \in wait_objects[t] => status[t] = "WaitSynchAny"

\* The arbiter's list holds every thread that waits for it, none twice, whether a signal,
\* a timeout or both reach it; the threads that do not wait any more were terminated, for
\* Thread::Stop leaves them there ("Inconsistent AddressArbiter state", for the next signal).
ArbiterConsistent ==
  /\ Len(waiting_threads) = Cardinality(Threads(waiting_threads))
  /\ {t \in Thread : status[t] = "WaitArb"} \subseteq Threads(waiting_threads)
  /\ \A t \in Threads(waiting_threads) : status[t] \in {"WaitArb", "Dead"}

\* A request that runs on a host thread comes back.
AsyncReturns == \A t \in Thread \ Server : status[t] = "WaitHleEvent" ~> status[t] # "WaitHleEvent"
================================================================================

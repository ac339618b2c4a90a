-------------------------------- MODULE Sessions -------------------------------
(******************************************************************************)
(* Ports and sessions (hle/kernel: client_port, server_port, client_session,  *)
(* server_session, hle_ipc; the svc handlers that use them).  A session has   *)
(* two endpoints; a request puts its client thread to sleep until the server  *)
(* replies.  The server is a guest process, or a service inside the emulator  *)
(* that may run part of the request on another host thread.                   *)
(*                                                                            *)
(* A command buffer is its request; translation between processes succeeds    *)
(* (the code asserts where it does not).                                      *)
(******************************************************************************)
EXTENDS ThreadState, SequencesExt

CONSTANTS Session, Port,
          HlePort,       \* the ports whose sessions a service in the emulator serves
          max_sessions,  \* of each port
          Server,        \* the threads of the guest servers
          None

ASSUME PortAssumption == HlePort \subseteq Port /\ max_sessions \in [Port -> Nat]
ASSUME SessionAssumption == Session \subseteq Nat
ASSUME NoneAssumption == None \notin Thread \cup Session \cup Port
ASSUME ServerAssumption == Server \subseteq Thread /\ Session \cap Port = {}

\* What a server thread waits for.
Object == Session \cup Port

VARIABLES
  client, server,              \* each endpoint: "none", "open" or "closed"
  port,                        \* the port a session was opened through
  pending_requesting_threads, currently_handling,
  pending_sessions, active_sessions,
  waiters,                     \* waiting_threads of every wait object
  wait_objects,                \* of every thread
  request,                     \* the session of a thread's request, until it runs again
  worker,                      \* threads with an async section still running
  starting,                    \* the thread in whose call RunAsync is under way, if any
  pending_async_operations

endpoint_vars == <<client, server, port, pending_sessions, active_sessions>>
queue_vars    == <<pending_requesting_threads, currently_handling>>
wait_vars     == <<waiters, wait_objects>>
async_vars    == <<worker, starting, pending_async_operations>>
session_vars  == <<endpoint_vars, queue_vars, wait_vars, request, async_vars>>

InitSessions ==
  /\ client = [s \in Session |-> "none"]
  /\ server = [s \in Session |-> "none"]
  /\ port = [s \in Session |-> None]
  /\ pending_requesting_threads = [s \in Session |-> << >>]
  /\ currently_handling = [s \in Session |-> None]
  /\ pending_sessions = [p \in Port |-> << >>]
  /\ active_sessions = [p \in Port |-> 0]
  /\ waiters = [o \in Object |-> << >>]
  /\ wait_objects = [t \in Thread |-> {}]
  /\ request = [t \in Thread |-> None]
  /\ worker = {} /\ starting = {}
  /\ pending_async_operations = 0

Hle(s) == port[s] \in HlePort

\* Accepted by the server, which has a handle to it.
Accepted(s) ==
  /\ server[s] = "open" /\ ~Hle(s)
  /\ \A p \in Port : ~Contains(pending_sessions[p], s)

--------------------------------------------------------------------------------
\* ShouldWait of a session with these queues and of a port.
SessionReady(s, pending, handling) ==
  client[s] # "open" \/ (pending # << >> /\ handling = None)

\* Mutant of Remaining: the request stays in the queue.
AllRemain(s) == pending_requesting_threads[s]

\* ServerSession::Acquire takes the request that came last.
Remaining(s) == Front(pending_requesting_threads[s])

\* Of the threads that wait for o, the first with the best priority.
BestWaiter(o) ==
  waiters[o][CHOOSE i \in DOMAIN waiters[o] :
    /\ \A j \in DOMAIN waiters[o] : Priority[waiters[o][i]] <= Priority[waiters[o][j]]
    /\ \A j \in 1..i - 1 : Priority[waiters[o][i]] < Priority[waiters[o][j]]]

\* The threads of T leave every list they wait in.
StopWaiting(T) ==
  /\ waiters' = [o \in Object |-> Without(waiters[o], T)]
  /\ wait_objects' = [t \in Thread |-> IF t \in T THEN {} ELSE wait_objects[t]]

--------------------------------------------------------------------------------
(* Opening and closing. *)

\* ClientPort::Connect: ConnectToPort and CreateSessionToPort.  Sessions are numbered
\* in the order of their creation.
Connect(t, p, s) ==
  /\ status[t] = "Running"
  /\ client[s] = "none" /\ \A s0 \in Session : s0 < s => client[s0] # "none"
  /\ active_sessions[p] < max_sessions[p]
  /\ active_sessions' = [active_sessions EXCEPT ![p] = @ + 1]
  /\ client' = [client EXCEPT ![s] = "open"]
  /\ server' = [server EXCEPT ![s] = "open"]
  /\ port' = [port EXCEPT ![s] = p]
  /\ pending_sessions' = IF p \in HlePort THEN pending_sessions
                         ELSE [pending_sessions EXCEPT ![p] = Append(@, s)]
  /\ LET woken == IF pending_sessions'[p] = << >> THEN {} ELSE Range(waiters[p])
     IN  StopWaiting(woken) /\ ResumeFromWait(woken)
  /\ UNCHANGED <<queue_vars, request, async_vars, event_queue, ts_queue>>

\* ServerPort::Accept.
AcceptSession(t, p) ==
  /\ status[t] = "Running"
  /\ pending_sessions[p] # << >>
  /\ pending_sessions' = [pending_sessions EXCEPT ![p] = Front(@)]
  /\ UNCHANGED <<thread_vars, client, server, port, active_sessions, queue_vars,
                 wait_vars, request, async_vars>>

\* Mutant of Disconnected: the port is not told.
KeepsConnection(s) == active_sessions

\* ~ServerSession tells the port.
Disconnected(s) == [active_sessions EXCEPT ![port[s]] = @ - 1]

\* A request under way in a service keeps the server endpoint alive.
InUse(s, callbacks) == \E t \in Thread : callbacks[t] = "async" /\ request[t] = s

\* ~ClientSession: the requests are dropped, the server is told; the service that
\* served the session lets go of its endpoint.
CloseClient(t, s) ==
  /\ status[t] = "Running"
  /\ client[s] = "open"
  /\ client' = [client EXCEPT ![s] = "closed"]
  /\ IF server[s] = "open"
     THEN /\ pending_requesting_threads' = [pending_requesting_threads EXCEPT ![s] = << >>]
          /\ currently_handling' = [currently_handling EXCEPT ![s] = None]
     ELSE UNCHANGED queue_vars
  /\ IF server[s] = "open" /\ Hle(s) /\ ~InUse(s, wakeup_callback)
     THEN server' = [server EXCEPT ![s] = "closed"] /\ active_sessions' = Disconnected(s)
     ELSE UNCHANGED <<server, active_sessions>>
  /\ StopWaiting(Range(waiters[s])) /\ ResumeFromWait(Range(waiters[s]))
  /\ UNCHANGED <<port, pending_sessions, request, async_vars, event_queue, ts_queue>>

\* ~ServerSession, when no thread waits for the session any more: its queues go
\* with it, the clients in them stay asleep.
CloseServer(t, s) ==
  /\ status[t] = "Running"
  /\ Accepted(s) /\ waiters[s] = << >>
  /\ server' = [server EXCEPT ![s] = "closed"]
  /\ active_sessions' = Disconnected(s)
  /\ pending_requesting_threads' = [pending_requesting_threads EXCEPT ![s] = << >>]
  /\ currently_handling' = [currently_handling EXCEPT ![s] = None]
  /\ UNCHANGED <<thread_vars, client, port, pending_sessions, wait_vars, request, async_vars>>

--------------------------------------------------------------------------------
(* Requests. *)

\* SendSyncRequest to a guest server.  A server thread that waits takes the
\* request at once; the client sleeps in either case.
RequestGuest(t, s) ==
  /\ status[t] = "Running"
  /\ client[s] = "open" /\ server[s] = "open" /\ ~Hle(s)
  /\ request' = [request EXCEPT ![t] = s]
  /\ LET asleep  == [status EXCEPT ![t] = "WaitIPC"]
         pending == Append(pending_requesting_threads[s], t)
         taken   == waiters[s] # << >> /\ currently_handling[s] = None
         woken   == IF taken THEN {BestWaiter(s)} ELSE {}
     IN  /\ pending_requesting_threads' = [pending_requesting_threads EXCEPT
                                             ![s] = IF taken THEN Front(pending) ELSE pending]
         /\ currently_handling' = IF taken THEN [currently_handling EXCEPT ![s] = t]
                                  ELSE currently_handling
         /\ StopWaiting(woken)
         /\ status' = Resumed(asleep, woken)
         /\ wakeup_callback' = Released(asleep, wakeup_callback, woken)
  /\ UNCHANGED <<endpoint_vars, async_vars, event_queue, ts_queue>>

\* SendSyncRequest to a service that answers at once: a short sleep.
RequestService(t, s) ==
  /\ status[t] = "Running"
  /\ client[s] = "open" /\ Hle(s)
  /\ request' = [request EXCEPT ![t] = s]
  /\ status' = [status EXCEPT ![t] = "WaitIPC"]
  /\ event_queue' = [event_queue EXCEPT ![t] = @ + 1]
  /\ UNCHANGED <<wakeup_callback, ts_queue, endpoint_vars, queue_vars, wait_vars, async_vars>>

\* ... to one that uses RunAsync when the settings ask for deterministic operations:
\* the blocking part runs at once, the client sleeps as long as it says.
RequestDeterministic(t, s) ==
  /\ status[t] = "Running"
  /\ client[s] = "open" /\ Hle(s)
  /\ request' = [request EXCEPT ![t] = s]
  /\ pending_async_operations' = pending_async_operations + 1
  /\ status' = [status EXCEPT ![t] = "WaitHleEvent"]
  /\ wakeup_callback' = [wakeup_callback EXCEPT ![t] = "async"]
  /\ event_queue' = [event_queue EXCEPT ![t] = @ + 1]
  /\ UNCHANGED <<ts_queue, endpoint_vars, queue_vars, wait_vars, worker, starting>>

\* ... otherwise RunAsync starts a host thread for the blocking part ...
RequestAsync(t, s) ==
  /\ status[t] = "Running"
  /\ client[s] = "open" /\ Hle(s)
  /\ request' = [request EXCEPT ![t] = s]
  /\ pending_async_operations' = pending_async_operations + 1
  /\ worker' = worker \cup {t}
  /\ starting' = {t}
  /\ UNCHANGED <<thread_vars, endpoint_vars, queue_vars, wait_vars>>

\* ... which may be done before the client sleeps.
SleepClientThread(t) ==
  /\ t \in starting
  /\ starting' = {}
  /\ status' = [status EXCEPT ![t] = "WaitHleEvent"]
  /\ wakeup_callback' = [wakeup_callback EXCEPT ![t] = "async"]
  /\ UNCHANGED <<event_queue, ts_queue, endpoint_vars, queue_vars, wait_vars, request,
                 worker, pending_async_operations>>

\* Mutant of AsyncSectionDone: a client that does not sleep yet is not woken.
AsyncSectionEarly(t) ==
  /\ t \in worker
  /\ worker' = worker \ {t}
  /\ ts_queue' = IF status[t] = "WaitHleEvent" THEN [ts_queue EXCEPT ![t] = @ + 1] ELSE ts_queue
  /\ UNCHANGED <<status, wakeup_callback, event_queue, endpoint_vars, queue_vars,
                 wait_vars, request, starting, pending_async_operations>>

\* The host thread is done and wakes the client through the thread-safe queue.
AsyncSectionDone(t) ==
  /\ t \in worker
  /\ worker' = worker \ {t}
  /\ ts_queue' = [ts_queue EXCEPT ![t] = @ + 1]
  /\ UNCHANGED <<status, wakeup_callback, event_queue, endpoint_vars, queue_vars,
                 wait_vars, request, starting, pending_async_operations>>

--------------------------------------------------------------------------------
(* Replies. *)

\* The first part of ReplyAndReceive: answer the request of r and resume its thread.
\* An error ends the call when there is none or the client is gone.
ReplyFails(r) == r # None /\ (currently_handling[r] = None \/ client[r] # "open")
Replied(r)    == IF r = None THEN {} ELSE {currently_handling[r]}

\* The handling field is cleared first of all.
Handling(r) == IF r = None THEN currently_handling
               ELSE [currently_handling EXCEPT ![r] = None]

ReplyError(t, r) ==
  /\ status[t] = "Running"
  /\ r # None /\ Accepted(r) /\ ReplyFails(r)
  /\ currently_handling' = Handling(r)
  /\ UNCHANGED <<thread_vars, endpoint_vars, pending_requesting_threads, wait_vars,
                 request, async_vars>>

\* The second part: receive from o, the first object of the list that is ready, or
\* sleep until one of the objects O is.
ReplyAndReceive(t, r, O) ==
  /\ status[t] = "Running"
  /\ r # None => Accepted(r) /\ ~ReplyFails(r)
  /\ \A s \in O \cap Session : Accepted(s)
  /\ LET handling == Handling(r)
         ready == {s \in O \cap Session :
                     SessionReady(s, pending_requesting_threads[s], handling[s])}
                  \cup {p \in O \cap Port : pending_sessions[p] # << >>}
     IN  \/ /\ O = {} \/ ready # {}
            /\ ResumeFromWait(Replied(r))
            /\ \/ /\ \E s \in ready \cap Session :
                       /\ client[s] = "open"
                       /\ currently_handling' =
                            [handling EXCEPT ![s] = Last(pending_requesting_threads[s])]
                       /\ pending_requesting_threads' =
                            [pending_requesting_threads EXCEPT ![s] = Remaining(s)]
               \/ /\ O = {} \/ ready \cap Port # {} \/ \E s \in ready \cap Session : client[s] # "open"
                  /\ currently_handling' = handling
                  /\ UNCHANGED pending_requesting_threads
            /\ UNCHANGED wait_vars
         \/ /\ O # {} /\ ready = {}
            /\ status' = [Resumed(status, Replied(r)) EXCEPT ![t] = "WaitSynchAny"]
            /\ wakeup_callback' =
                 [Released(status, wakeup_callback, Replied(r)) EXCEPT ![t] = "ipc"]
            /\ wait_objects' = [wait_objects EXCEPT ![t] = O]
            /\ waiters' = [o \in Object |-> IF o \in O THEN Append(waiters[o], t) ELSE waiters[o]]
            /\ currently_handling' = handling
            /\ UNCHANGED pending_requesting_threads
  /\ UNCHANGED <<event_queue, ts_queue, endpoint_vars, request, async_vars>>

--------------------------------------------------------------------------------
Call ==
  \/ \E t \in Thread \ Server, s \in Session :
       \/ \E p \in Port : Connect(t, p, s)
       \/ CloseClient(t, s)
       \/ RequestGuest(t, s)
       \/ RequestService(t, s)
       \/ RequestDeterministic(t, s)
       \/ RequestAsync(t, s)
  \/ \E t \in Server :
       \/ \E p \in Port : AcceptSession(t, p)
       \/ \E s \in Session : CloseServer(t, s) \/ ReplyError(t, s)
       \/ \E r \in Session \cup {None}, O \in SUBSET ((Port \ HlePort) \cup Session) :
            ReplyAndReceive(t, r, O)
================================================================================

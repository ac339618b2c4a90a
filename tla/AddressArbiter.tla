----------------------------- MODULE AddressArbiter ----------------------------
(******************************************************************************)
(* An address arbiter (hle/kernel/address_arbiter.cpp): threads wait on an    *)
(* address until another thread signals it or a timeout fires.  The words at  *)
(* the addresses are guest memory, which any thread may write at any time: a  *)
(* call with a comparison waits or does not.                                  *)
(******************************************************************************)
EXTENDS ThreadState, SequencesExt

CONSTANTS Address,
          SignalCounts   \* the non-negative values passed to Signal

ASSUME SignalAssumption == SignalCounts \subseteq Nat

VARIABLE waiting_threads   \* the arbiter's list: threads with their wait_address

InitArbiter == waiting_threads = << >>

\* WaitIfLessThan and DecrementAndWaitIfLessThan, when the word is less than the
\* value; in the calls with a timeout the callback and, unless it is -1, the wakeup
\* event come first.
ArbitrateWait(t, a, timeout) ==
  /\ status[t] = "Running"
  /\ status' = [status EXCEPT ![t] = "WaitArb"]
  /\ waiting_threads' = Append(waiting_threads, [thread |-> t, address |-> a])
  /\ wakeup_callback' = IF timeout = "none" THEN wakeup_callback
                        ELSE [wakeup_callback EXCEPT ![t] = "arbiter"]
  /\ event_queue' = IF timeout = "finite" THEN [event_queue EXCEPT ![t] = @ + 1]
                    ELSE event_queue
  /\ UNCHANGED ts_queue

Threads(list)    == {w.thread : w \in Range(list)}
Others(list, a)  == Without(list, [thread : Thread, address : {a}])
WaitsOn(list, a) == Without(list, [thread : Thread, address : Address \ {a}])

\* std::min_element: the first of the threads with the best priority.
FirstBest(list) ==
  LET prio(i) == Priority[list[i].thread]
  IN  list[CHOOSE i \in DOMAIN list : /\ \A j \in DOMAIN list : prio(i) <= prio(j)
                                     /\ \A j \in 1..i - 1 : prio(i) < prio(j)]

\* ResumeHighestPriorityThread: the list is partitioned, the best match erased.
Partitioned(list, a) == Others(list, a) \o WaitsOn(list, a)
AfterOne(list, a) == IF WaitsOn(list, a) = << >> THEN Partitioned(list, a)
                     ELSE Without(Partitioned(list, a), {FirstBest(WaitsOn(list, a))})

\* Signal with a value of n >= 0.
AfterSignal(n, a) ==
  LET after[i \in 0..n] == IF i = 0 THEN waiting_threads ELSE AfterOne(after[i - 1], a)
  IN  after[n]

\* The assertion that every signal begins with; if it fails, the program ends.
AllWait == \A t \in Threads(waiting_threads) : status[t] = "WaitArb"

ResumeFirst(t, a, n) ==
  /\ status[t] = "Running" /\ (n > 0 => AllWait)
  /\ waiting_threads' = AfterSignal(n, a)
  /\ ResumeFromWait(Threads(waiting_threads) \ Threads(AfterSignal(n, a)))
  /\ UNCHANGED <<event_queue, ts_queue>>

\* Signal with a negative value.
ResumeAllThreads(t, a) ==
  /\ status[t] = "Running" /\ AllWait
  /\ waiting_threads' = Others(waiting_threads, a)
  /\ ResumeFromWait(Threads(WaitsOn(waiting_threads, a)))
  /\ UNCHANGED <<event_queue, ts_queue>>

\* Mutant of TimedOut: the thread stays in the list.
StaysListed(t) == waiting_threads

\* AddressArbiter::WakeUp, called for a timeout.
TimedOut(t) == Without(waiting_threads, [thread : {t}, address : Address])

ArbitrateAddress ==
  \E t \in Thread, a \in Address :
    \/ \E timeout \in {"none", "forever", "finite"} : ArbitrateWait(t, a, timeout)
    \/ \E n \in SignalCounts : ResumeFirst(t, a, n)
    \/ ResumeAllThreads(t, a)
================================================================================

---------------------------- MODULE MCKernelSync -------------------------------
(******************************************************************************)
(* Instances of KernelSync for TLC.  t1 is the main thread of its process; it *)
(* can create the others.                                                     *)
(******************************************************************************)
EXTENDS KernelSync

CONSTANTS t1, t2, t3,   \* threads
          ev, pulse,    \* a one-shot and a pulsed event
          tm,           \* a one-shot timer
          sem,          \* a semaphore
          mx, my,       \* mutexes
          pr, pr2       \* processes

OneProcess   == [t \in Thread |-> pr]
TwoProcesses == [t \in Thread |-> IF t = t3 THEN pr2 ELSE pr]
OneCore      == [t \in Thread |-> 0]
TwoCores     == [t \in Thread |-> IF t = t3 THEN 1 ELSE 0]

\* No process is terminated; the first process terminates itself and the other.
NoKills    == [p \in Process |-> {}]
FirstKills == [p \in Process |-> IF p = pr THEN Process ELSE {}]

Resets    == [o \in Signalable |-> IF o = pulse THEN "Pulse" ELSE "OneShot"]
None      == [s \in Semaphore |-> 0]
One       == [s \in Semaphore |-> 1]
AtOne     == [t \in Thread |-> 1]
Staggered == [t \in Thread |-> IF t = t1 THEN 1 ELSE 0]

\* Releases below zero are not refused; with IntMax = 2 some wrap around and some are
\* refused.
Releases == {-2, 1}

\* What the threads wait for.
SignalLists == [t \in Thread |-> {<<pulse>>, <<ev, sem>>}]
TimerLists  == [t \in Thread |-> {<<tm>>, <<tm, pulse>>}]
\* One mutex is waited for while the other is held, alone or together with the end of
\* a thread.
MutexLists  == [t \in Thread |-> CASE t = t1 -> {<<mx>>}
                                  [] t = t2 -> {<<mx>>, <<my>>}
                                  [] t = t3 -> {<<my, t2>>}]
================================================================================

------------------------------- MODULE CoreTiming ------------------------------
(******************************************************************************)
(* Emulated time (core_timing.cpp) and the loop that runs the emulated cores  *)
(* against it (System::RunLoop).  Every core has a timer with its events; the *)
(* loop advances the timers, which fires the events that are due, and then    *)
(* lets the cores run one after the other for a slice that ends no later than *)
(* the next event.  Events for another core and events of other host threads  *)
(* go through ts_queue, which the timer empties when it advances.             *)
(******************************************************************************)
EXTENDS Integers, Sequences

CONSTANTS NumCores,
          MAX_SLICE_LENGTH,
          min_delay,    \* lag below which the loop does not let a core catch up
          Overshoot,    \* ticks by which a core may pass the end of its slice
          Delays,       \* the values of cycles_into_future
          Blocks,       \* ticks that a core executes at once
          MaxEvents, MaxTicks, MaxLoads

ASSUME TimingAssumption ==
  /\ {NumCores, MAX_SLICE_LENGTH} \subseteq Nat \ {0}
  /\ {min_delay, Overshoot, MaxEvents, MaxTicks, MaxLoads} \subseteq Nat
  /\ Delays \subseteq Nat /\ Blocks \subseteq Nat

Core == 1..NumCores

\* Where an event came from: the core that runs, another core, a host thread that
\* asked for a delay or the GPU thread, which gives a tick of the past.
Origin == {"core", "other", "host", "gpu"}
Event  == [time : Int, fifo_order : Nat, origin : Origin]

VARIABLES
  executed_ticks, slice_length, downcount, is_timer_sane,   \* of each timer
  event_queue,    \* of each timer: a set, ordered by time and fifo_order
  event_fifo_id, ts_queue,
  phase,          \* of RunLoop: "top", "lagging", "all" (advancing), "run_one", "run_all"
  step,           \* "advance", "fire", "callback" while advancing, else "none"
  core,           \* running_core, whose timer is current_timer
  delay,          \* of each core behind the global ticks at the top of the loop
  max_slice,      \* (the locals of RunLoop have their initial values outside their scope)
  made, loads     \* events scheduled and states loaded so far

ticks_vars == <<executed_ticks, slice_length, downcount, is_timer_sane>>
queue_vars == <<event_queue, event_fifo_id, ts_queue>>
loop_vars  == <<phase, step, core, delay, max_slice>>
vars       == <<ticks_vars, queue_vars, loop_vars, made, loads>>

NoDelay == [c \in Core |-> 0]

Init ==
  /\ executed_ticks = [c \in Core |-> 0]
  /\ slice_length = [c \in Core |-> MAX_SLICE_LENGTH]
  /\ downcount = [c \in Core |-> MAX_SLICE_LENGTH]
  /\ is_timer_sane = [c \in Core |-> TRUE]
  /\ event_queue = [c \in Core |-> {}]
  /\ event_fifo_id = [c \in Core |-> 0]
  /\ ts_queue = [c \in Core |-> << >>]
  /\ phase = "top" /\ step = "none" /\ core = 1
  /\ delay = NoDelay /\ max_slice = MAX_SLICE_LENGTH
  /\ made = 0 /\ loads = 0

GetTicks(c) ==
  executed_ticks[c] + (IF is_timer_sane[c] THEN 0 ELSE slice_length[c] - downcount[c])

\* Timer::MoveEvents.
Moved(c) == {[ts_queue[c][i] EXCEPT !.fifo_order = event_fifo_id[c] + i] :
               i \in DOMAIN ts_queue[c]}

\* Mutant of Ends: the next event does not shorten the slice.
IgnoresEvents(c, m) == {m}

\* Where a slice of at most m may end: nothing passes an event of c.
Ends(c, m) == {m} \cup {e.time - executed_ticks[c] : e \in event_queue[c]}

Shortest(c, m) == {s \in Ends(c, m) : \A x \in Ends(c, m) : s <= x}

--------------------------------------------------------------------------------
(* Scheduling, by the code that runs on the current core and by callbacks. *)

Emulating == phase \in {"run_one", "run_all"} \/ step = "callback"

NewEvent(time, origin) == [time |-> time, fifo_order |-> 0, origin |-> origin]

\* Mutant of EndOfSlice: the slice is not cut short.
SliceStays(d) == slice_length[core]

\* Timer::ForceExceptionCheck.
EndOfSlice(d) == IF downcount[core] > d /\ ~is_timer_sane[core]
                 THEN slice_length[core] - (downcount[core] - d) ELSE slice_length[core]

\* ScheduleEvent for the current timer.
ScheduleHere(d) ==
  /\ Emulating /\ made < MaxEvents
  /\ made' = made + 1
  /\ event_fifo_id' = [event_fifo_id EXCEPT ![core] = @ + 1]
  /\ event_queue' = [event_queue EXCEPT ![core] = @ \cup
       {[NewEvent(GetTicks(core) + d, "core") EXCEPT !.fifo_order = event_fifo_id[core] + 1]}]
  /\ slice_length' = [slice_length EXCEPT ![core] = EndOfSlice(d)]
  /\ downcount' = [downcount EXCEPT ![core] = @ - (slice_length[core] - EndOfSlice(d))]
  /\ UNCHANGED <<executed_ticks, is_timer_sane, ts_queue, loop_vars, loads>>

Push(c, e) ==
  /\ made < MaxEvents
  /\ made' = made + 1
  /\ ts_queue' = [ts_queue EXCEPT ![c] = Append(@, e)]
  /\ UNCHANGED <<ticks_vars, event_queue, event_fifo_id, loop_vars, loads>>

\* ScheduleEvent for the timer of another core.
ScheduleThere(c, d) == /\ Emulating /\ c # core
                       /\ Push(c, NewEvent(GetTicks(c) + d, "other"))

\* Mutant of SafeDelay: one slice is not enough.
NoSafeDelay(d) == d

\* "no need to be cycle accurate": at least two slices.
SafeDelay(d) == IF d < 2 * MAX_SLICE_LENGTH THEN 2 * MAX_SLICE_LENGTH ELSE d

\* ScheduleEvent in thread safe mode.  The host thread reads a timer that the
\* emulation thread may be writing: what it reads is up to a slice behind.  It acts
\* for a guest thread, which has run on c since the start or the last load.
ScheduleFromHost(c, d) ==
  /\ is_timer_sane[c] => core = c /\ step \in {"fire", "callback"}
  /\ \E behind \in {0, MAX_SLICE_LENGTH} :
       Push(c, NewEvent(GetTicks(c) - behind + SafeDelay(d), "host"))

\* ScheduleEventThreadsafeAt, with a tick that the emulation thread took before.
ScheduleEventThreadsafeAt(c) == Push(c, NewEvent(executed_ticks[c], "gpu"))

\* UnscheduleEvent and RemoveEvent find the events in event_queue only.
UnscheduleEvent ==
  /\ Emulating
  /\ \E c \in Core : \E e \in event_queue[c] :
       event_queue' = [event_queue EXCEPT ![c] = @ \ {e}]
  /\ UNCHANGED <<ticks_vars, event_fifo_id, ts_queue, loop_vars, made, loads>>

--------------------------------------------------------------------------------
(* Timer::Advance of the current core. *)

\* cycles_executed.
Elapsed(c) == slice_length[c] - downcount[c]

Advance ==
  /\ step = "advance" /\ core \in Core
  /\ phase = "lagging" => delay[core] > 0
  /\ event_queue' = [event_queue EXCEPT ![core] = @ \cup Moved(core)]
  /\ event_fifo_id' = [event_fifo_id EXCEPT ![core] = @ + Len(ts_queue[core])]
  /\ ts_queue' = [ts_queue EXCEPT ![core] = << >>]
  /\ executed_ticks' = [executed_ticks EXCEPT ![core] = @ + Elapsed(core)]
  /\ slice_length' = [slice_length EXCEPT ![core] = 0]
  /\ downcount' = [downcount EXCEPT ![core] = 0]
  /\ is_timer_sane' = [is_timer_sane EXCEPT ![core] = TRUE]
  /\ step' = "fire"
  /\ UNCHANGED <<phase, core, delay, max_slice, made, loads>>

Due(e) == e.time <= executed_ticks[core]

Before(e, f) == e.time < f.time \/ (e.time = f.time /\ e.fifo_order <= f.fifo_order)

Fire ==
  /\ step = "fire"
  /\ \E e \in event_queue[core] :
       /\ Due(e) /\ \A f \in event_queue[core] : Before(e, f)
       /\ event_queue' = [event_queue EXCEPT ![core] = @ \ {e}]
  /\ step' = "callback"
  /\ UNCHANGED <<ticks_vars, event_fifo_id, ts_queue, phase, core, delay, max_slice, made, loads>>

CallbackReturns ==
  /\ step = "callback"
  /\ step' = "fire"
  /\ UNCHANGED <<ticks_vars, queue_vars, phase, core, delay, max_slice, made, loads>>

Fired == step = "fire" /\ \A e \in event_queue[core] : ~Due(e)

--------------------------------------------------------------------------------
(* System::RunLoop. *)

\* Timer::SetNextSlice(m).
SetNextSlice(c, m) ==
  \E s \in Shortest(c, m) : /\ slice_length' = [slice_length EXCEPT ![c] = s]
                            /\ downcount' = [downcount EXCEPT ![c] = s]

\* The cores that are behind the global ticks are advanced first.
LoopTop ==
  /\ phase = "top"
  /\ \E g \in Core : /\ \A c \in Core : GetTicks(c) <= GetTicks(g)
                     /\ GetTicks(g) < MaxTicks
                     /\ delay' = [c \in Core |-> GetTicks(g) - GetTicks(c)]
  /\ phase' = "lagging" /\ step' = "advance" /\ core' = 1
  /\ UNCHANGED <<ticks_vars, queue_vars, max_slice, made, loads>>

NotLagging ==
  /\ phase = "lagging" /\ step = "advance" /\ core \in Core /\ delay[core] = 0
  /\ core' = core + 1
  /\ UNCHANGED <<ticks_vars, queue_vars, phase, step, delay, max_slice, made, loads>>

LaggingAdvanced ==
  /\ phase = "lagging" /\ Fired
  /\ is_timer_sane' = [is_timer_sane EXCEPT ![core] = FALSE]
  /\ SetNextSlice(core, delay[core])
  /\ step' = "advance" /\ core' = core + 1
  /\ UNCHANGED <<executed_ticks, queue_vars, phase, delay, max_slice, made, loads>>

\* Mutant of LaggingCore: no core is worth waiting for.
NoLaggingCore(c) == FALSE

\* current_core_to_execute, if max_delay > min_delay.
LaggingCore(c) == /\ delay[c] > min_delay
                  /\ \A d \in Core : delay[d] < delay[c] \/ (delay[d] = delay[c] /\ c <= d)

\* The core furthest behind runs alone ...
CatchUp ==
  /\ phase = "lagging" /\ step = "advance" /\ core = NumCores + 1
  /\ \E c \in Core : LaggingCore(c) /\ core' = c
  /\ phase' = "run_one" /\ step' = "none" /\ delay' = NoDelay
  /\ UNCHANGED <<ticks_vars, queue_vars, max_slice, made, loads>>

\* ... or all cores advance and run, with the shortest of their slices.
AdvanceAll ==
  /\ phase = "lagging" /\ step = "advance" /\ core = NumCores + 1
  /\ \A c \in Core : ~LaggingCore(c)
  /\ phase' = "all" /\ core' = 1 /\ delay' = NoDelay
  /\ UNCHANGED <<ticks_vars, queue_vars, step, max_slice, made, loads>>

CoreAdvanced ==
  /\ phase = "all" /\ Fired
  /\ is_timer_sane' = [is_timer_sane EXCEPT ![core] = FALSE]
  /\ max_slice' \in Shortest(core, max_slice)
  /\ step' = "advance" /\ core' = core + 1
  /\ UNCHANGED <<executed_ticks, slice_length, downcount, queue_vars, phase, delay, made, loads>>

RunFirst ==
  /\ phase = "all" /\ step = "advance" /\ core = NumCores + 1
  /\ SetNextSlice(1, max_slice)
  /\ phase' = "run_all" /\ step' = "none" /\ core' = 1
  /\ UNCHANGED <<executed_ticks, is_timer_sane, queue_vars, delay, max_slice, made, loads>>

\* The core executes n ticks.
Execute(n) ==
  /\ phase \in {"run_one", "run_all"}
  /\ downcount[core] > 0 /\ downcount[core] - n >= -Overshoot
  /\ downcount' = [downcount EXCEPT ![core] = @ - n]
  /\ UNCHANGED <<executed_ticks, slice_length, is_timer_sane, queue_vars, loop_vars, made, loads>>

\* A core without a thread is idle to the end of its slice.
Idle ==
  /\ phase \in {"run_one", "run_all"} /\ downcount[core] = slice_length[core]
  /\ downcount' = [downcount EXCEPT ![core] = 0]
  /\ UNCHANGED <<executed_ticks, slice_length, is_timer_sane, queue_vars, loop_vars, made, loads>>

\* The core returns at the end of its slice, or earlier to reschedule; the next
\* core runs no longer than this one did.
RunNext ==
  /\ phase = "run_all" /\ core < NumCores
  /\ max_slice' = Elapsed(core)
  /\ SetNextSlice(core + 1, Elapsed(core))
  /\ core' = core + 1
  /\ UNCHANGED <<executed_ticks, is_timer_sane, queue_vars, phase, step, delay, made, loads>>

LoopEnds ==
  /\ phase = "run_one" \/ (phase = "run_all" /\ core = NumCores)
  /\ phase' = "top" /\ core' = 1 /\ max_slice' = MAX_SLICE_LENGTH
  /\ UNCHANGED <<ticks_vars, queue_vars, step, delay, made, loads>>

\* A state saved here is loaded: the timers are new objects, whose is_timer_sane is
\* not among the saved fields, and saving has moved the events.
LoadState ==
  /\ phase = "top" /\ loads < MaxLoads
  /\ loads' = loads + 1
  /\ is_timer_sane' = [c \in Core |-> TRUE]
  /\ event_queue' = [c \in Core |-> event_queue[c] \cup Moved(c)]
  /\ event_fifo_id' = [c \in Core |-> event_fifo_id[c] + Len(ts_queue[c])]
  /\ ts_queue' = [c \in Core |-> << >>]
  /\ UNCHANGED <<executed_ticks, slice_length, downcount, loop_vars, made>>

--------------------------------------------------------------------------------
Loop == \/ LoopTop \/ NotLagging \/ LaggingAdvanced \/ CatchUp
        \/ AdvanceAll \/ CoreAdvanced \/ RunFirst \/ RunNext \/ LoopEnds

Next ==
  \/ Loop \/ Advance \/ Fire \/ CallbackReturns \/ UnscheduleEvent \/ LoadState
  \/ Idle \/ \E n \in Blocks : Execute(n)
  \/ \E d \in Delays : ScheduleHere(d)
  \/ \E c \in Core : ScheduleEventThreadsafeAt(c)
  \/ \E c \in Core, d \in Delays : ScheduleThere(c, d) \/ ScheduleFromHost(c, d)

Spec == Init /\ [][Next]_vars

--------------------------------------------------------------------------------
TypeOK ==
  /\ executed_ticks \in [Core -> Int] /\ slice_length \in [Core -> Int]
  /\ downcount \in [Core -> Int] /\ is_timer_sane \in [Core -> BOOLEAN]
  /\ \A c \in Core : downcount[c] >= -Overshoot /\ downcount[c] <= slice_length[c]
  /\ event_queue \in [Core -> SUBSET Event] /\ event_fifo_id \in [Core -> Nat]
  /\ ts_queue \in [Core -> Seq(Event)]
  /\ phase \in {"top", "lagging", "all", "run_one", "run_all"}
  /\ step \in {"none", "advance", "fire", "callback"}
  /\ core \in 1..NumCores + 1 /\ delay \in [Core -> Nat] /\ max_slice \in Nat
  /\ made \in 0..MaxEvents /\ loads \in 0..MaxLoads

\* The slice that a timer counts down ends before its next event: an event made
\* during the slice cuts it short, one for another core goes round the queue.
NoEventInSlice ==
  \A c \in Core : ~is_timer_sane[c] =>
    \A e \in event_queue[c] : e.time >= executed_ticks[c] + slice_length[c]

\* When events fire, those of the core itself are late by no more than the core can
\* overshoot.
OnTime ==
  step = "fire" => \A e \in event_queue[core] :
    e.origin = "core" => executed_ticks[core] - e.time <= Overshoot

\* How far the cores may be apart, but for what they overshoot: a slice and the lag that
\* the loop tolerates.  A state that is loaded may double it: the elapsed part of a slice
\* is lost to the loop, which lets a core that ran far catch up once more.
Apart[n \in 0..MaxLoads] ==
  IF n = 0 THEN MAX_SLICE_LENGTH + min_delay
           ELSE 2 * Apart[n - 1] + (NumCores + 2) * Overshoot

\* The cores stay within that, plus an overshoot of each, of each other.
CoresInStep ==
  \A c, d \in Core :
    executed_ticks[c] + Elapsed(c) - (executed_ticks[d] + Elapsed(d))
      <= Apart[loads] + NumCores * Overshoot

\* An event of another core is late by no more than the slice in which it was scheduled,
\* which is as long as the cores are apart.  One of a host thread is late by a
\* MAX_SLICE_LENGTH less: of the two slices it adds, one covers the slice by which its
\* reading of the time is behind.  (The GPU thread's are as late as the GPU.)
LateBy(origin) ==
  Apart[loads] + NumCores * Overshoot - (IF origin = "host" THEN MAX_SLICE_LENGTH ELSE 0)
QueuedOnTime ==
  step = "fire" => \A e \in event_queue[core] :
    e.origin \in {"host", "other"} => executed_ticks[core] - e.time <= LateBy(e.origin)
================================================================================

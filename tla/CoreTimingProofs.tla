---------------------------- MODULE CoreTimingProofs ---------------------------
(******************************************************************************)
(* The timers, for every number of cores, slice length and overshoot, any     *)
(* number of events, of loaded states and any mixture of threads that         *)
(* schedule them: no event lies within the slice that a timer counts down, a  *)
(* core's own events fire late by no more than the core can overshoot, the    *)
(* cores stay within a bound of each other, and what another core or a host   *)
(* thread schedules fires late by no more than that bound.                    *)
(*                                                                            *)
(* None of these is inductive. Which timers are sane follows from the place   *)
(* in the loop (SaneOK): a core runs only with a timer that counts, or an     *)
(* event it makes would not shorten its slice. What other cores and threads   *)
(* schedule waits in ts_queue (QueueOK), so that between two advances only    *)
(* the core itself adds to its queue, and its events stay behind the end of   *)
(* the slice (CoreEvents).                                                    *)
(*                                                                            *)
(* How far the cores are apart (Apace) is told by the phase of the loop: at   *)
(* the top they are within the bound; while lagging cores catch up, each of   *)
(* them has its delay to go to the one furthest ahead; when all run, none     *)
(* runs further than those before it and the overshoots of those between. The *)
(* loop takes a timer that counts as sane in the middle of a slice, because a *)
(* state was loaded, for where its slice began (Tainted); what it misjudges   *)
(* in this way it catches up once more, so that the bound doubles with every  *)
(* load.                                                                      *)
(*                                                                            *)
(* An event in ts_queue is not before the start of the slice of its core      *)
(* (Awaited). It is moved the next time that core advances (Arrived), late by *)
(* that slice at most.                                                        *)
(******************************************************************************)
EXTENDS CoreTiming, SequenceLemmas, FiniteSetTheorems, TLAPS

USE TimingAssumption

--------------------------------------------------------------------------------
(* The inductive invariant. *)

TicksType ==
  /\ executed_ticks \in [Core -> Int] /\ slice_length \in [Core -> Int]
  /\ downcount \in [Core -> Int] /\ is_timer_sane \in [Core -> BOOLEAN]
  /\ \A c \in Core : downcount[c] >= -Overshoot /\ downcount[c] <= slice_length[c]

QueueType ==
  /\ event_queue \in [Core -> SUBSET Event] /\ event_fifo_id \in [Core -> Nat]
  /\ ts_queue \in [Core -> Seq(Event)]

LoopType ==
  /\ phase \in {"top", "lagging", "all", "run_one", "run_all"}
  /\ step \in {"none", "advance", "fire", "callback"}
  /\ core \in 1..NumCores + 1 /\ delay \in [Core -> Nat] /\ max_slice \in Nat
  /\ made \in 0..MaxEvents /\ loads \in 0..MaxLoads

Firing == step \in {"fire", "callback"}

\* The timer of the core that is advanced stands still.
LoopOK ==
  /\ phase \in {"lagging", "all"} <=> step # "none"
  /\ Firing => core \in Core /\ slice_length[core] = 0 /\ downcount[core] = 0 /\ is_timer_sane[core]
  /\ step = "none" => core \in Core

\* The timers that have been advanced in this turn of the loop count.
SaneOK ==
  /\ phase = "lagging" => \A c \in Core : c < core /\ delay[c] > 0 => ~is_timer_sane[c]
  /\ phase = "all" => \A c \in Core : c < core => ~is_timer_sane[c]
  /\ phase = "run_one" => ~is_timer_sane[core]
  /\ phase = "run_all" => \A c \in Core : ~is_timer_sane[c]

SliceOK == \A c \in Core : slice_length[c] >= 0

QueueOK == \A c \in Core : \A i \in 1..Len(ts_queue[c]) : ts_queue[c][i].origin # "core"

\* The events that cores made for themselves.
CoreEvents == \A c \in Core : \A e \in event_queue[c] : e.origin = "core" =>
  IF core = c /\ Firing THEN e.time >= executed_ticks[c] - Overshoot
                        ELSE e.time >= executed_ticks[c] + slice_length[c]

Inv == /\ TicksType /\ QueueType /\ LoopType /\ LoopOK /\ SaneOK /\ SliceOK /\ QueueOK
       /\ CoreEvents /\ NoEventInSlice

LEMMA Constants ==
  /\ NumCores \in Nat /\ NumCores # 0 /\ MAX_SLICE_LENGTH \in Nat /\ Overshoot \in Nat
  /\ min_delay \in Nat /\ MaxEvents \in Nat /\ MaxLoads \in Nat
  /\ 1 \in Core /\ \A c \in Core : c \in Nat
BY DEF Core

LEMMA TypeParts == TypeOK <=> TicksType /\ QueueType /\ LoopType
BY DEF TypeOK, TicksType, QueueType, LoopType

LEMMA StartInv == Init => Inv
<1> SUFFICES ASSUME Init PROVE Inv OBVIOUS
<1>1. TicksType BY Constants DEF Init, TicksType
<1>2. QueueType BY DEF Init, QueueType
<1>3. LoopType BY Constants DEF Init, LoopType, NoDelay, Core
<1>4. LoopOK /\ SaneOK BY Constants DEF Init, LoopOK, SaneOK, Firing
<1>5. SliceOK /\ QueueOK /\ CoreEvents /\ NoEventInSlice
  BY Constants DEF Init, SliceOK, QueueOK, CoreEvents, NoEventInSlice
<1>. QED BY <1>1, <1>2, <1>3, <1>4, <1>5 DEF Inv

--------------------------------------------------------------------------------
(* Events and slices. *)

LEMMA Stamped ==
  ASSUME NEW e \in Event, NEW n \in Nat
  PROVE  /\ [e EXCEPT !.fifo_order = n] \in Event
         /\ [e EXCEPT !.fifo_order = n].time = e.time
         /\ [e EXCEPT !.fifo_order = n].origin = e.origin
BY DEF Event

LEMMA NewEventIs ==
  ASSUME NEW t \in Int, NEW o \in Origin
  PROVE  NewEvent(t, o) \in Event /\ NewEvent(t, o).time = t /\ NewEvent(t, o).origin = o
BY DEF NewEvent, Event

LEMMA MovedAre ==
  ASSUME Inv, NEW c \in Core, NEW f \in Moved(c)
  PROVE  f \in Event /\ f.origin # "core"
<1>1. PICK i \in DOMAIN ts_queue[c] :
        f = [ts_queue[c][i] EXCEPT !.fifo_order = event_fifo_id[c] + i]
  BY DEF Moved
<1>2. ts_queue[c] \in Seq(Event) /\ event_fifo_id[c] \in Nat BY DEF Inv, QueueType
<1>3. i \in 1..Len(ts_queue[c]) /\ ts_queue[c][i] \in Event BY <1>1, <1>2
<1>4. event_fifo_id[c] + i \in Nat BY <1>2, <1>3
<1>5. ts_queue[c][i].origin # "core" BY <1>3 DEF Inv, QueueOK
<1>. QED BY <1>1, <1>3, <1>4, <1>5, Stamped

LEMMA TimesAre ==
  ASSUME Inv, NEW c \in Core
  PROVE  /\ executed_ticks[c] \in Int /\ slice_length[c] \in Nat /\ downcount[c] \in Int
         /\ is_timer_sane[c] \in BOOLEAN /\ downcount[c] >= -Overshoot
         /\ downcount[c] <= slice_length[c] /\ Elapsed(c) \in Nat
         /\ Elapsed(c) <= slice_length[c] + Overshoot /\ GetTicks(c) \in Int
         /\ \A e \in event_queue[c] : e \in Event /\ e.time \in Int
<1>1. /\ executed_ticks[c] \in Int /\ slice_length[c] \in Int /\ downcount[c] \in Int
      /\ is_timer_sane[c] \in BOOLEAN /\ downcount[c] >= -Overshoot
      /\ downcount[c] <= slice_length[c] /\ slice_length[c] >= 0
  BY DEF Inv, TicksType, SliceOK
<1>2. Elapsed(c) \in Nat /\ Elapsed(c) <= slice_length[c] + Overshoot
  BY <1>1, Constants DEF Elapsed
<1>3. GetTicks(c) \in Int BY <1>1 DEF GetTicks
<1>4. event_queue[c] \subseteq Event BY DEF Inv, QueueType
<1>. QED BY <1>1, <1>2, <1>3, <1>4 DEF Event

\* The end of a slice.
LEMMA ShortestIs ==
  ASSUME Inv, NEW c \in Core, NEW m \in Nat, NEW s \in Shortest(c, m),
         \A e \in event_queue[c] : e.time >= executed_ticks[c]
  PROVE  /\ s \in Nat /\ s <= m
         /\ \A e \in event_queue[c] : e.time >= executed_ticks[c] + s
<1>1. s \in Ends(c, m) /\ \A x \in Ends(c, m) : s <= x BY DEF Shortest
<1>2. executed_ticks[c] \in Int /\ \A e \in event_queue[c] : e.time \in Int BY TimesAre
<1>3. \A e \in event_queue[c] : e.time - executed_ticks[c] \in Nat BY <1>2
<1>4. s \in Nat BY <1>1, <1>3 DEF Ends
<1>5. s <= m BY <1>1 DEF Ends
<1>6. \A e \in event_queue[c] : s <= e.time - executed_ticks[c] BY <1>1 DEF Ends
<1>7. \A e \in event_queue[c] : e.time >= executed_ticks[c] + s BY <1>2, <1>4, <1>6
<1>. QED BY <1>4, <1>5, <1>7

\* The events of a timer that counts are not overdue.
LEMMA NotOverdue ==
  ASSUME Inv, NEW c \in Core, ~is_timer_sane[c], NEW e \in event_queue[c]
  PROVE  e.time >= executed_ticks[c]
<1>1. e.time >= executed_ticks[c] + slice_length[c] BY DEF Inv, NoEventInSlice
<1>2. e.time \in Int /\ executed_ticks[c] \in Int /\ slice_length[c] \in Nat BY TimesAre
<1>. QED BY <1>1, <1>2

--------------------------------------------------------------------------------
(* Frames. *)

LEMMA TicksFrame ==
  ASSUME Inv, UNCHANGED ticks_vars
  PROVE  /\ TicksType' /\ SliceOK' /\ executed_ticks' = executed_ticks
         /\ slice_length' = slice_length /\ downcount' = downcount
         /\ is_timer_sane' = is_timer_sane
BY DEF Inv, TicksType, SliceOK, ticks_vars

LEMMA QueueFrame ==
  ASSUME Inv, UNCHANGED queue_vars
  PROVE  /\ QueueType' /\ QueueOK' /\ event_queue' = event_queue
BY DEF Inv, QueueType, QueueOK, queue_vars

LEMMA LoopFrame ==
  ASSUME Inv, UNCHANGED loop_vars, made' \in 0..MaxEvents, loads' \in 0..MaxLoads
  PROVE  /\ LoopType' /\ phase' = phase /\ step' = step /\ core' = core /\ delay' = delay
         /\ max_slice' = max_slice /\ (Firing' <=> Firing)
BY DEF Inv, LoopType, loop_vars, Firing

\* Steps of the loop that leave the timers alone.
LEMMA LoopOnly ==
  ASSUME Inv, UNCHANGED ticks_vars, UNCHANGED queue_vars, LoopType', LoopOK', SaneOK',
         ~Firing' /\ ~Firing
  PROVE  Inv'
<1>1. CoreEvents' BY TicksFrame, QueueFrame DEF Inv, CoreEvents
<1>2. NoEventInSlice' BY TicksFrame, QueueFrame DEF Inv, NoEventInSlice
<1>. QED BY <1>1, <1>2, TicksFrame, QueueFrame DEF Inv

--------------------------------------------------------------------------------
(* The loop. *)

LEMMA LoopTopInv == ASSUME Inv, LoopTop PROVE Inv'
<1>1. /\ phase = "top" /\ phase' = "lagging" /\ step' = "advance" /\ core' = 1
      /\ UNCHANGED ticks_vars /\ UNCHANGED queue_vars
      /\ max_slice' = max_slice /\ made' = made /\ loads' = loads
  BY DEF LoopTop
<1>2. ~Firing /\ ~Firing' BY <1>1 DEF Inv, LoopOK, Firing
<1>3. delay' \in [Core -> Nat]
  <2>1. PICK g \in Core : /\ \A c \in Core : GetTicks(c) <= GetTicks(g)
                          /\ delay' = [c \in Core |-> GetTicks(g) - GetTicks(c)]
    BY DEF LoopTop
  <2>2. \A c \in Core : GetTicks(c) \in Int BY TimesAre
  <2>3. \A c \in Core : GetTicks(g) - GetTicks(c) \in Nat BY <2>1, <2>2
  <2>. QED BY <2>1, <2>3
<1>4. LoopType' BY <1>1, <1>3, Constants DEF Inv, LoopType
<1>5. LoopOK' BY <1>1, <1>2 DEF LoopOK
<1>6. SaneOK' BY <1>1, Constants DEF SaneOK, Core
<1>. QED BY <1>1, <1>2, <1>4, <1>5, <1>6, LoopOnly

LEMMA NotLaggingInv == ASSUME Inv, NotLagging PROVE Inv'
<1>1. /\ phase = "lagging" /\ step = "advance" /\ core \in Core /\ delay[core] = 0
      /\ core' = core + 1 /\ phase' = phase /\ step' = step /\ delay' = delay
      /\ UNCHANGED ticks_vars /\ UNCHANGED queue_vars
      /\ max_slice' = max_slice /\ made' = made /\ loads' = loads
  BY DEF NotLagging
<1>2. ~Firing /\ ~Firing' BY <1>1 DEF Firing
<1>3. core' \in 1..NumCores + 1 BY <1>1, Constants DEF Core
<1>4. LoopType' BY <1>1, <1>3 DEF Inv, LoopType
<1>5. LoopOK' BY <1>1, <1>2 DEF LoopOK
<1>6. SaneOK'
  <2>1. ASSUME NEW c \in Core, c < core + 1, delay[c] > 0 PROVE ~is_timer_sane[c]
    <3>1. c # core BY <2>1, <1>1
    <3>2. c < core BY <3>1, <2>1, <1>1, Constants
    <3>. QED BY <3>2, <2>1, <1>1 DEF Inv, SaneOK
  <2>. QED BY <2>1, <1>1, TicksFrame DEF SaneOK
<1>. QED BY <1>1, <1>2, <1>4, <1>5, <1>6, LoopOnly

LEMMA CatchUpInv == ASSUME Inv, CatchUp PROVE Inv'
<1>1. /\ phase = "lagging" /\ step = "advance" /\ core = NumCores + 1
      /\ phase' = "run_one" /\ step' = "none" /\ delay' = NoDelay
      /\ UNCHANGED ticks_vars /\ UNCHANGED queue_vars
      /\ max_slice' = max_slice /\ made' = made /\ loads' = loads
  BY DEF CatchUp
<1>2. ~Firing /\ ~Firing' BY <1>1 DEF Firing
<1>3. core' \in Core /\ delay[core'] > min_delay BY DEF CatchUp, LaggingCore
<1>4. core' \in 1..NumCores + 1 /\ core' < core BY <1>1, <1>3, Constants DEF Core
<1>5. delay' \in [Core -> Nat] BY <1>1 DEF NoDelay
<1>6. LoopType' BY <1>1, <1>4, <1>5 DEF Inv, LoopType
<1>7. LoopOK' BY <1>1, <1>2, <1>3 DEF LoopOK
<1>8. SaneOK'
  <2>1. delay[core'] > 0
    <3>1. delay[core'] \in Nat BY <1>3 DEF Inv, LoopType
    <3>. QED BY <3>1, <1>3, Constants
  <2>2. ~is_timer_sane[core'] BY <1>1, <1>3, <1>4, <2>1 DEF Inv, SaneOK
  <2>. QED BY <2>2, <1>1, TicksFrame DEF SaneOK
<1>. QED BY <1>1, <1>2, <1>6, <1>7, <1>8, LoopOnly

LEMMA AdvanceAllInv == ASSUME Inv, AdvanceAll PROVE Inv'
<1>1. /\ phase = "lagging" /\ step = "advance" /\ step' = step
      /\ phase' = "all" /\ core' = 1 /\ delay' = NoDelay
      /\ UNCHANGED ticks_vars /\ UNCHANGED queue_vars
      /\ max_slice' = max_slice /\ made' = made /\ loads' = loads
  BY DEF AdvanceAll
<1>2. ~Firing /\ ~Firing' BY <1>1 DEF Firing
<1>5. delay' \in [Core -> Nat] BY <1>1 DEF NoDelay
<1>6. LoopType' BY <1>1, <1>5, Constants DEF Inv, LoopType
<1>7. LoopOK' BY <1>1, <1>2 DEF LoopOK
<1>8. SaneOK' BY <1>1, Constants DEF SaneOK, Core
<1>. QED BY <1>1, <1>2, <1>6, <1>7, <1>8, LoopOnly

LEMMA LoopEndsInv == ASSUME Inv, LoopEnds PROVE Inv'
<1>1. /\ phase \in {"run_one", "run_all"} /\ step' = step
      /\ phase' = "top" /\ core' = 1 /\ delay' = delay
      /\ UNCHANGED ticks_vars /\ UNCHANGED queue_vars
      /\ max_slice' = MAX_SLICE_LENGTH /\ made' = made /\ loads' = loads
  BY DEF LoopEnds
<1>2. step = "none" /\ ~Firing /\ ~Firing' BY <1>1 DEF Inv, LoopOK, Firing
<1>3. LoopType' BY <1>1, Constants DEF Inv, LoopType
<1>4. LoopOK' BY <1>1, <1>2, Constants DEF LoopOK
<1>5. SaneOK' BY <1>1 DEF SaneOK
<1>. QED BY <1>1, <1>2, <1>3, <1>4, <1>5, LoopOnly

LEMMA CallbackReturnsInv == ASSUME Inv, CallbackReturns PROVE Inv'
<1>1. /\ step = "callback" /\ step' = "fire" /\ phase' = phase /\ core' = core
      /\ delay' = delay /\ UNCHANGED ticks_vars /\ UNCHANGED queue_vars
      /\ max_slice' = max_slice /\ made' = made /\ loads' = loads
  BY DEF CallbackReturns
<1>2. Firing /\ Firing' BY <1>1 DEF Firing
<1>3. LoopType' BY <1>1 DEF Inv, LoopType
<1>4. LoopOK' BY <1>1, <1>2, TicksFrame DEF Inv, LoopOK
<1>5. SaneOK' BY <1>1, TicksFrame DEF Inv, SaneOK
<1>6. CoreEvents' BY <1>1, <1>2, TicksFrame, QueueFrame DEF Inv, CoreEvents
<1>7. NoEventInSlice' BY <1>1, TicksFrame, QueueFrame DEF Inv, NoEventInSlice
<1>. QED BY <1>1, <1>3, <1>4, <1>5, <1>6, <1>7, TicksFrame, QueueFrame DEF Inv

\* A new slice for a core that is not overdue.
LEMMA SliceSet ==
  ASSUME Inv, NEW c \in Core, NEW m \in Nat, SetNextSlice(c, m),
         \A e \in event_queue[c] : e.time >= executed_ticks[c],
         executed_ticks' = executed_ticks, is_timer_sane' \in [Core -> BOOLEAN],
         event_queue' = event_queue,
         ~(core' = c /\ Firing'),
         \A d \in Core \ {c} : /\ is_timer_sane'[d] = is_timer_sane[d]
                               /\ ~(core = d /\ Firing) /\ ~(core' = d /\ Firing')
  PROVE  TicksType' /\ SliceOK' /\ CoreEvents' /\ NoEventInSlice'
<1>1. PICK s \in Shortest(c, m) : /\ slice_length' = [slice_length EXCEPT ![c] = s]
                                  /\ downcount' = [downcount EXCEPT ![c] = s]
  BY DEF SetNextSlice
<1>2. s \in Nat /\ \A e \in event_queue[c] : e.time >= executed_ticks[c] + s
  BY ShortestIs
<1>3. /\ executed_ticks \in [Core -> Int] /\ slice_length \in [Core -> Int]
      /\ downcount \in [Core -> Int]
      /\ \A d \in Core : downcount[d] >= -Overshoot /\ downcount[d] <= slice_length[d]
      /\ \A d \in Core : slice_length[d] >= 0
  BY DEF Inv, TicksType, SliceOK
<1>4. /\ slice_length'[c] = s /\ downcount'[c] = s
      /\ \A d \in Core \ {c} : slice_length'[d] = slice_length[d] /\ downcount'[d] = downcount[d]
      /\ slice_length' \in [Core -> Int] /\ downcount' \in [Core -> Int]
  BY <1>1, <1>2, <1>3
<1>5. ASSUME NEW d \in Core
      PROVE  /\ downcount'[d] >= -Overshoot /\ downcount'[d] <= slice_length'[d]
             /\ slice_length'[d] >= 0
  <2>1. CASE d = c BY <2>1, <1>2, <1>4, Constants
  <2>2. CASE d # c BY <2>2, <1>3, <1>4
  <2>. QED BY <2>1, <2>2
<1>6. TicksType' /\ SliceOK' BY <1>3, <1>4, <1>5 DEF TicksType, SliceOK
<1>7. CoreEvents'
  <2> SUFFICES ASSUME NEW d \in Core, NEW e \in event_queue[d], e.origin = "core"
               PROVE  /\ ~(core' = d /\ Firing')
                      /\ e.time >= executed_ticks[d] + slice_length'[d]
    BY DEF CoreEvents
  <2>1. CASE d = c BY <2>1, <1>2, <1>4
  <2>2. CASE d # c
    <3>1. ~(core = d /\ Firing) BY <2>2
    <3>2. e.time >= executed_ticks[d] + slice_length[d] BY <3>1 DEF Inv, CoreEvents
    <3>. QED BY <2>2, <3>2, <1>4
  <2>. QED BY <2>1, <2>2
<1>8. NoEventInSlice'
  <2> SUFFICES ASSUME NEW d \in Core, ~is_timer_sane'[d], NEW e \in event_queue[d]
               PROVE  e.time >= executed_ticks[d] + slice_length'[d]
    BY DEF NoEventInSlice
  <2>1. CASE d = c BY <2>1, <1>2, <1>4
  <2>2. CASE d # c
    <3>1. ~is_timer_sane[d] BY <2>2
    <3>2. e.time >= executed_ticks[d] + slice_length[d] BY <3>1 DEF Inv, NoEventInSlice
    <3>. QED BY <2>2, <3>2, <1>4
  <2>. QED BY <2>1, <2>2
<1>. QED BY <1>6, <1>7, <1>8

\* No event is due any more.
LEMMA FiredIs ==
  ASSUME Inv, Fired
  PROVE  /\ core \in Core /\ Firing /\ slice_length[core] = 0 /\ is_timer_sane[core]
         /\ \A e \in event_queue[core] : e.time > executed_ticks[core]
         /\ \A e \in event_queue[core] : e.time >= executed_ticks[core]
<1>1. Firing BY DEF Fired, Firing
<1>2. core \in Core /\ slice_length[core] = 0 /\ is_timer_sane[core]
  BY <1>1 DEF Inv, LoopOK
<1>3. executed_ticks[core] \in Int /\ \A e \in event_queue[core] : e.time \in Int
  BY <1>2, TimesAre
<1>. QED BY <1>1, <1>2, <1>3 DEF Fired, Due

LEMMA LaggingAdvancedInv == ASSUME Inv, LaggingAdvanced PROVE Inv'
<1>1. /\ phase = "lagging" /\ Fired /\ SetNextSlice(core, delay[core])
      /\ is_timer_sane' = [is_timer_sane EXCEPT ![core] = FALSE]
      /\ step' = "advance" /\ core' = core + 1 /\ executed_ticks' = executed_ticks
      /\ UNCHANGED queue_vars /\ phase' = phase /\ delay' = delay /\ max_slice' = max_slice
      /\ made' = made /\ loads' = loads
  BY DEF LaggingAdvanced
<1>2. core \in Core /\ Firing /\ \A e \in event_queue[core] : e.time >= executed_ticks[core]
  BY <1>1, FiredIs
<1>3. ~Firing' BY <1>1 DEF Firing
<1>4. is_timer_sane \in [Core -> BOOLEAN] /\ delay[core] \in Nat
  BY <1>2 DEF Inv, TicksType, LoopType
<1>5. /\ is_timer_sane' \in [Core -> BOOLEAN] /\ ~is_timer_sane'[core]
      /\ \A d \in Core \ {core} : is_timer_sane'[d] = is_timer_sane[d]
  BY <1>1, <1>2, <1>4
<1>6. TicksType' /\ SliceOK' /\ CoreEvents' /\ NoEventInSlice'
  BY <1>1, <1>2, <1>3, <1>4, <1>5, QueueFrame, SliceSet
<1>7. core' \in 1..NumCores + 1 BY <1>1, <1>2, Constants DEF Core
<1>8. LoopType' BY <1>1, <1>7 DEF Inv, LoopType
<1>9. LoopOK' BY <1>1, <1>3 DEF LoopOK
<1>10. SaneOK'
  <2>1. ASSUME NEW c \in Core, c < core + 1, delay[c] > 0 PROVE ~is_timer_sane'[c]
    <3>1. CASE c = core BY <3>1, <1>5
    <3>2. CASE c # core
      <4>1. c < core BY <3>2, <2>1, <1>2, Constants
      <4>2. ~is_timer_sane[c] BY <4>1, <2>1, <1>1 DEF Inv, SaneOK
      <4>. QED BY <4>2, <3>2, <1>5
    <3>. QED BY <3>1, <3>2
  <2>. QED BY <2>1, <1>1 DEF SaneOK
<1>. QED BY <1>1, <1>6, <1>8, <1>9, <1>10, QueueFrame DEF Inv

LEMMA CoreAdvancedInv == ASSUME Inv, CoreAdvanced PROVE Inv'
<1>1. /\ phase = "all" /\ Fired /\ max_slice' \in Shortest(core, max_slice)
      /\ is_timer_sane' = [is_timer_sane EXCEPT ![core] = FALSE]
      /\ step' = "advance" /\ core' = core + 1 /\ executed_ticks' = executed_ticks
      /\ slice_length' = slice_length /\ downcount' = downcount
      /\ UNCHANGED queue_vars /\ phase' = phase /\ delay' = delay
      /\ made' = made /\ loads' = loads
  BY DEF CoreAdvanced
<1>2. /\ core \in Core /\ Firing /\ slice_length[core] = 0
      /\ \A e \in event_queue[core] : e.time >= executed_ticks[core]
  BY <1>1, FiredIs
<1>3. ~Firing' BY <1>1 DEF Firing
<1>4. is_timer_sane \in [Core -> BOOLEAN] /\ max_slice \in Nat
  BY DEF Inv, TicksType, LoopType
<1>5. /\ is_timer_sane' \in [Core -> BOOLEAN] /\ ~is_timer_sane'[core]
      /\ \A d \in Core \ {core} : is_timer_sane'[d] = is_timer_sane[d]
  BY <1>1, <1>2, <1>4
<1>6. TicksType' /\ SliceOK' BY <1>1, <1>5 DEF Inv, TicksType, SliceOK
<1>7. ASSUME NEW d \in Core, NEW e \in event_queue[d],
             d = core \/ ~is_timer_sane[d] \/ e.origin = "core"
      PROVE  e.time >= executed_ticks[d] + slice_length[d]
  <2>1. CASE d = core
    <3>1. executed_ticks[core] \in Int /\ e.time >= executed_ticks[core] BY <2>1, <1>2, TimesAre
    <3>. QED BY <2>1, <3>1, <1>2
  <2>2. CASE d # core BY <2>2, <1>7 DEF Inv, CoreEvents, NoEventInSlice
  <2>. QED BY <2>1, <2>2
<1>8. CoreEvents' BY <1>1, <1>3, <1>7, QueueFrame DEF CoreEvents
<1>9. NoEventInSlice'
  <2>1. ASSUME NEW d \in Core, ~is_timer_sane'[d] PROVE d = core \/ ~is_timer_sane[d]
    BY <2>1, <1>5
  <2>. QED BY <2>1, <1>1, <1>7, QueueFrame DEF NoEventInSlice
<1>10. max_slice' \in Nat BY <1>1, <1>2, <1>4, ShortestIs
<1>11. core' \in 1..NumCores + 1 BY <1>1, <1>2, Constants DEF Core
<1>12. LoopType' BY <1>1, <1>10, <1>11 DEF Inv, LoopType
<1>13. LoopOK' BY <1>1, <1>3 DEF LoopOK
<1>14. SaneOK'
  <2>1. ASSUME NEW c \in Core, c < core + 1 PROVE ~is_timer_sane'[c]
    <3>1. CASE c = core BY <3>1, <1>5
    <3>2. CASE c # core
      <4>1. c < core BY <3>2, <2>1, <1>2, Constants
      <4>2. ~is_timer_sane[c] BY <4>1, <2>1, <1>1 DEF Inv, SaneOK
      <4>. QED BY <4>2, <3>2, <1>5
    <3>. QED BY <3>1, <3>2
  <2>. QED BY <2>1, <1>1 DEF SaneOK
<1>. QED BY <1>1, <1>6, <1>8, <1>9, <1>12, <1>13, <1>14, QueueFrame DEF Inv

LEMMA RunFirstInv == ASSUME Inv, RunFirst PROVE Inv'
<1>1. /\ phase = "all" /\ step = "advance" /\ core = NumCores + 1
      /\ SetNextSlice(1, max_slice) /\ phase' = "run_all" /\ step' = "none" /\ core' = 1
      /\ executed_ticks' = executed_ticks /\ is_timer_sane' = is_timer_sane
      /\ UNCHANGED queue_vars /\ delay' = delay /\ max_slice' = max_slice
      /\ made' = made /\ loads' = loads
  BY DEF RunFirst
<1>2. ~Firing /\ ~Firing' BY <1>1 DEF Firing
<1>3. \A c \in Core : c < core BY <1>1, Constants DEF Core
<1>4. \A c \in Core : ~is_timer_sane[c] BY <1>1, <1>3 DEF Inv, SaneOK
<1>5. \A e \in event_queue[1] : e.time >= executed_ticks[1] BY <1>4, Constants, NotOverdue
<1>6. max_slice \in Nat /\ is_timer_sane' \in [Core -> BOOLEAN]
  BY <1>1 DEF Inv, LoopType, TicksType
<1>7. TicksType' /\ SliceOK' /\ CoreEvents' /\ NoEventInSlice'
  BY <1>1, <1>2, <1>5, <1>6, Constants, QueueFrame, SliceSet
<1>8. LoopType' BY <1>1, Constants DEF Inv, LoopType
<1>9. LoopOK' BY <1>1, <1>2, Constants DEF LoopOK
<1>10. SaneOK' BY <1>1, <1>4 DEF SaneOK
<1>. QED BY <1>1, <1>7, <1>8, <1>9, <1>10, QueueFrame DEF Inv

LEMMA RunNextInv == ASSUME Inv, RunNext PROVE Inv'
<1>1. /\ phase = "run_all" /\ core < NumCores /\ max_slice' = Elapsed(core)
      /\ SetNextSlice(core + 1, Elapsed(core)) /\ core' = core + 1
      /\ executed_ticks' = executed_ticks /\ is_timer_sane' = is_timer_sane
      /\ UNCHANGED queue_vars /\ phase' = phase /\ step' = step /\ delay' = delay
      /\ made' = made /\ loads' = loads
  BY DEF RunNext
<1>2. step = "none" /\ ~Firing /\ ~Firing' /\ core \in Core BY <1>1 DEF Inv, LoopOK, Firing
<1>3. core + 1 \in Core /\ core' \in 1..NumCores + 1 BY <1>1, <1>2, Constants DEF Core
<1>4. \A c \in Core : ~is_timer_sane[c] BY <1>1 DEF Inv, SaneOK
<1>5. \A e \in event_queue[core + 1] : e.time >= executed_ticks[core + 1]
  BY <1>3, <1>4, NotOverdue
<1>6. Elapsed(core) \in Nat /\ is_timer_sane' \in [Core -> BOOLEAN]
  BY <1>1, <1>2, TimesAre DEF Inv, TicksType
<1>7. TicksType' /\ SliceOK' /\ CoreEvents' /\ NoEventInSlice'
  BY <1>1, <1>2, <1>3, <1>5, <1>6, QueueFrame, SliceSet
<1>8. LoopType' BY <1>1, <1>3, <1>6 DEF Inv, LoopType
<1>9. LoopOK' BY <1>1, <1>2, <1>3 DEF LoopOK
<1>10. SaneOK' BY <1>1, <1>4 DEF SaneOK
<1>. QED BY <1>1, <1>7, <1>8, <1>9, <1>10, QueueFrame DEF Inv

--------------------------------------------------------------------------------
(* Advancing. *)

LEMMA AdvanceInv == ASSUME Inv, Advance PROVE Inv'
<1> DEFINE c == core
<1>1. /\ step = "advance" /\ c \in Core /\ step' = "fire" /\ phase' = phase /\ core' = core
      /\ event_queue' = [event_queue EXCEPT ![c] = @ \cup Moved(c)]
      /\ event_fifo_id' = [event_fifo_id EXCEPT ![c] = @ + Len(ts_queue[c])]
      /\ ts_queue' = [ts_queue EXCEPT ![c] = << >>]
      /\ executed_ticks' = [executed_ticks EXCEPT ![c] = @ + Elapsed(c)]
      /\ slice_length' = [slice_length EXCEPT ![c] = 0]
      /\ downcount' = [downcount EXCEPT ![c] = 0]
      /\ is_timer_sane' = [is_timer_sane EXCEPT ![c] = TRUE]
      /\ delay' = delay /\ max_slice' = max_slice /\ made' = made /\ loads' = loads
  BY DEF Advance
<1>2. ~Firing /\ Firing' BY <1>1 DEF Firing
<1>3. /\ executed_ticks[c] \in Int /\ slice_length[c] \in Nat /\ Elapsed(c) \in Nat
      /\ Elapsed(c) <= slice_length[c] + Overshoot
  BY <1>1, TimesAre
<1>4. /\ executed_ticks \in [Core -> Int] /\ slice_length \in [Core -> Int]
      /\ downcount \in [Core -> Int] /\ is_timer_sane \in [Core -> BOOLEAN]
      /\ \A d \in Core : downcount[d] >= -Overshoot /\ downcount[d] <= slice_length[d]
      /\ \A d \in Core : slice_length[d] >= 0
  BY DEF Inv, TicksType, SliceOK
<1>5. /\ event_queue \in [Core -> SUBSET Event] /\ event_fifo_id \in [Core -> Nat]
      /\ ts_queue \in [Core -> Seq(Event)]
  BY DEF Inv, QueueType
<1> HIDE DEF c
<1>6. /\ executed_ticks'[c] = executed_ticks[c] + Elapsed(c) /\ slice_length'[c] = 0
      /\ downcount'[c] = 0 /\ is_timer_sane'[c] = TRUE
      /\ event_queue'[c] = event_queue[c] \cup Moved(c) /\ ts_queue'[c] = << >>
  BY <1>1, <1>4, <1>5
<1>7. ASSUME NEW d \in Core \ {c}
      PROVE  /\ executed_ticks'[d] = executed_ticks[d] /\ slice_length'[d] = slice_length[d]
             /\ downcount'[d] = downcount[d] /\ is_timer_sane'[d] = is_timer_sane[d]
             /\ event_queue'[d] = event_queue[d] /\ ts_queue'[d] = ts_queue[d]
  BY <1>1, <1>4, <1>5
<1>8. TicksType' /\ SliceOK'
  <2>1. executed_ticks' \in [Core -> Int] BY <1>1, <1>3, <1>4
  <2>2. slice_length' \in [Core -> Int] /\ downcount' \in [Core -> Int] BY <1>1, <1>4
  <2>3. is_timer_sane' \in [Core -> BOOLEAN] BY <1>1, <1>4
  <2>4. ASSUME NEW d \in Core
        PROVE  /\ downcount'[d] >= -Overshoot /\ downcount'[d] <= slice_length'[d]
               /\ slice_length'[d] >= 0
    <3>1. CASE d = c BY <3>1, <1>6, Constants
    <3>2. CASE d # c BY <3>2, <1>4, <1>7
    <3>. QED BY <3>1, <3>2
  <2>. QED BY <2>1, <2>2, <2>3, <2>4 DEF TicksType, SliceOK
<1>9. QueueType'
  <2>1. Moved(c) \subseteq Event BY <1>1, MovedAre
  <2>2. Len(ts_queue[c]) \in Nat BY <1>1, <1>5
  <2>3. event_queue' \in [Core -> SUBSET Event] BY <1>1, <1>5, <2>1
  <2>4. event_fifo_id' \in [Core -> Nat] BY <1>1, <1>5, <2>2
  <2>5. ts_queue' \in [Core -> Seq(Event)] BY <1>1, <1>5
  <2>. QED BY <2>3, <2>4, <2>5 DEF QueueType
<1>10. QueueOK'
  <2> SUFFICES ASSUME NEW d \in Core, NEW i \in 1..Len(ts_queue'[d])
               PROVE  ts_queue'[d][i].origin # "core"
    BY DEF QueueOK
  <2>1. CASE d = c BY <2>1, <1>6
  <2>2. CASE d # c BY <2>2, <1>7 DEF Inv, QueueOK
  <2>. QED BY <2>1, <2>2
<1>11. CoreEvents'
  <2>1. ASSUME NEW e \in event_queue'[c], e.origin = "core"
        PROVE  e.time >= executed_ticks'[c] - Overshoot
    <3>1. e \in event_queue[c] BY <2>1, <1>1, <1>6, MovedAre
    <3>2. e.time >= executed_ticks[c] + slice_length[c] /\ e.time \in Int
      BY <3>1, <2>1, <1>1, <1>2, TimesAre DEF Inv, CoreEvents
    <3>. QED BY <3>2, <1>3, <1>6, Constants
  <2>2. ASSUME NEW d \in Core, d # c, NEW e \in event_queue'[d], e.origin = "core"
        PROVE  e.time >= executed_ticks'[d] + slice_length'[d]
    BY <2>2, <1>2, <1>7 DEF Inv, CoreEvents
  <2>. QED BY <2>1, <2>2, <1>1, <1>2 DEF CoreEvents, c
<1>12. NoEventInSlice'
  <2> SUFFICES ASSUME NEW d \in Core, ~is_timer_sane'[d], NEW e \in event_queue'[d]
               PROVE  e.time >= executed_ticks'[d] + slice_length'[d]
    BY DEF NoEventInSlice
  <2>1. d # c BY <1>6
  <2>. QED BY <2>1, <1>7 DEF Inv, NoEventInSlice
<1>13. LoopType' BY <1>1 DEF Inv, LoopType
<1>14. LoopOK' BY <1>1, <1>2, <1>6 DEF Inv, LoopOK, c
<1>15. SaneOK'
  <2>1. phase \in {"lagging", "all"} BY <1>1 DEF Inv, LoopOK
  <2>2. \A d \in Core : d < c => d # c BY <1>1, Constants
  <2>3. \A d \in Core : d < c => is_timer_sane'[d] = is_timer_sane[d] BY <2>2, <1>7
  <2>. QED BY <2>1, <2>3, <1>1 DEF Inv, SaneOK, c
<1>. QED BY <1>8, <1>9, <1>10, <1>11, <1>12, <1>13, <1>14, <1>15 DEF Inv

\* Fewer events, and nothing else but a step of the same core.
LEMMA Removed ==
  ASSUME Inv, NEW c \in Core, NEW e \in event_queue[c],
         event_queue' = [event_queue EXCEPT ![c] = @ \ {e}],
         UNCHANGED ticks_vars, event_fifo_id' = event_fifo_id, ts_queue' = ts_queue,
         core' = core, Firing' <=> Firing
  PROVE  TicksType' /\ SliceOK' /\ QueueType' /\ QueueOK' /\ CoreEvents' /\ NoEventInSlice'
<1>1. event_queue \in [Core -> SUBSET Event] BY DEF Inv, QueueType
<1>2. /\ event_queue' \in [Core -> SUBSET Event]
      /\ \A d \in Core : event_queue'[d] \subseteq event_queue[d]
  BY <1>1
<1>3. QueueType' /\ QueueOK' BY <1>2 DEF Inv, QueueType, QueueOK
<1>4. CoreEvents' BY <1>2, TicksFrame DEF Inv, CoreEvents
<1>5. NoEventInSlice' BY <1>2, TicksFrame DEF Inv, NoEventInSlice
<1>. QED BY <1>3, <1>4, <1>5, TicksFrame

LEMMA FireInv == ASSUME Inv, Fire PROVE Inv'
<1>1. /\ step = "fire" /\ step' = "callback" /\ UNCHANGED ticks_vars
      /\ event_fifo_id' = event_fifo_id /\ ts_queue' = ts_queue /\ phase' = phase /\ core' = core
      /\ delay' = delay /\ max_slice' = max_slice /\ made' = made /\ loads' = loads
  BY DEF Fire
<1>2. Firing /\ Firing' BY <1>1 DEF Firing
<1>3. core \in Core BY <1>2 DEF Inv, LoopOK
<1>4. PICK e \in event_queue[core] : event_queue' = [event_queue EXCEPT ![core] = @ \ {e}]
  BY DEF Fire
<1>5. TicksType' /\ SliceOK' /\ QueueType' /\ QueueOK' /\ CoreEvents' /\ NoEventInSlice'
  BY <1>1, <1>2, <1>3, <1>4, Removed
<1>6. LoopType' BY <1>1 DEF Inv, LoopType
<1>7. LoopOK' BY <1>1, <1>2, TicksFrame DEF Inv, LoopOK
<1>8. SaneOK' BY <1>1, TicksFrame DEF Inv, SaneOK
<1>. QED BY <1>5, <1>6, <1>7, <1>8 DEF Inv

LEMMA UnscheduleEventInv == ASSUME Inv, UnscheduleEvent PROVE Inv'
<1>1. /\ UNCHANGED ticks_vars /\ event_fifo_id' = event_fifo_id /\ ts_queue' = ts_queue
      /\ UNCHANGED loop_vars /\ made' = made /\ loads' = loads
  BY DEF UnscheduleEvent
<1>2. made' \in 0..MaxEvents /\ loads' \in 0..MaxLoads BY <1>1 DEF Inv, LoopType
<1>3. /\ LoopType' /\ phase' = phase /\ step' = step /\ core' = core /\ delay' = delay
      /\ (Firing' <=> Firing)
  BY <1>1, <1>2, LoopFrame
<1>4. PICK c \in Core : \E e \in event_queue[c] :
        event_queue' = [event_queue EXCEPT ![c] = @ \ {e}]
  BY DEF UnscheduleEvent
<1>5. TicksType' /\ SliceOK' /\ QueueType' /\ QueueOK' /\ CoreEvents' /\ NoEventInSlice'
  BY <1>1, <1>3, <1>4, Removed
<1>6. LoopOK' BY <1>1, <1>3, TicksFrame DEF Inv, LoopOK
<1>7. SaneOK' BY <1>1, <1>3, TicksFrame DEF Inv, SaneOK
<1>. QED BY <1>3, <1>5, <1>6, <1>7 DEF Inv

--------------------------------------------------------------------------------
(* Running and scheduling. *)

\* The core counts down.
LEMMA Counted ==
  ASSUME Inv, phase \in {"run_one", "run_all"}, NEW x \in Int, x >= -Overshoot,
         x <= slice_length[core], downcount' = [downcount EXCEPT ![core] = x],
         executed_ticks' = executed_ticks, slice_length' = slice_length,
         is_timer_sane' = is_timer_sane, UNCHANGED queue_vars, UNCHANGED loop_vars,
         made' = made, loads' = loads
  PROVE  Inv'
<1>1. made' \in 0..MaxEvents /\ loads' \in 0..MaxLoads BY DEF Inv, LoopType
<1>2. /\ LoopType' /\ phase' = phase /\ step' = step /\ core' = core /\ delay' = delay
      /\ (Firing' <=> Firing)
  BY <1>1, LoopFrame
<1>3. core \in Core /\ ~Firing BY DEF Inv, LoopOK, Firing
<1>4. /\ downcount \in [Core -> Int]
      /\ \A d \in Core : downcount[d] >= -Overshoot /\ downcount[d] <= slice_length[d]
  BY DEF Inv, TicksType
<1>5. /\ downcount' \in [Core -> Int]
      /\ \A d \in Core : downcount'[d] >= -Overshoot /\ downcount'[d] <= slice_length[d]
  BY <1>3, <1>4
<1>6. TicksType' /\ SliceOK' BY <1>5 DEF Inv, TicksType, SliceOK
<1>7. CoreEvents' BY <1>2, QueueFrame DEF Inv, CoreEvents
<1>8. NoEventInSlice' BY QueueFrame DEF Inv, NoEventInSlice
<1>9. LoopOK' BY <1>2, <1>3 DEF Inv, LoopOK
<1>10. SaneOK' BY <1>2 DEF Inv, SaneOK
<1>. QED BY <1>2, <1>6, <1>7, <1>8, <1>9, <1>10, QueueFrame DEF Inv

LEMMA ExecuteInv == ASSUME Inv, NEW n \in Blocks, Execute(n) PROVE Inv'
<1>1. core \in Core BY DEF Execute, Inv, LoopOK
<1>2. downcount[core] \in Int /\ downcount[core] <= slice_length[core] /\ slice_length[core] \in Nat
  BY <1>1, TimesAre
<1>3. n \in Nat OBVIOUS
<1> DEFINE x == downcount[core] - n
<1>4. x \in Int /\ x <= slice_length[core] BY <1>2, <1>3
<1>5. downcount' = [downcount EXCEPT ![core] = x] /\ x >= -Overshoot BY DEF Execute
<1> HIDE DEF x
<1>. QED BY <1>4, <1>5, Counted DEF Execute

LEMMA IdleInv == ASSUME Inv, Idle PROVE Inv'
<1>1. core \in Core BY DEF Idle, Inv, LoopOK
<1>2. slice_length[core] \in Nat BY <1>1, TimesAre
<1>3. 0 \in Int /\ 0 >= -Overshoot /\ 0 <= slice_length[core] BY <1>2, Constants
<1>. QED BY <1>3, Counted DEF Idle

\* Events for other timers wait in ts_queue.
LEMMA PushInv ==
  ASSUME Inv, NEW c \in Core, NEW e \in Event, e.origin # "core", Push(c, e)
  PROVE  Inv'
<1>1. /\ made < MaxEvents /\ made' = made + 1 /\ ts_queue' = [ts_queue EXCEPT ![c] = Append(@, e)]
      /\ UNCHANGED ticks_vars /\ event_queue' = event_queue /\ event_fifo_id' = event_fifo_id
      /\ UNCHANGED loop_vars /\ loads' = loads
  BY DEF Push
<1>2. made' \in 0..MaxEvents /\ loads' \in 0..MaxLoads BY <1>1, Constants DEF Inv, LoopType
<1>3. /\ LoopType' /\ phase' = phase /\ step' = step /\ core' = core /\ delay' = delay
      /\ (Firing' <=> Firing)
  BY <1>1, <1>2, LoopFrame
<1>4. ts_queue \in [Core -> Seq(Event)] BY DEF Inv, QueueType
<1>5. /\ Append(ts_queue[c], e) \in Seq(Event) /\ Len(ts_queue[c]) \in Nat
      /\ Len(Append(ts_queue[c], e)) = Len(ts_queue[c]) + 1
      /\ \A i \in 1..Len(ts_queue[c]) : Append(ts_queue[c], e)[i] = ts_queue[c][i]
      /\ Append(ts_queue[c], e)[Len(ts_queue[c]) + 1] = e
  BY <1>4
<1>6. QueueType' BY <1>1, <1>4, <1>5 DEF Inv, QueueType
<1>7. QueueOK'
  <2> SUFFICES ASSUME NEW d \in Core, NEW i \in 1..Len(ts_queue'[d])
               PROVE  ts_queue'[d][i].origin # "core"
    BY DEF QueueOK
  <2>1. CASE d = c
    <3>1. ts_queue'[d] = Append(ts_queue[c], e) BY <2>1, <1>1, <1>4
    <3>2. i \in 1..Len(ts_queue[c]) \/ i = Len(ts_queue[c]) + 1 BY <3>1, <1>5
    <3>. QED BY <3>1, <3>2, <1>5 DEF Inv, QueueOK
  <2>2. CASE d # c
    <3>1. ts_queue'[d] = ts_queue[d] BY <2>2, <1>1, <1>4
    <3>. QED BY <3>1 DEF Inv, QueueOK
  <2>. QED BY <2>1, <2>2
<1>8. CoreEvents' BY <1>1, <1>3, TicksFrame DEF Inv, CoreEvents
<1>9. NoEventInSlice' BY <1>1, TicksFrame DEF Inv, NoEventInSlice
<1>10. LoopOK' BY <1>1, <1>3, TicksFrame DEF Inv, LoopOK
<1>11. SaneOK' BY <1>1, <1>3, TicksFrame DEF Inv, SaneOK
<1>. QED BY <1>1, <1>3, <1>6, <1>7, <1>8, <1>9, <1>10, <1>11, TicksFrame DEF Inv

LEMMA ScheduleThereInv ==
  ASSUME Inv, NEW c \in Core, NEW d \in Delays, ScheduleThere(c, d)
  PROVE  Inv'
<1> DEFINE t == GetTicks(c) + d
<1>1. t \in Int BY TimesAre
<1>2. Push(c, NewEvent(t, "other")) BY DEF ScheduleThere
<1> HIDE DEF t
<1>3. "other" \in Origin BY DEF Origin
<1>4. NewEvent(t, "other") \in Event /\ NewEvent(t, "other").origin = "other"
  BY <1>1, <1>3, NewEventIs
<1>. QED BY <1>2, <1>4, PushInv

LEMMA ScheduleFromHostInv ==
  ASSUME Inv, NEW c \in Core, NEW d \in Delays, ScheduleFromHost(c, d)
  PROVE  Inv'
<1>1. PICK b \in {0, MAX_SLICE_LENGTH} : Push(c, NewEvent(GetTicks(c) - b + SafeDelay(d), "host"))
  BY DEF ScheduleFromHost
<1> DEFINE t == GetTicks(c) - b + SafeDelay(d)
<1>2. t \in Int
  <2>1. GetTicks(c) \in Int /\ b \in Int /\ d \in Nat BY TimesAre, Constants
  <2>2. SafeDelay(d) \in Nat BY <2>1, Constants DEF SafeDelay
  <2>. QED BY <2>1, <2>2
<1>3. Push(c, NewEvent(t, "host")) BY <1>1
<1> HIDE DEF t
<1>4. "host" \in Origin BY DEF Origin
<1>5. NewEvent(t, "host") \in Event /\ NewEvent(t, "host").origin = "host"
  BY <1>2, <1>4, NewEventIs
<1>. QED BY <1>3, <1>5, PushInv

LEMMA ThreadsafeAtInv == ASSUME Inv, NEW c \in Core, ScheduleEventThreadsafeAt(c) PROVE Inv'
<1> DEFINE t == executed_ticks[c]
<1>1. t \in Int BY TimesAre
<1>2. Push(c, NewEvent(t, "gpu")) BY DEF ScheduleEventThreadsafeAt
<1> HIDE DEF t
<1>3. "gpu" \in Origin BY DEF Origin
<1>4. NewEvent(t, "gpu") \in Event /\ NewEvent(t, "gpu").origin = "gpu" BY <1>1, <1>3, NewEventIs
<1>. QED BY <1>2, <1>4, PushInv

\* An event of the core that runs, or of a callback, cuts the slice short.
LEMMA ScheduleHereInv == ASSUME Inv, NEW d \in Delays, ScheduleHere(d) PROVE Inv'
<1> DEFINE c == core
           n == event_fifo_id[c] + 1
           t == GetTicks(c) + d
           e == [NewEvent(t, "core") EXCEPT !.fifo_order = n]
           s == EndOfSlice(d)
           x == downcount[c] - (slice_length[c] - s)
<1>1. /\ Emulating /\ made < MaxEvents /\ made' = made + 1
      /\ event_fifo_id' = [event_fifo_id EXCEPT ![c] = n]
      /\ event_queue' = [event_queue EXCEPT ![c] = event_queue[c] \cup {e}]
      /\ slice_length' = [slice_length EXCEPT ![c] = s]
      /\ downcount' = [downcount EXCEPT ![c] = x]
      /\ executed_ticks' = executed_ticks /\ is_timer_sane' = is_timer_sane
      /\ ts_queue' = ts_queue /\ UNCHANGED loop_vars /\ loads' = loads
  BY DEF ScheduleHere
<1>2. made' \in 0..MaxEvents /\ loads' \in 0..MaxLoads BY <1>1, Constants DEF Inv, LoopType
<1>3. /\ LoopType' /\ phase' = phase /\ step' = step /\ core' = core /\ delay' = delay
      /\ (Firing' <=> Firing)
  BY <1>1, <1>2, LoopFrame
<1>4. c \in Core /\ (Firing \/ ~is_timer_sane[c]) /\ (~Firing => ~is_timer_sane[c])
  BY <1>1 DEF Emulating, Inv, LoopOK, SaneOK, Firing
<1>5. Firing => slice_length[c] = 0 /\ downcount[c] = 0 /\ is_timer_sane[c]
  BY DEF Inv, LoopOK
<1>6. /\ executed_ticks[c] \in Int /\ slice_length[c] \in Nat /\ downcount[c] \in Int
      /\ downcount[c] >= -Overshoot /\ downcount[c] <= slice_length[c] /\ d \in Nat
      /\ t \in Int
  BY <1>4, TimesAre
<1>7. n \in Nat /\ event_fifo_id \in [Core -> Nat] /\ event_queue \in [Core -> SUBSET Event]
  BY <1>4 DEF Inv, QueueType
<1>8. e \in Event /\ e.time = t /\ e.origin = "core"
  <2>1. "core" \in Origin BY DEF Origin
  <2> DEFINE f == NewEvent(t, "core")
  <2>2. f \in Event /\ f.time = t /\ f.origin = "core" BY <1>6, <2>1, NewEventIs
  <2> HIDE DEF f, n, t
  <2>. QED BY <1>7, <2>2, Stamped DEF f
<1>9. /\ is_timer_sane[c] => s = slice_length[c] /\ t = executed_ticks[c] + d
      /\ ~is_timer_sane[c] =>
           /\ t = executed_ticks[c] + (slice_length[c] - downcount[c]) + d
           /\ s = IF downcount[c] > d THEN slice_length[c] - (downcount[c] - d)
                  ELSE slice_length[c]
  BY <1>6 DEF EndOfSlice, GetTicks
<1> HIDE DEF e, s, t, n
<1>10. /\ s \in Nat /\ s <= slice_length[c] /\ x \in Int /\ x >= -Overshoot /\ x <= s
       /\ (~is_timer_sane[c] => t >= executed_ticks[c] + s)
       /\ (is_timer_sane[c] => t >= executed_ticks[c] - Overshoot)
  <2>1. CASE is_timer_sane[c] BY <2>1, <1>6, <1>9, Constants
  <2>2. CASE ~is_timer_sane[c]
    <3>1. CASE downcount[c] > d BY <2>2, <3>1, <1>6, <1>9, Constants
    <3>2. CASE ~(downcount[c] > d) BY <2>2, <3>2, <1>6, <1>9, Constants
    <3>. QED BY <3>1, <3>2
  <2>. QED BY <2>1, <2>2
<1> HIDE DEF x, c
<1>11. /\ slice_length \in [Core -> Int] /\ downcount \in [Core -> Int]
       /\ \A k \in Core : downcount[k] >= -Overshoot /\ downcount[k] <= slice_length[k]
       /\ \A k \in Core : slice_length[k] >= 0
  BY DEF Inv, TicksType, SliceOK
<1>12. /\ slice_length' \in [Core -> Int] /\ downcount' \in [Core -> Int]
       /\ slice_length'[c] = s /\ downcount'[c] = x /\ event_queue'[c] = event_queue[c] \cup {e}
       /\ \A k \in Core \ {c} : /\ slice_length'[k] = slice_length[k] /\ downcount'[k] = downcount[k]
                                /\ event_queue'[k] = event_queue[k]
  BY <1>1, <1>4, <1>7, <1>10, <1>11
<1>13. TicksType' /\ SliceOK'
  <2>1. ASSUME NEW k \in Core
        PROVE  /\ downcount'[k] >= -Overshoot /\ downcount'[k] <= slice_length'[k]
               /\ slice_length'[k] >= 0
    <3>1. CASE k = c BY <3>1, <1>10, <1>12
    <3>2. CASE k # c BY <3>2, <1>11, <1>12
    <3>. QED BY <3>1, <3>2
  <2>. QED BY <2>1, <1>1, <1>12 DEF Inv, TicksType, SliceOK
<1>14. QueueType' /\ QueueOK' BY <1>1, <1>7, <1>8 DEF Inv, QueueType, QueueOK
<1>15. CoreEvents'
  <2> SUFFICES ASSUME NEW k \in Core, NEW f \in event_queue'[k], f.origin = "core"
               PROVE  IF core = k /\ Firing THEN f.time >= executed_ticks[k] - Overshoot
                      ELSE f.time >= executed_ticks[k] + slice_length'[k]
    BY <1>1, <1>3 DEF CoreEvents
  <2>1. CASE k # c BY <2>1, <1>12 DEF Inv, CoreEvents
  <2>2. CASE k = c /\ f = e
    <3>1. CASE Firing BY <2>2, <3>1, <1>5, <1>8, <1>10 DEF c
    <3>2. CASE ~Firing BY <2>2, <3>2, <1>4, <1>8, <1>10, <1>12
    <3>. QED BY <3>1, <3>2
  <2>3. CASE k = c /\ f # e
    <3>1. f \in event_queue[k] /\ f.time \in Int BY <2>3, <1>12, TimesAre
    <3>2. CASE Firing BY <2>3, <3>1, <3>2 DEF Inv, CoreEvents, c
    <3>3. CASE ~Firing
      <4>1. f.time >= executed_ticks[k] + slice_length[k] BY <3>1, <3>3 DEF Inv, CoreEvents
      <4>2. f.time >= executed_ticks[k] + slice_length'[k]
        BY <2>3, <3>1, <4>1, <1>6, <1>10, <1>12
      <4>. QED BY <3>3, <4>2
    <3>. QED BY <3>2, <3>3
  <2>. QED BY <2>1, <2>2, <2>3
<1>16. NoEventInSlice'
  <2> SUFFICES ASSUME NEW k \in Core, ~is_timer_sane[k], NEW f \in event_queue'[k]
               PROVE  f.time >= executed_ticks[k] + slice_length'[k]
    BY <1>1 DEF NoEventInSlice
  <2>1. CASE k # c BY <2>1, <1>12 DEF Inv, NoEventInSlice
  <2>2. CASE k = c /\ f = e BY <2>2, <1>8, <1>10, <1>12
  <2>3. CASE k = c /\ f # e
    <3>1. f \in event_queue[k] /\ f.time \in Int BY <2>3, <1>12, TimesAre
    <3>2. f.time >= executed_ticks[k] + slice_length[k] BY <3>1 DEF Inv, NoEventInSlice
    <3>. QED BY <2>3, <3>1, <3>2, <1>6, <1>10, <1>12
  <2>. QED BY <2>1, <2>2, <2>3
<1>17. LoopOK'
  <2>1. Firing => s = 0 /\ x = 0 BY <1>5, <1>9, <1>10 DEF x
  <2>. QED BY <2>1, <1>1, <1>3, <1>12 DEF Inv, LoopOK, c
<1>18. SaneOK' BY <1>1, <1>3 DEF Inv, SaneOK
<1>. QED BY <1>3, <1>13, <1>14, <1>15, <1>16, <1>17, <1>18 DEF Inv

\* Loading makes all timers sane.
LEMMA LoadStateInv == ASSUME Inv, LoadState PROVE Inv'
<1>1. /\ phase = "top" /\ loads < MaxLoads /\ loads' = loads + 1
      /\ is_timer_sane' = [c \in Core |-> TRUE]
      /\ event_queue' = [c \in Core |-> event_queue[c] \cup Moved(c)]
      /\ event_fifo_id' = [c \in Core |-> event_fifo_id[c] + Len(ts_queue[c])]
      /\ ts_queue' = [c \in Core |-> << >>]
      /\ executed_ticks' = executed_ticks /\ slice_length' = slice_length
      /\ downcount' = downcount /\ UNCHANGED loop_vars /\ made' = made
  BY DEF LoadState
<1>2. made' \in 0..MaxEvents /\ loads' \in 0..MaxLoads BY <1>1, Constants DEF Inv, LoopType
<1>3. /\ LoopType' /\ phase' = phase /\ step' = step /\ core' = core /\ delay' = delay
      /\ (Firing' <=> Firing)
  BY <1>1, <1>2, LoopFrame
<1>4. step = "none" /\ ~Firing BY <1>1 DEF Inv, LoopOK, Firing
<1>5. TicksType' /\ SliceOK' BY <1>1 DEF Inv, TicksType, SliceOK
<1>6. QueueType'
  <2>1. ASSUME NEW c \in Core
        PROVE  /\ event_queue[c] \cup Moved(c) \in SUBSET Event
               /\ event_fifo_id[c] + Len(ts_queue[c]) \in Nat
    <3>1. event_queue[c] \subseteq Event /\ event_fifo_id[c] \in Nat /\ ts_queue[c] \in Seq(Event)
      BY DEF Inv, QueueType
    <3>2. Len(ts_queue[c]) \in Nat BY <3>1
    <3>. QED BY <3>1, <3>2, MovedAre
  <2>2. << >> \in Seq(Event) OBVIOUS
  <2>. QED BY <2>1, <2>2, <1>1 DEF QueueType
<1>7. QueueOK' BY <1>1 DEF QueueOK
<1>8. CoreEvents'
  <2> SUFFICES ASSUME NEW c \in Core, NEW e \in event_queue'[c], e.origin = "core"
               PROVE  e.time >= executed_ticks[c] + slice_length[c]
    BY <1>1, <1>3, <1>4 DEF CoreEvents
  <2>1. e \in event_queue[c] BY <1>1, MovedAre
  <2>. QED BY <2>1, <1>4 DEF Inv, CoreEvents
<1>9. NoEventInSlice' BY <1>1 DEF NoEventInSlice
<1>10. LoopOK' BY <1>1, <1>3, <1>4 DEF Inv, LoopOK
<1>11. SaneOK' BY <1>1, <1>3 DEF SaneOK
<1>. QED BY <1>3, <1>5, <1>6, <1>7, <1>8, <1>9, <1>10, <1>11 DEF Inv

LEMMA StutterInv == ASSUME Inv, UNCHANGED vars PROVE Inv'
<1>1. UNCHANGED ticks_vars /\ UNCHANGED queue_vars /\ UNCHANGED loop_vars /\ made' = made
      /\ loads' = loads
  BY DEF vars
<1>2. made' \in 0..MaxEvents /\ loads' \in 0..MaxLoads BY <1>1 DEF Inv, LoopType
<1>3. /\ LoopType' /\ phase' = phase /\ step' = step /\ core' = core /\ delay' = delay
      /\ (Firing' <=> Firing)
  BY <1>1, <1>2, LoopFrame
<1>4. CoreEvents' /\ NoEventInSlice'
  BY <1>1, <1>3, TicksFrame, QueueFrame DEF Inv, CoreEvents, NoEventInSlice
<1>5. LoopOK' /\ SaneOK' BY <1>1, <1>3, TicksFrame DEF Inv, LoopOK, SaneOK
<1>. QED BY <1>1, <1>3, <1>4, <1>5, TicksFrame, QueueFrame DEF Inv

LEMMA StepInv == Inv /\ [Next]_vars => Inv'
BY LoopTopInv, NotLaggingInv, LaggingAdvancedInv, CatchUpInv, AdvanceAllInv, CoreAdvancedInv,
   RunFirstInv, RunNextInv, LoopEndsInv, AdvanceInv, FireInv, CallbackReturnsInv,
   UnscheduleEventInv, LoadStateInv, IdleInv, ExecuteInv, ScheduleHereInv, ThreadsafeAtInv,
   ScheduleThereInv, ScheduleFromHostInv, StutterInv
   DEF Next, Loop

LEMMA AlwaysInv == Spec => []Inv
<1>1. Init => Inv BY StartInv
<1>2. Inv /\ [Next]_vars => Inv' BY StepInv
<1>. QED BY <1>1, <1>2, PTL DEF Spec

\* Every variable has its type; above all, slices, delays and the time for which a core
\* may run are never negative, and a core passes the end of its slice by no more than
\* it can overshoot.
THEOREM TypeCorrect == Spec => []TypeOK
<1>1. Inv => TypeOK BY TypeParts DEF Inv
<1>. QED BY <1>1, AlwaysInv, PTL

\* No event lies within the slice that a timer counts down.
THEOREM SlicesEndAtEvents == Spec => []NoEventInSlice
BY AlwaysInv, PTL DEF Inv

\* The events that a core made for itself fire on time, but for its overshoot.
THEOREM CoreEventsOnTime == Spec => []OnTime
<1>1. Inv => OnTime
  <2> SUFFICES ASSUME Inv, step = "fire", NEW e \in event_queue[core], e.origin = "core"
               PROVE  executed_ticks[core] - e.time <= Overshoot
    BY DEF OnTime
  <2>1. Firing BY DEF Firing
  <2>2. core \in Core BY <2>1 DEF Inv, LoopOK
  <2>3. e.time >= executed_ticks[core] - Overshoot BY <2>1, <2>2 DEF Inv, CoreEvents
  <2>4. executed_ticks[core] \in Int /\ e.time \in Int BY <2>2, TimesAre
  <2>. QED BY <2>3, <2>4, Constants
<1>. QED BY <1>1, AlwaysInv, PTL

\* Constants is all that the rest needs of it.
HIDE TimingAssumption

--------------------------------------------------------------------------------
(* How far the cores are apart. *)

\* What k cores overshoot.
Over(k) == k * Overshoot

LEMMA OverIs ==
  /\ \A k \in Nat : Over(k) \in Nat /\ Over(k + 1) = Over(k) + Overshoot
  /\ \A i, j \in Nat : i <= j => Over(i) <= Over(j)
  /\ Over(0) = 0
<1>1. Overshoot \in Nat BY Constants
<1>2. ASSUME NEW i \in Nat, NEW j \in Nat, i <= j PROVE Over(i) <= Over(j)
  <2>1. j - i \in Nat BY <1>2
  <2>2. (j - i) * Overshoot \in Nat BY <1>1, <2>1
  <2>3. j * Overshoot = i * Overshoot + (j - i) * Overshoot BY <1>1, <1>2
  <2>4. i * Overshoot \in Nat /\ j * Overshoot \in Nat BY <1>1
  <2>. QED BY <2>2, <2>3, <2>4 DEF Over
<1>3. ASSUME NEW k \in Nat PROVE Over(k) \in Nat /\ Over(k + 1) = Over(k) + Overshoot
  BY <1>1 DEF Over
<1>4. Over(0) = 0 BY <1>1 DEF Over
<1>. QED BY <1>2, <1>3, <1>4

LEMMA ApartIs ==
  /\ Apart \in [0..MaxLoads -> Nat]
  /\ Apart[0] = MAX_SLICE_LENGTH + min_delay
  /\ \A n \in 1..MaxLoads : Apart[n] = 2 * Apart[n - 1] + (NumCores + 2) * Overshoot
<1> DEFINE x0 == MAX_SLICE_LENGTH + min_delay
           a == (NumCores + 2) * Overshoot
           F == [i \in 1 .. MaxLoads |-> [x \in Nat |-> 2 * x + a]]
<1>1. MaxLoads \in Nat /\ x0 \in Nat /\ a \in Nat BY Constants
<1>2. F \in [1 .. MaxLoads -> [Nat -> Nat]]
  <2> HIDE DEF a
  <2>. QED BY <1>1
<1>3. PICK f \in [0 .. MaxLoads -> Nat] : Iterates(MaxLoads, x0, F, f)
  <2> HIDE DEF F, x0
  <2>1. QED BY <1>1, <1>2, Iterate
<1>4. ASSUME NEW i \in 0..MaxLoads
      PROVE  f[i] = IF i = 0 THEN x0 ELSE 2 * f[i - 1] + a
  <2>1. f[i] = IF i = 0 THEN x0 ELSE F[i][f[i - 1]] BY <1>3 DEF Iterates
  <2>2. CASE i = 0 BY <2>1, <2>2
  <2>3. CASE i # 0
    <3>1. i \in 1..MaxLoads /\ i - 1 \in 0..MaxLoads BY <1>1, <2>3
    <3>2. f[i - 1] \in Nat BY <3>1
    <3> HIDE DEF a
    <3>. QED BY <2>1, <2>3, <3>1, <3>2
  <2>. QED BY <2>2, <2>3
<1>5. f = [i \in 0..MaxLoads |-> IF i = 0 THEN x0 ELSE 2 * f[i - 1] + a]
  <2> HIDE DEF a, x0
  <2>. QED BY <1>4
<1>6. Apart = CHOOSE g : g = [i \in 0..MaxLoads |-> IF i = 0 THEN x0 ELSE 2 * g[i - 1] + a]
  BY DEF Apart
<1> HIDE DEF a, x0
<1>7. Apart = [i \in 0..MaxLoads |-> IF i = 0 THEN x0 ELSE 2 * Apart[i - 1] + a]
  BY <1>5, <1>6
<1>8. \A i \in 0..MaxLoads : Apart[i] = IF i = 0 THEN x0 ELSE 2 * Apart[i - 1] + a
  BY <1>7
<1> DEFINE P == {i \in 0..MaxLoads : Apart[i] \in Nat}
<1>9. \A i \in 0..MaxLoads : i \in P
  <2>1. 0 \in P BY <1>1, <1>8
  <2>2. ASSUME NEW i \in 0..MaxLoads, i < MaxLoads, i \in P PROVE i + 1 \in P
    <3>1. i + 1 \in 0..MaxLoads /\ i + 1 # 0 /\ (i + 1) - 1 = i /\ Apart[i] \in Nat
      BY <1>1, <2>2
    <3>2. Apart[i + 1] = 2 * Apart[i] + a BY <1>8, <3>1
    <3>. QED BY <1>1, <3>1, <3>2
  <2> HIDE DEF P
  <2>. QED BY <1>1, <2>1, <2>2, UpTo
<1>10. Apart \in [0..MaxLoads -> Nat]
  <2>1. \A i \in 0..MaxLoads : Apart[i] \in Nat BY <1>9
  <2>2. DOMAIN Apart = 0..MaxLoads /\ Apart = [i \in DOMAIN Apart |-> Apart[i]] BY <1>7
  <2>. QED BY ONLY <2>1, <2>2
<1>11. \A n \in 1..MaxLoads : n \in 0..MaxLoads /\ n # 0 BY <1>1
<1>12. Apart[0] = x0 /\ \A n \in 1..MaxLoads : Apart[n] = 2 * Apart[n - 1] + a
  BY <1>1, <1>8, <1>11
<1>. QED BY ONLY <1>10, <1>12 DEF x0, a

\* The same, as the proofs use it.
LEMMA ApartStep ==
  /\ \A n \in 0..MaxLoads : Apart[n] \in Nat /\ Apart[n] >= MAX_SLICE_LENGTH + min_delay
  /\ \A n \in 1..MaxLoads :
       /\ n - 1 \in 0..MaxLoads
       /\ Apart[n] = Apart[n - 1] + (Apart[n - 1] + Over(NumCores)) + 2 * Overshoot
<1>1. MaxLoads \in Nat /\ MAX_SLICE_LENGTH \in Nat /\ min_delay \in Nat /\ NumCores \in Nat
      /\ Overshoot \in Nat
  BY Constants
<1>2. (NumCores + 2) * Overshoot = Over(NumCores) + 2 * Overshoot /\ Over(NumCores) \in Nat
  BY <1>1, OverIs DEF Over
<1>3. \A n \in 0..MaxLoads : Apart[n] \in Nat BY ApartIs
<1>4. ASSUME NEW n \in 1..MaxLoads
      PROVE  /\ n - 1 \in 0..MaxLoads /\ n \in 0..MaxLoads
             /\ Apart[n] = Apart[n - 1] + (Apart[n - 1] + Over(NumCores)) + 2 * Overshoot
  <2>1. n - 1 \in 0..MaxLoads /\ n \in 0..MaxLoads BY <1>1
  <2>2. Apart[n] = 2 * Apart[n - 1] + (NumCores + 2) * Overshoot BY ApartIs
  <2>. QED BY <2>1, <2>2, <1>1, <1>2, <1>3
<1> DEFINE P == {i \in 0..MaxLoads : Apart[i] >= MAX_SLICE_LENGTH + min_delay}
<1>5. \A i \in 0..MaxLoads : i \in P
  <2>1. 0 \in P BY <1>1, ApartIs
  <2>2. ASSUME NEW i \in 0..MaxLoads, i < MaxLoads, i \in P PROVE i + 1 \in P
    <3>1. i + 1 \in 1..MaxLoads /\ (i + 1) - 1 = i BY <1>1, <2>2
    <3>2. /\ i + 1 \in 0..MaxLoads
          /\ Apart[i + 1] = Apart[i] + (Apart[i] + Over(NumCores)) + 2 * Overshoot
      BY <3>1, <1>4
    <3>3. Apart[i] \in Nat /\ Apart[i] >= MAX_SLICE_LENGTH + min_delay BY <1>3, <2>2
    <3>4. Apart[i + 1] >= MAX_SLICE_LENGTH + min_delay BY <3>2, <3>3, <1>1, <1>2
    <3>. QED BY <3>2, <3>4
  <2> HIDE DEF P
  <2>. QED BY <1>1, <2>1, <2>2, UpTo
<1>. QED BY <1>3, <1>4, <1>5

--------------------------------------------------------------------------------
(* The order of the cores.  t is a time for each core.  R is no further from any v *)
(* that some core has not passed than w, plus an overshoot of each core that has.  *)

Above(t, v) == {y \in Core : t[y] > v}
Count(t, v) == Cardinality(Above(t, v))
Floor(t, R, w) ==
  \A v \in Int : (\E d \in Core : t[d] <= v) => R - v <= w + Over(Count(t, v))
Spread(t, w) == \A x \in Core : Floor(t, t[x], w)

LEMMA CountIs ==
  ASSUME NEW t \in [Core -> Int], NEW v \in Int
  PROVE  /\ IsFiniteSet(Above(t, v)) /\ Count(t, v) \in Nat /\ Over(Count(t, v)) \in Nat
         /\ (\E d \in Core : t[d] <= v) =>
               Count(t, v) <= NumCores - 1 /\ Over(Count(t, v)) <= Over(NumCores - 1)
<1>1. NumCores \in Nat /\ NumCores # 0 /\ NumCores - 1 \in Nat BY Constants
<1>2. IsFiniteSet(Core) /\ Cardinality(Core) = NumCores BY <1>1, FS_Interval DEF Core
<1>3. Above(t, v) \in SUBSET Core BY DEF Above
<1>4. /\ IsFiniteSet(Above(t, v)) /\ Count(t, v) <= NumCores
      /\ NumCores = Count(t, v) => Core = Above(t, v)
  BY <1>2, <1>3, FS_Subset DEF Count
<1>5. Count(t, v) \in Nat BY <1>4, FS_CardinalityType DEF Count
<1>6. ASSUME NEW d \in Core, t[d] <= v PROVE Count(t, v) <= NumCores - 1
  <2>1. d \notin Above(t, v) BY <1>6 DEF Above
  <2>2. NumCores # Count(t, v) BY <2>1, <1>4
  <2>. QED BY <2>2, <1>1, <1>4, <1>5
<1>. QED BY <1>1, <1>4, <1>5, <1>6, OverIs

LEMMA CountGrows ==
  ASSUME NEW t \in [Core -> Int], NEW u \in [Core -> Int], NEW v \in Int,
         Above(t, v) \subseteq Above(u, v)
  PROVE  Over(Count(t, v)) <= Over(Count(u, v))
<1>1. IsFiniteSet(Above(u, v)) /\ Count(t, v) \in Nat /\ Count(u, v) \in Nat BY CountIs
<1>2. Count(t, v) <= Count(u, v) BY <1>1, FS_Subset DEF Count
<1>. QED BY <1>1, <1>2, OverIs

\* Cores that advance stay above.
LEMMA FloorGrows ==
  ASSUME NEW t \in [Core -> Int], NEW u \in [Core -> Int], NEW R \in Int, NEW w \in Int,
         \A c \in Core : t[c] <= u[c], Floor(t, R, w)
  PROVE  Floor(u, R, w)
<1> SUFFICES ASSUME NEW v \in Int, NEW d \in Core, u[d] <= v
             PROVE  R - v <= w + Over(Count(u, v))
  BY DEF Floor
<1>1. t[d] \in Int /\ u[d] \in Int /\ t[d] <= u[d] OBVIOUS
<1>2. t[d] <= v BY <1>1
<1>3. R - v <= w + Over(Count(t, v)) BY <1>2 DEF Floor
<1>4. Above(t, v) \subseteq Above(u, v)
  <2> SUFFICES ASSUME NEW y \in Core, t[y] > v PROVE u[y] > v
    BY DEF Above
  <2>1. t[y] \in Int /\ u[y] \in Int /\ t[y] <= u[y] OBVIOUS
  <2>. QED BY <2>1
<1>5. Over(Count(t, v)) <= Over(Count(u, v)) BY <1>4, CountGrows
<1>6. Over(Count(t, v)) \in Nat /\ Over(Count(u, v)) \in Nat BY CountIs
<1>. QED BY <1>3, <1>5, <1>6

LEMMA FloorRaised ==
  ASSUME NEW t \in [Core -> Int], NEW R \in Int, NEW w \in Int, NEW Q \in Int, NEW z \in Int,
         Floor(t, R, w), Q + w <= R + z
  PROVE  Floor(t, Q, z)
<1> SUFFICES ASSUME NEW v \in Int, NEW d \in Core, t[d] <= v
             PROVE  Q - v <= z + Over(Count(t, v))
  BY DEF Floor
<1>1. R - v <= w + Over(Count(t, v)) BY DEF Floor
<1>2. Over(Count(t, v)) \in Nat BY CountIs
<1>. QED BY <1>1, <1>2

LEMMA FloorClose ==
  ASSUME NEW t \in [Core -> Int], NEW R \in Int, NEW w \in Int, Floor(t, R, w), NEW d \in Core
  PROVE  R - t[d] <= w + Over(NumCores - 1)
<1>1. t[d] \in Int /\ t[d] <= t[d] OBVIOUS
<1>2. R - t[d] <= w + Over(Count(t, t[d])) BY <1>1 DEF Floor
<1>3. /\ Over(Count(t, t[d])) \in Nat /\ Over(Count(t, t[d])) <= Over(NumCores - 1)
  BY <1>1, CountIs
<1>4. Over(NumCores - 1) \in Nat
  <2>1. NumCores - 1 \in Nat BY Constants
  <2>. QED BY <2>1, OverIs
<1>. QED BY <1>1, <1>2, <1>3, <1>4

\* The core furthest behind runs, and passes none of the others by more than it can overshoot.
LEMMA RunAlone ==
  ASSUME NEW t \in [Core -> Int], NEW u \in [Core -> Int], NEW w \in Int, w >= 0, NEW c \in Core,
         Spread(t, w), \A x \in Core \ {c} : u[x] = t[x], t[c] <= u[c],
         \A d \in Core : t[c] <= t[d], NEW g \in Core \ {c}, u[c] <= t[g] + Overshoot
  PROVE  Spread(u, w)
<1> SUFFICES ASSUME NEW x \in Core, NEW v \in Int, NEW d \in Core, u[d] <= v
             PROVE  u[x] - v <= w + Over(Count(u, v))
  BY DEF Spread, Floor
<1>1. /\ \A y \in Core : t[y] \in Int /\ u[y] \in Int
      /\ \A y \in Core : t[y] <= u[y]
  OBVIOUS
<1>2. t[d] \in Int /\ u[d] \in Int /\ t[d] <= u[d] /\ t[c] <= t[d] /\ t[c] \in Int BY <1>1
<1>3. t[d] <= v /\ t[c] <= v BY <1>2
<1>4. /\ Over(Count(t, v)) \in Nat /\ Over(Count(u, v)) \in Nat /\ Overshoot \in Nat
      /\ IsFiniteSet(Above(t, v)) /\ Count(t, v) \in Nat /\ IsFiniteSet(Above(u, v))
      /\ Count(u, v) \in Nat
  BY CountIs, Constants
<1>5. c \notin Above(t, v) BY <1>2, <1>3 DEF Above
<1>6. Above(t, v) \subseteq Above(u, v) BY <1>5 DEF Above
<1>7. Over(Count(t, v)) <= Over(Count(u, v)) BY <1>6, CountGrows
<1>8. CASE x # c
  <2>1. t[x] - v <= w + Over(Count(t, v)) BY <1>3 DEF Spread, Floor
  <2>2. u[x] = t[x] /\ t[x] \in Int BY <1>1, <1>8
  <2>. QED BY <2>1, <2>2, <1>4, <1>7
<1>9. CASE x = c /\ u[c] > v
  <2>1. t[g] - v <= w + Over(Count(t, v)) /\ t[g] \in Int BY <1>1, <1>3 DEF Spread, Floor
  <2>2. Above(t, v) \cup {c} \in SUBSET Above(u, v) BY <1>6, <1>9 DEF Above
  <2>3. Cardinality(Above(t, v) \cup {c}) = Count(t, v) + 1
    BY <1>4, <1>5, FS_AddElement DEF Count
  <2>4. Count(t, v) + 1 <= Count(u, v) BY <1>4, <2>2, <2>3, FS_Subset DEF Count
  <2>5. Over(Count(t, v) + 1) = Over(Count(t, v)) + Overshoot
        /\ Over(Count(t, v) + 1) <= Over(Count(u, v)) /\ Over(Count(t, v) + 1) \in Nat
    BY <1>4, <2>4, OverIs
  <2>. QED BY <1>1, <1>4, <1>9, <2>1, <2>5
<1>10. CASE x = c /\ ~(u[c] > v)
  <2>1. u[c] \in Int BY <1>1
  <2>. QED BY <1>4, <1>10, <2>1
<1>. QED BY <1>8, <1>9, <1>10

\* The cores run one after the other, each for no longer than the one before did.
InTurn(b, e, u, H, w) ==
  /\ \A c \in Core : /\ u[c] = b[c] + e[c] /\ e[c] >= 0
                     /\ H <= b[c] /\ b[c] <= H + w - MAX_SLICE_LENGTH
                     /\ e[c] <= MAX_SLICE_LENGTH + Over(c)
  /\ \A c, i \in Core : i < c => e[c] <= e[i] + Over(c - i)

LEMMA RunInTurn ==
  ASSUME NEW b \in [Core -> Int], NEW e \in [Core -> Int], NEW u \in [Core -> Int],
         NEW H \in Int, NEW w \in Int, InTurn(b, e, u, H, w)
  PROVE  Spread(u, w)
<1> SUFFICES ASSUME \A c \in Core : /\ u[c] = b[c] + e[c] /\ e[c] >= 0
                                    /\ H <= b[c] /\ b[c] <= H + w - MAX_SLICE_LENGTH
                                    /\ e[c] <= MAX_SLICE_LENGTH + Over(c),
                    \A c, i \in Core : i < c => e[c] <= e[i] + Over(c - i),
                    NEW x \in Core, NEW v \in Int, NEW d \in Core, u[d] <= v,
                    ~(u[x] - v <= w + Over(Count(u, v)))
             PROVE  FALSE
  BY DEF Spread, Floor, InTurn
<1> DEFINE n == Count(u, v)
           S == MAX_SLICE_LENGTH
<1>1. n \in Nat /\ Over(n) \in Nat /\ IsFiniteSet(Above(u, v)) BY CountIs
<1>2. S \in Nat /\ NumCores \in Nat /\ x \in Nat /\ x <= NumCores /\ x >= 1
  BY Constants DEF Core
<1>3. \A c \in Core : b[c] \in Int /\ e[c] \in Int /\ u[c] \in Int OBVIOUS
<1>4. u[x] - v > w + Over(n)
  <2>1. u[x] - v \in Int /\ w + Over(n) \in Int BY <1>1, <1>3
  <2>. QED BY <2>1
<1> HIDE DEF n, S
<1>5. v >= H
  <2>1. /\ u[d] = b[d] + e[d] /\ e[d] >= 0 /\ H <= b[d] /\ b[d] \in Int /\ e[d] \in Int BY <1>3
  <2>. QED BY <2>1
<1>6. /\ u[x] = b[x] + e[x] /\ b[x] <= H + w - S /\ e[x] <= S + Over(x)
      /\ b[x] \in Int /\ e[x] \in Int /\ u[x] \in Int
  BY <1>3 DEF S
<1>7. e[x] > S + Over(n) BY <1>1, <1>2, <1>4, <1>5, <1>6
<1>8. n < x
  <2>1. SUFFICES ASSUME x <= n PROVE FALSE BY <1>1, <1>2
  <2>2. Over(x) <= Over(n) /\ Over(x) \in Nat BY <1>1, <1>2, <2>1, OverIs
  <2>. QED BY <2>2, <1>1, <1>2, <1>6, <1>7
<1>9. ASSUME NEW i \in (x - n)..x PROVE i \in Above(u, v)
  <2>1. i \in Nat /\ i >= 1 /\ i <= x /\ i \in Core BY <1>1, <1>2, <1>8 DEF Core
  <2>2. e[x] <= e[i] + Over(n)
    <3>1. CASE i = x BY <3>1, <1>1, <1>6
    <3>2. CASE i # x
      <4>1. i < x /\ x - i \in Nat /\ x - i <= n BY <2>1, <3>2, <1>1, <1>2
      <4>2. Over(x - i) <= Over(n) /\ Over(x - i) \in Nat BY <4>1, <1>1, OverIs
      <4>3. e[x] <= e[i] + Over(x - i) BY <4>1, <2>1
      <4>. QED BY <4>2, <4>3, <2>1, <1>1, <1>3
    <3>. QED BY <3>1, <3>2
  <2>3. u[i] = b[i] + e[i] /\ H <= b[i] /\ b[i] \in Int /\ e[i] \in Int BY <2>1, <1>3
  <2>4. u[i] > v BY <2>2, <2>3, <1>1, <1>2, <1>4, <1>6
  <2>. QED BY <2>1, <2>4 DEF Above
<1>10. x - n \in Int /\ x \in Int /\ ~(x - n > x) /\ x - (x - n) + 1 = n + 1 BY <1>1, <1>2
<1>11. Cardinality((x - n)..x) = n + 1
  <2> DEFINE a == x - n
  <2>1. a \in Int /\ ~(a > x) /\ x - a + 1 = n + 1 BY <1>10
  <2> HIDE DEF a
  <2>2. Cardinality(a..x) = n + 1 BY <1>10, <2>1, FS_Interval
  <2>. QED BY <2>2 DEF a
<1>12. (x - n)..x \in SUBSET Above(u, v) BY <1>9
<1>13. n + 1 <= n BY <1>1, <1>11, <1>12, FS_Subset DEF Count, n
<1>. QED BY <1>1, <1>13

\* One of the cores is ahead of all.
LEMMA Furthest ==
  ASSUME NEW t \in [Core -> Int]
  PROVE  \E g \in Core : \A c \in Core : t[c] <= t[g]
<1> DEFINE P == {i \in 0..NumCores : i = 0 \/ \E g \in 1..i : \A c \in 1..i : t[c] <= t[g]}
<1>1. NumCores \in Nat /\ NumCores # 0 /\ Core = 1..NumCores BY Constants DEF Core
<1>2. 0 \in P BY <1>1
<1>3. ASSUME NEW i \in 0..NumCores, i < NumCores, i \in P PROVE i + 1 \in P
  <2>1. i \in Nat /\ i + 1 \in 0..NumCores /\ i + 1 \in Core /\ i + 1 \in 1..(i + 1) BY <1>1, <1>3
  <2>2. t[i + 1] \in Int /\ \A c \in 1..i : c \in Core /\ t[c] \in Int /\ c \in 1..(i + 1)
    BY <1>1, <2>1
  <2>3. \A c \in 1..(i + 1) : c = i + 1 \/ c \in 1..i BY <2>1
  <2>4. CASE i = 0
    <3>1. \A c \in 1..(i + 1) : c = i + 1 BY <2>1, <2>4
    <3>2. \A c \in 1..(i + 1) : t[c] <= t[i + 1] BY <2>2, <3>1
    <3>. QED BY <2>1, <3>2
  <2>5. CASE i # 0
    <3>1. PICK g \in 1..i : \A c \in 1..i : t[c] <= t[g] BY <1>3, <2>5
    <3>2. t[g] \in Int /\ g \in 1..(i + 1) BY <2>2
    <3>3. CASE t[i + 1] <= t[g]
      <4>1. \A c \in 1..(i + 1) : t[c] <= t[g] BY <2>3, <3>1, <3>3
      <4>. QED BY <2>1, <3>2, <4>1
    <3>4. CASE ~(t[i + 1] <= t[g])
      <4>1. \A c \in 1..i : t[c] <= t[i + 1] BY <2>2, <3>1, <3>2, <3>4
      <4>2. \A c \in 1..(i + 1) : t[c] <= t[i + 1] BY <2>2, <2>3, <4>1
      <4>. QED BY <2>1, <4>2
    <3>. QED BY <3>3, <3>4
  <2>. QED BY <2>4, <2>5
<1> HIDE DEF P
<1>4. NumCores \in P
  <2>1. \A i \in 0..NumCores : i \in P BY <1>1, <1>2, <1>3, UpTo
  <2>. QED BY <1>1, <2>1
<1>. QED BY <1>1, <1>4 DEF P

\* If no core is to catch up, none is further behind than the loop tolerates.
LEMMA NobodyLags ==
  ASSUME Inv, \A c \in Core : ~LaggingCore(c)
  PROVE  \A c \in Core : delay[c] <= min_delay
<1>1. delay \in [Core -> Nat] /\ delay \in [Core -> Int] BY DEF Inv, LoopType
<1>2. PICK g \in Core : \A c \in Core : delay[c] <= delay[g] BY <1>1, Furthest
<1> DEFINE F == {c \in Core : delay[c] = delay[g]}
<1>3. F \in SUBSET Nat /\ F # {} /\ g \in F BY Constants
<1>4. PICK f \in F : \A c \in F : f <= c
  <2> HIDE DEF F
  <2>. QED BY <1>3, MinIsLeast, Zenon
<1>5. f \in Core /\ delay[f] = delay[g] BY <1>4
<1>6. ASSUME NEW d \in Core PROVE delay[d] < delay[f] \/ (delay[d] = delay[f] /\ f <= d)
  <2>1. delay[d] \in Nat /\ delay[g] \in Nat /\ delay[d] <= delay[g] BY <1>1, <1>2
  <2>2. CASE delay[d] = delay[g] BY <2>2, <1>4, <1>5
  <2>3. CASE delay[d] # delay[g] BY <2>1, <2>3, <1>5
  <2>. QED BY <2>2, <2>3
<1>7. ~(delay[f] > min_delay) BY <1>5, <1>6 DEF LaggingCore
<1> HIDE DEF F
<1> SUFFICES ASSUME NEW c \in Core PROVE delay[c] <= min_delay OBVIOUS
<1>8. delay[c] \in Nat /\ delay[g] \in Nat /\ delay[c] <= delay[g] BY <1>1, <1>2
<1>. QED BY <1>5, <1>7, <1>8, Constants

--------------------------------------------------------------------------------
(* The invariant: how far the cores are apart in each phase of the loop. *)

\* The time at which a core is, and what the loop takes for it: of a timer that counts
\* as sane in the middle of a slice, because a state was loaded, only the start of it.
Time(c) == executed_ticks[c] + Elapsed(c)
Times   == [c \in Core |-> Time(c)]
Tainted(c) == is_timer_sane[c] /\ Elapsed(c) # 0
Clean   == \A c \in Core : ~Tainted(c)
Seen(c) == IF Tainted(c) THEN executed_ticks[c] ELSE Time(c)

Bound == Apart[loads]

\* What held before the last load, and by how much a timer may be wrong since.
Old  == Apart[loads - 1]
Lost == Apart[loads - 1] + Over(NumCores)

SlicesOK ==
  /\ \A c \in Core : slice_length[c] <= Bound + Over(NumCores - 1)
  /\ phase = "lagging" => \A c \in Core : delay[c] <= Bound + Over(NumCores - 1)
  /\ phase \in {"top", "lagging"} => max_slice <= MAX_SLICE_LENGTH

\* R: where the core furthest ahead was when the state was loaded.
LoadedTop(R) ==
  /\ loads \in 1..MaxLoads /\ Floor(Times, R, Old)
  /\ \A x \in Core : /\ Time(x) <= Seen(x) + Lost
                     /\ Tainted(x) => Time(x) <= R
                     /\ \A g \in Core : Time(x) + Seen(g) - Seen(x) <= R + Lost + Overshoot
TopOK == phase = "top" => Spread(Times, Bound) /\ (Clean \/ \E R \in Int : LoadedTop(R))

\* G: what the loop takes for the time of the core furthest ahead.
CleanLag(G) == Clean /\ \A c \in Core : Time(c) + delay[c] = G
LoadedLag(R, G) ==
  /\ loads \in 1..MaxLoads /\ Floor(Times, R, Old)
  /\ \A c \in Core : /\ Time(c) + delay[c] <= R + Lost + Overshoot
                     /\ G <= Time(c) + delay[c] /\ Time(c) + delay[c] <= G + Lost
                     /\ Tainted(c) => Time(c) <= R /\ executed_ticks[c] + delay[c] = G
LagOK ==
  phase = "lagging" =>
    /\ Spread(Times, Bound) /\ \E g \in Core : delay[g] = 0
    /\ \A c \in Core : c < core /\ delay[c] > 0 =>
         Elapsed(c) = 0 /\ slice_length[c] <= delay[c] /\ ~is_timer_sane[c]
    /\ (\E G \in Int : CleanLag(G)) \/ \E R, G \in Int : LoadedLag(R, G)

AllOK ==
  phase = "all" =>
    /\ \E H \in Int : \A c \in Core :
         H <= Time(c) /\ Time(c) <= H + Bound - MAX_SLICE_LENGTH
    /\ \A c \in Core : c < core => Elapsed(c) = 0 /\ slice_length[c] <= 0
    /\ max_slice <= MAX_SLICE_LENGTH

RunAllOK ==
  phase = "run_all" =>
    /\ \E H \in Int : \A c \in Core :
         H <= executed_ticks[c] /\ executed_ticks[c] <= H + Bound - MAX_SLICE_LENGTH
    /\ \A c \in Core : /\ Elapsed(c) <= MAX_SLICE_LENGTH + Over(c)
                       /\ c > core => Elapsed(c) = 0
    /\ \A c, i \in Core : i < c => Elapsed(c) <= Elapsed(i) + Over(c - i)
    /\ slice_length[core] <= MAX_SLICE_LENGTH + Over(core - 1)
    /\ \A i \in Core : i < core => slice_length[core] <= Elapsed(i) + Over((core - 1) - i)

\* Before the core that runs alone began to.
Started == [Times EXCEPT ![core] = executed_ticks[core]]
Limit   == executed_ticks[core] + slice_length[core]

CleanOne(g) ==
  /\ Clean /\ Spread(Started, Bound) /\ g # core /\ Limit <= Time(g)
  /\ \A d \in Core : executed_ticks[core] <= Time(d)
LoadedOne(R) ==
  /\ loads \in 1..MaxLoads /\ Floor(Times, R, Old) /\ Clean /\ Limit <= R + Lost + Overshoot
  /\ \A x \in Core \ {core} : Time(x) <= R + Lost + Overshoot
TaintedOne(R, G) ==
  /\ loads \in 1..MaxLoads /\ Floor(Times, R, Old) /\ G <= R /\ Limit <= G + Lost
  /\ ~is_timer_sane[core]
  /\ \A x \in Core \ {core} : /\ Time(x) <= G + Lost
                              /\ Tainted(x) => executed_ticks[x] = G /\ Time(x) <= R
RunOneOK ==
  phase = "run_one" => \/ \E g \in Core : CleanOne(g)
                       \/ \E R \in Int : LoadedOne(R)
                       \/ \E R, G \in Int : TaintedOne(R, G)

Apace == SlicesOK /\ TopOK /\ LagOK /\ AllOK /\ RunAllOK /\ RunOneOK

--------------------------------------------------------------------------------
(* Times. *)

TimeFacts ==
  /\ Times \in [Core -> Int]
  /\ \A c \in Core :
       /\ executed_ticks[c] \in Int /\ slice_length[c] \in Nat /\ downcount[c] \in Int
       /\ Elapsed(c) \in Nat /\ Elapsed(c) <= slice_length[c] + Overshoot
       /\ Time(c) \in Int /\ Times[c] = Time(c) /\ Time(c) = executed_ticks[c] + Elapsed(c)
       /\ Seen(c) \in Int /\ Seen(c) = GetTicks(c) /\ Seen(c) <= Time(c)
       /\ executed_ticks[c] <= Seen(c)

LEMMA TimeIs == Inv => TimeFacts
<1> SUFFICES ASSUME Inv PROVE TimeFacts OBVIOUS
<1>1. ASSUME NEW c \in Core
      PROVE  /\ executed_ticks[c] \in Int /\ slice_length[c] \in Nat /\ downcount[c] \in Int
             /\ Elapsed(c) \in Nat /\ Elapsed(c) <= slice_length[c] + Overshoot
             /\ Time(c) \in Int /\ Time(c) = executed_ticks[c] + Elapsed(c)
             /\ Seen(c) \in Int /\ Seen(c) = GetTicks(c) /\ Seen(c) <= Time(c)
             /\ executed_ticks[c] <= Seen(c)
  <2>1. /\ executed_ticks[c] \in Int /\ slice_length[c] \in Nat /\ downcount[c] \in Int
        /\ Elapsed(c) \in Nat /\ Elapsed(c) <= slice_length[c] + Overshoot
        /\ is_timer_sane[c] \in BOOLEAN
    BY TimesAre
  <2>2. GetTicks(c) = executed_ticks[c] + IF is_timer_sane[c] THEN 0 ELSE Elapsed(c)
    BY DEF GetTicks, Elapsed
  <2>3. CASE is_timer_sane[c] BY <2>1, <2>2, <2>3 DEF Time, Seen, Tainted
  <2>4. CASE ~is_timer_sane[c] BY <2>1, <2>2, <2>4 DEF Time, Seen, Tainted
  <2>. QED BY <2>1, <2>3, <2>4
<1>2. Times \in [Core -> Int] /\ \A c \in Core : Times[c] = Time(c) BY <1>1 DEF Times
<1>. QED BY <1>1, <1>2 DEF TimeFacts

LEMMA NextTimeIs == Inv' => TimeFacts'
BY TimeIs, PTL

BoundFacts ==
  /\ Bound \in Nat /\ Bound >= MAX_SLICE_LENGTH + min_delay
  /\ loads \in 1..MaxLoads => /\ Old \in Nat /\ Old >= MAX_SLICE_LENGTH + min_delay
                              /\ Lost \in Nat /\ Lost = Old + Over(NumCores)
                              /\ Bound = Old + Lost + 2 * Overshoot

LEMMA BoundIs == Inv => BoundFacts
<1> SUFFICES ASSUME Inv PROVE BoundFacts OBVIOUS
<1>1. loads \in 0..MaxLoads /\ NumCores \in Nat BY Constants DEF Inv, LoopType
<1>2. Over(NumCores) \in Nat BY <1>1, OverIs
<1>3. Bound \in Nat /\ Bound >= MAX_SLICE_LENGTH + min_delay BY <1>1, ApartStep DEF Bound
<1>4. ASSUME loads \in 1..MaxLoads
      PROVE  /\ Old \in Nat /\ Old >= MAX_SLICE_LENGTH + min_delay
             /\ Lost \in Nat /\ Lost = Old + Over(NumCores)
             /\ Bound = Old + Lost + 2 * Overshoot
  <2>1. /\ loads - 1 \in 0..MaxLoads
        /\ Apart[loads] = Apart[loads - 1] + (Apart[loads - 1] + Over(NumCores)) + 2 * Overshoot
    BY <1>4, ApartStep
  <2>2. Apart[loads - 1] \in Nat /\ Apart[loads - 1] >= MAX_SLICE_LENGTH + min_delay
    BY <2>1, ApartStep
  <2>. QED BY <2>1, <2>2, <1>2 DEF Old, Lost, Bound
<1>. QED BY <1>3, <1>4 DEF BoundFacts

LEMMA NextBoundIs == Inv' => BoundFacts'
BY BoundIs, PTL

LEMMA OverAll ==
  /\ Over(NumCores) \in Nat /\ Over(NumCores - 1) \in Nat /\ Overshoot \in Nat
  /\ Over(NumCores) = Over(NumCores - 1) + Overshoot
<1>1. NumCores - 1 \in Nat /\ NumCores \in Nat /\ (NumCores - 1) + 1 = NumCores BY Constants
<1>2. Over((NumCores - 1) + 1) = Over(NumCores - 1) + Overshoot BY <1>1, OverIs
<1>. QED BY <1>1, <1>2, OverIs, Constants

\* A core is within a bound of the others.
LEMMA SpreadClose ==
  ASSUME Inv, Spread(Times, Bound)
  PROVE  \A c, d \in Core : Time(c) - Time(d) <= Bound + Over(NumCores - 1)
<1> SUFFICES ASSUME NEW c \in Core, NEW d \in Core
             PROVE  Time(c) - Time(d) <= Bound + Over(NumCores - 1)
  OBVIOUS
<1>1. TimeFacts /\ BoundFacts BY TimeIs, BoundIs
<1>2. Floor(Times, Times[c], Bound) BY DEF Spread
<1>3. /\ Times \in [Core -> Int] /\ Times[c] = Time(c) /\ Times[d] = Time(d) /\ Time(c) \in Int
      /\ Bound \in Int
  BY <1>1 DEF TimeFacts, BoundFacts
<1>4. Times[c] - Times[d] <= Bound + Over(NumCores - 1) BY <1>2, <1>3, FloorClose
<1>. QED BY <1>3, <1>4

\* All cores within an interval are in step.
LEMMA SpreadWhere ==
  ASSUME NEW t \in [Core -> Int], NEW R \in Int, NEW w \in Int, NEW z \in Int, Floor(t, R, w),
         \A x \in Core : t[x] + w <= R + z
  PROVE  Spread(t, z)
<1> SUFFICES ASSUME NEW x \in Core PROVE Floor(t, t[x], z) BY DEF Spread
<1>1. t[x] \in Int /\ t[x] + w <= R + z OBVIOUS
<1>. QED BY <1>1, FloorRaised

--------------------------------------------------------------------------------
(* Steps that leave the times alone. *)

\* Nothing but the length of a slice changes, which may get shorter.
LEMMA QuietStep ==
  ASSUME Apace, Inv, Inv', phase' = phase, core' = core, delay' = delay, max_slice' = max_slice,
         loads' = loads, executed_ticks' = executed_ticks, is_timer_sane' = is_timer_sane,
         \A c \in Core : Elapsed(c)' = Elapsed(c) /\ slice_length'[c] <= slice_length[c]
  PROVE  Apace'
<1>1. /\ \A c \in Core : Time(c)' = Time(c) /\ (Tainted(c)' <=> Tainted(c)) /\ Seen(c)' = Seen(c)
      /\ Times' = Times /\ (Clean' <=> Clean) /\ Bound' = Bound /\ Old' = Old /\ Lost' = Lost
  <2>1. \A c \in Core : Time(c)' = Time(c) BY DEF Time
  <2>2. \A c \in Core : Tainted(c)' <=> Tainted(c) BY DEF Tainted
  <2>3. \A c \in Core : Seen(c)' = Seen(c) BY <2>1, <2>2 DEF Seen
  <2>. QED BY <2>1, <2>2, <2>3 DEF Times, Clean, Bound, Old, Lost
<1>2. /\ TimeFacts /\ TimeFacts' /\ BoundFacts BY TimeIs, NextTimeIs, BoundIs
<1>3. \A c \in Core : slice_length[c] \in Nat /\ slice_length'[c] \in Nat /\ executed_ticks[c] \in Int
      /\ Elapsed(c) \in Nat
  BY <1>2 DEF TimeFacts
<1>4. SlicesOK'
  <2>1. Bound + Over(NumCores - 1) \in Int BY <1>2, OverAll DEF BoundFacts
  <2> HIDE DEF Bound
  <2>2. ASSUME NEW c \in Core PROVE slice_length'[c] <= Bound + Over(NumCores - 1)
    <3>1. slice_length[c] <= Bound + Over(NumCores - 1) BY DEF Apace, SlicesOK
    <3>. QED BY <2>1, <3>1, <1>3
  <2>. QED BY <2>2, <1>1 DEF Apace, SlicesOK
<1>5. TopOK' BY <1>1 DEF Apace, TopOK, LoadedTop
<1>6. LagOK'
  <2> SUFFICES ASSUME phase = "lagging" PROVE LagOK' BY DEF LagOK
  <2>1. /\ Spread(Times, Bound) /\ \E g \in Core : delay[g] = 0
        /\ \A c \in Core : c < core /\ delay[c] > 0 =>
             Elapsed(c) = 0 /\ slice_length[c] <= delay[c] /\ ~is_timer_sane[c]
        /\ (\E G \in Int : CleanLag(G)) \/ \E R, G \in Int : LoadedLag(R, G)
    BY DEF Apace, LagOK
  <2>2. ASSUME NEW c \in Core, c < core, delay[c] > 0
        PROVE  Elapsed(c) = 0 /\ slice_length'[c] <= delay[c] /\ ~is_timer_sane[c]
    <3>1. Elapsed(c) = 0 /\ slice_length[c] <= delay[c] /\ ~is_timer_sane[c] BY <2>1, <2>2
    <3>2. delay[c] \in Nat BY DEF Inv, LoopType
    <3>. QED BY <3>1, <3>2, <1>3
  <2>3. \A G \in Int : CleanLag(G) => CleanLag(G)' BY <1>1 DEF CleanLag
  <2>4. \A R, G \in Int : LoadedLag(R, G) => LoadedLag(R, G)' BY <1>1 DEF LoadedLag
  <2>. QED BY <1>1, <2>1, <2>2, <2>3, <2>4 DEF LagOK
<1>7. AllOK'
  <2> SUFFICES ASSUME phase = "all" PROVE AllOK' BY DEF AllOK
  <2>1. ASSUME NEW c \in Core, c < core PROVE Elapsed(c) = 0 /\ slice_length'[c] <= 0
    <3>1. Elapsed(c) = 0 /\ slice_length[c] <= 0 BY <2>1 DEF Apace, AllOK
    <3>. QED BY <3>1, <1>3
  <2>. QED BY <1>1, <2>1 DEF Apace, AllOK
<1>8. RunAllOK'
  <2> SUFFICES ASSUME phase = "run_all" PROVE RunAllOK' BY DEF RunAllOK
  <2>1. core \in Core /\ core - 1 \in Nat BY Constants DEF Inv, LoopOK, Core
  <2>2. slice_length'[core] <= MAX_SLICE_LENGTH + Over(core - 1)
    <3>1. slice_length[core] <= MAX_SLICE_LENGTH + Over(core - 1) BY DEF Apace, RunAllOK
    <3>2. MAX_SLICE_LENGTH + Over(core - 1) \in Int BY <2>1, OverIs, Constants
    <3>. QED BY <3>1, <3>2, <2>1, <1>3
  <2>3. ASSUME NEW i \in Core, i < core
        PROVE  slice_length'[core] <= Elapsed(i) + Over((core - 1) - i)
    <3>1. slice_length[core] <= Elapsed(i) + Over((core - 1) - i) BY <2>3 DEF Apace, RunAllOK
    <3>2. i \in Nat /\ core \in Nat /\ (core - 1) - i \in Nat BY <2>1, <2>3, Constants
    <3>3. Elapsed(i) + Over((core - 1) - i) \in Int BY <3>2, <1>3, OverIs
    <3>. QED BY <3>1, <3>3, <2>1, <1>3
  <2>. QED BY <1>1, <2>2, <2>3 DEF Apace, RunAllOK
<1>9. RunOneOK'
  <2> SUFFICES ASSUME phase = "run_one" PROVE RunOneOK' BY DEF RunOneOK
  <2>1. core \in Core BY DEF Inv, LoopOK
  <2>2. Limit' <= Limit /\ Limit \in Int /\ Limit' \in Int /\ Started' = Started
    BY <2>1, <1>1, <1>3 DEF Limit, Started
  <2>3. ASSUME NEW g \in Core, CleanOne(g) PROVE CleanOne(g)'
    <3>1. Limit' <= Time(g)
      <4>1. Time(g) \in Int /\ Limit <= Time(g) BY <2>3, <1>2 DEF TimeFacts, CleanOne
      <4>. QED BY <4>1, <2>2
    <3>. QED BY <3>1, <2>2, <2>3, <1>1 DEF CleanOne
  <2>4. ASSUME NEW R \in Int, LoadedOne(R) PROVE LoadedOne(R)'
    <3>1. Limit' <= R + Lost + Overshoot
      <4>1. Lost \in Nat /\ Limit <= R + Lost + Overshoot BY <2>4, <1>2 DEF BoundFacts, LoadedOne
      <4>. QED BY <4>1, <2>2, OverAll
    <3>. QED BY <3>1, <2>2, <2>4, <1>1 DEF LoadedOne
  <2>5. ASSUME NEW R \in Int, NEW G \in Int, TaintedOne(R, G) PROVE TaintedOne(R, G)'
    <3>1. Limit' <= G + Lost
      <4>1. Lost \in Nat /\ Limit <= G + Lost BY <2>5, <1>2 DEF BoundFacts, TaintedOne
      <4>. QED BY <4>1, <2>2
    <3>. QED BY <3>1, <2>2, <2>5, <1>1 DEF TaintedOne
  <2>. QED BY <2>3, <2>4, <2>5 DEF Apace, RunOneOK
<1>. QED BY <1>4, <1>5, <1>6, <1>7, <1>8, <1>9 DEF Apace

--------------------------------------------------------------------------------
(* The start, and the top of the loop. *)

LEMMA StartApace == Init => Apace
<1> SUFFICES ASSUME Init PROVE Apace OBVIOUS
<1>1. Inv BY StartInv
<1>2. TimeFacts /\ BoundFacts BY <1>1, TimeIs, BoundIs
<1>3. \A c \in Core : /\ slice_length[c] = MAX_SLICE_LENGTH /\ downcount[c] = MAX_SLICE_LENGTH
                      /\ executed_ticks[c] = 0
  BY DEF Init
<1>4. \A c \in Core : Elapsed(c) = 0 /\ Time(c) = 0 BY <1>3, Constants DEF Elapsed, Time
<1>5. SlicesOK
  <2>1. phase # "lagging" /\ max_slice <= MAX_SLICE_LENGTH BY Constants DEF Init
  <2>2. MAX_SLICE_LENGTH <= Bound + Over(NumCores - 1)
    BY <1>2, OverAll, Constants DEF BoundFacts
  <2>. QED BY <1>3, <2>1, <2>2 DEF SlicesOK
<1>6. Clean BY <1>4 DEF Clean, Tainted
<1>7. Spread(Times, Bound)
  <2> SUFFICES ASSUME NEW x \in Core, NEW v \in Int, NEW d \in Core, Times[d] <= v
               PROVE  Times[x] - v <= Bound + Over(Count(Times, v))
    BY DEF Spread, Floor
  <2>1. Times \in [Core -> Int] /\ Times[x] = 0 /\ Times[d] = 0 BY <1>2, <1>4 DEF TimeFacts
  <2>2. Over(Count(Times, v)) \in Nat /\ Bound \in Nat BY <1>2, <2>1, CountIs DEF BoundFacts
  <2>. QED BY <2>1, <2>2
<1>8. phase = "top" BY DEF Init
<1>. QED BY <1>5, <1>6, <1>7, <1>8 DEF Apace, TopOK, LagOK, AllOK, RunAllOK, RunOneOK

LEMMA LoopTopApace == ASSUME Inv, Inv', Apace, LoopTop PROVE Apace'
<1>1. /\ phase = "top" /\ phase' = "lagging" /\ core' = 1 /\ max_slice' = max_slice
      /\ executed_ticks' = executed_ticks /\ slice_length' = slice_length
      /\ downcount' = downcount /\ is_timer_sane' = is_timer_sane /\ loads' = loads
  BY DEF LoopTop, ticks_vars
<1>2. TimeFacts /\ BoundFacts BY TimeIs, BoundIs
<1>3. PICK g \in Core : delay' = [c \in Core |-> Seen(g) - Seen(c)]
  <2>1. PICK g \in Core : delay' = [c \in Core |-> GetTicks(g) - GetTicks(c)] BY DEF LoopTop
  <2>2. \A c \in Core : Seen(c) = GetTicks(c) BY <1>2 DEF TimeFacts
  <2>. QED BY <2>1, <2>2
<1>4. /\ \A c \in Core : /\ Time(c)' = Time(c) /\ (Tainted(c)' <=> Tainted(c))
                         /\ Elapsed(c)' = Elapsed(c)
      /\ Times' = Times /\ (Clean' <=> Clean) /\ Bound' = Bound /\ Old' = Old /\ Lost' = Lost
  BY <1>1 DEF Time, Elapsed, Tainted, Times, Clean, Bound, Old, Lost
<1>5. \A c \in Core : /\ delay'[c] = Seen(g) - Seen(c) /\ Time(c) \in Int /\ Seen(c) \in Int
                      /\ Seen(c) <= Time(c)
  BY <1>2, <1>3 DEF TimeFacts
<1>6. Spread(Times, Bound) /\ (Clean \/ \E R \in Int : LoadedTop(R)) BY <1>1 DEF Apace, TopOK
<1>7. delay'[g] = 0 BY <1>5
<1>8. \A c \in Core : ~(c < core') BY <1>1 DEF Core
<1>9. CASE Clean
  <2>1. \A c \in Core : Seen(c) = Time(c) BY <1>9 DEF Clean, Seen
  <2>2. CleanLag(Time(g))'
    <3>1. ASSUME NEW c \in Core PROVE Time(c) + delay'[c] = Time(g) BY <1>5, <2>1
    <3>. QED BY <3>1, <1>4, <1>9 DEF CleanLag
  <2>3. \E G \in Int : CleanLag(G)'
    <3>1. Time(g)' = Time(g) BY <1>4
    <3>2. \A G : G = Time(g)' => CleanLag(G)' BY <2>2 DEF CleanLag
    <3>. QED BY <3>1, <3>2, <1>5
  <2>4. LagOK' BY <1>4, <1>6, <1>7, <1>8, <2>3 DEF LagOK
  <2>5. ASSUME NEW c \in Core PROVE delay'[c] <= Bound + Over(NumCores - 1)
    BY <1>5, <1>6, <2>1, SpreadClose
  <2>6. SlicesOK' BY <1>1, <1>4, <2>5 DEF Apace, SlicesOK
  <2>. QED BY <1>1, <2>4, <2>6 DEF Apace, TopOK, AllOK, RunAllOK, RunOneOK
<1>10. CASE ~Clean
  <2>1. PICK R \in Int : LoadedTop(R) BY <1>6, <1>10
  <2>2. /\ loads \in 1..MaxLoads /\ Floor(Times, R, Old)
        /\ \A x \in Core : /\ Time(x) <= Seen(x) + Lost
                           /\ Tainted(x) => Time(x) <= R
                           /\ Time(x) + Seen(g) - Seen(x) <= R + Lost + Overshoot
    BY <2>1 DEF LoadedTop
  <2>3. Lost \in Nat /\ Old \in Nat /\ Bound = Old + Lost + 2 * Overshoot
    BY <2>2, <1>2 DEF BoundFacts
  <2>4. ASSUME NEW c \in Core
        PROVE  /\ Time(c) + delay'[c] <= R + Lost + Overshoot
               /\ Seen(g) <= Time(c) + delay'[c] /\ Time(c) + delay'[c] <= Seen(g) + Lost
               /\ Tainted(c) => Time(c) <= R /\ executed_ticks[c] + delay'[c] = Seen(g)
    <3>1. Tainted(c) => Seen(c) = executed_ticks[c] BY DEF Seen
    <3>2. /\ Time(c) + delay'[c] <= R + Lost + Overshoot
          /\ Seen(g) <= Time(c) + delay'[c] /\ Time(c) + delay'[c] <= Seen(g) + Lost
      BY <2>2, <2>3, <1>5, OverAll
    <3>3. Seen(c) + delay'[c] = Seen(g) BY <1>5
    <3>. QED BY <3>1, <3>2, <3>3, <2>2
  <2>5. LoadedLag(R, Seen(g))'
    <3>1. \A G : G = Seen(g) => LoadedLag(R, G)' BY <2>2, <2>4, <1>1, <1>4 DEF LoadedLag
    <3>2. Seen(g)' = Seen(g) BY <1>1, <1>4 DEF Seen
    <3>. QED BY <3>1, <3>2 DEF LoadedLag
  <2>6. \E G \in Int : LoadedLag(R, G)'
    <3>1. \A G : G = Seen(g) => LoadedLag(R, G)' BY <2>2, <2>4, <1>1, <1>4 DEF LoadedLag
    <3>. QED BY <3>1, <1>5
  <2>7. LagOK' BY <1>4, <1>6, <1>7, <1>8, <2>6 DEF LagOK
  <2>8. ASSUME NEW c \in Core PROVE delay'[c] <= Bound + Over(NumCores - 1)
    <3>1. Times \in [Core -> Int] /\ Times[c] = Time(c) BY <1>2 DEF TimeFacts
    <3>2. R - Times[c] <= Old + Over(NumCores - 1) BY <2>2, <2>3, <3>1, FloorClose
    <3>3. Time(c) + delay'[c] <= R + Lost + Overshoot BY <2>4
    <3>. QED BY <3>1, <3>2, <3>3, <2>3, <1>5, OverAll
  <2>9. SlicesOK' BY <1>1, <1>4, <2>8 DEF Apace, SlicesOK
  <2>. QED BY <1>1, <2>7, <2>9 DEF Apace, TopOK, AllOK, RunAllOK, RunOneOK
<1>. QED BY <1>9, <1>10

--------------------------------------------------------------------------------
(* The cores that are behind. *)

\* The times stay, and no timer is tainted that was not.
LEMMA LagFrame ==
  ASSUME Inv, Apace, phase = "lagging", delay' = delay, loads' = loads,
         \A c \in Core : /\ Time(c)' = Time(c)
                         /\ Tainted(c)' => Tainted(c) /\ executed_ticks'[c] = executed_ticks[c]
  PROVE  /\ Spread(Times, Bound)' /\ \E g \in Core : delay'[g] = 0
         /\ (\E G \in Int : CleanLag(G)') \/ \E R, G \in Int : LoadedLag(R, G)'
         /\ \A c \in Core : delay'[c] <= Bound' + Over(NumCores - 1)
<1>1. Times' = Times /\ Bound' = Bound /\ Old' = Old /\ Lost' = Lost
  BY DEF Times, Bound, Old, Lost
<1>2. /\ Spread(Times, Bound) /\ \E g \in Core : delay[g] = 0
      /\ (\E G \in Int : CleanLag(G)) \/ \E R, G \in Int : LoadedLag(R, G)
      /\ \A c \in Core : delay[c] <= Bound + Over(NumCores - 1)
  BY DEF Apace, LagOK, SlicesOK
<1>3. \A G \in Int : CleanLag(G) => CleanLag(G)' BY DEF CleanLag, Clean
<1>4. \A R, G \in Int : LoadedLag(R, G) => LoadedLag(R, G)' BY <1>1 DEF LoadedLag
<1>. QED BY <1>1, <1>2, <1>3, <1>4

LEMMA NotLaggingApace == ASSUME Inv, Inv', Apace, NotLagging PROVE Apace'
<1>1. /\ phase = "lagging" /\ phase' = phase /\ core \in Core /\ core' = core + 1 /\ delay' = delay
      /\ delay[core] = 0 /\ max_slice' = max_slice
      /\ executed_ticks' = executed_ticks /\ slice_length' = slice_length
      /\ downcount' = downcount /\ is_timer_sane' = is_timer_sane /\ loads' = loads
  BY DEF NotLagging, ticks_vars
<1>2. \A c \in Core : /\ Time(c)' = Time(c) /\ Elapsed(c)' = Elapsed(c)
                      /\ Tainted(c)' <=> Tainted(c)
  BY <1>1 DEF Time, Elapsed, Tainted
<1>3. /\ Spread(Times, Bound)' /\ \E g \in Core : delay'[g] = 0
      /\ (\E G \in Int : CleanLag(G)') \/ \E R, G \in Int : LoadedLag(R, G)'
      /\ \A c \in Core : delay'[c] <= Bound' + Over(NumCores - 1)
  BY <1>1, <1>2, LagFrame
<1>4. ASSUME NEW c \in Core, c < core', delay'[c] > 0
      PROVE  Elapsed(c)' = 0 /\ slice_length'[c] <= delay'[c] /\ ~is_timer_sane'[c]
  <2>1. c # core /\ c < core BY <1>1, <1>4, Constants
  <2>. QED BY <2>1, <1>1, <1>2, <1>4 DEF Apace, LagOK
<1>5. LagOK' BY <1>3, <1>4 DEF LagOK
<1>6. SlicesOK' BY <1>1, <1>3 DEF Apace, SlicesOK, Bound
<1>. QED BY <1>1, <1>5, <1>6 DEF Apace, TopOK, AllOK, RunAllOK, RunOneOK

LEMMA LaggingAdvancedApace == ASSUME Inv, Inv', Apace, LaggingAdvanced PROVE Apace'
<1>1. /\ phase = "lagging" /\ phase' = phase /\ Fired /\ SetNextSlice(core, delay[core])
      /\ is_timer_sane' = [is_timer_sane EXCEPT ![core] = FALSE]
      /\ core' = core + 1 /\ executed_ticks' = executed_ticks /\ delay' = delay /\ loads' = loads
      /\ max_slice' = max_slice
  BY DEF LaggingAdvanced
<1>2. /\ core \in Core /\ Firing /\ slice_length[core] = 0 /\ downcount[core] = 0
      /\ \A e \in event_queue[core] : e.time >= executed_ticks[core]
  BY <1>1, FiredIs DEF Inv, LoopOK
<1>3. delay[core] \in Nat /\ is_timer_sane \in [Core -> BOOLEAN]
      /\ slice_length \in [Core -> Int] /\ downcount \in [Core -> Int]
  BY <1>2 DEF Inv, LoopType, TicksType
<1>4. PICK s \in Shortest(core, delay[core]) :
        /\ slice_length' = [slice_length EXCEPT ![core] = s]
        /\ downcount' = [downcount EXCEPT ![core] = s]
  BY <1>1 DEF SetNextSlice
<1>5. s \in Nat /\ s <= delay[core] BY <1>2, <1>3, ShortestIs
<1>6. /\ slice_length'[core] = s /\ downcount'[core] = s /\ ~is_timer_sane'[core]
      /\ \A c \in Core \ {core} : /\ slice_length'[c] = slice_length[c]
                                  /\ downcount'[c] = downcount[c]
                                  /\ is_timer_sane'[c] = is_timer_sane[c]
  BY <1>1, <1>2, <1>3, <1>4
<1>7. Elapsed(core) = 0 BY <1>2 DEF Elapsed
<1>8. ASSUME NEW c \in Core
      PROVE  /\ Time(c)' = Time(c) /\ Elapsed(c)' = Elapsed(c) /\ (Tainted(c)' => Tainted(c))
  <2>1. CASE c = core
    <3>1. Elapsed(c) = 0 /\ (slice_length'[c] - downcount'[c]) = 0 BY <2>1, <1>5, <1>6, <1>7
    <3>2. Elapsed(c)' = 0 BY <3>1 DEF Elapsed
    <3>. QED BY <2>1, <3>1, <3>2, <1>1, <1>6 DEF Time, Tainted
  <2>2. CASE c # core BY <2>2, <1>1, <1>6 DEF Time, Elapsed, Tainted
  <2>. QED BY <2>1, <2>2
<1>9. /\ Spread(Times, Bound)' /\ \E g \in Core : delay'[g] = 0
      /\ (\E G \in Int : CleanLag(G)') \/ \E R, G \in Int : LoadedLag(R, G)'
      /\ \A c \in Core : delay'[c] <= Bound' + Over(NumCores - 1)
  BY <1>1, <1>8, LagFrame
<1>10. ASSUME NEW c \in Core, c < core', delay'[c] > 0
       PROVE  Elapsed(c)' = 0 /\ slice_length'[c] <= delay'[c] /\ ~is_timer_sane'[c]
  <2>1. CASE c = core BY <2>1, <1>1, <1>5, <1>6, <1>7, <1>8
  <2>2. CASE c # core
    <3>1. c < core BY <2>2, <1>1, <1>2, <1>10, Constants
    <3>. QED BY <3>1, <2>2, <1>1, <1>6, <1>8, <1>10 DEF Apace, LagOK
  <2>. QED BY <2>1, <2>2
<1>11. LagOK' BY <1>9, <1>10 DEF LagOK
<1>12. SlicesOK'
  <2>1. Bound' = Bound BY <1>1 DEF Bound
  <2>2. Bound \in Nat BY BoundIs DEF BoundFacts
  <2>3. ASSUME NEW c \in Core PROVE slice_length'[c] <= Bound + Over(NumCores - 1)
    <3>1. CASE c = core
      <4>1. delay[core] <= Bound + Over(NumCores - 1) BY <1>1, <1>2 DEF Apace, SlicesOK
      <4>. QED BY <3>1, <4>1, <1>3, <1>5, <1>6, <2>2, OverAll
    <3>2. CASE c # core BY <3>2, <1>6 DEF Apace, SlicesOK
    <3>. QED BY <3>1, <3>2
  <2>. QED BY <2>1, <2>3, <1>1, <1>9 DEF Apace, SlicesOK
<1>. QED BY <1>1, <1>11, <1>12 DEF Apace, TopOK, AllOK, RunAllOK, RunOneOK

\* Advancing turns what has elapsed into executed ticks.
LEMMA AdvanceApace == ASSUME Inv, Inv', Apace, Advance PROVE Apace'
<1>1. /\ step = "advance" /\ core \in Core /\ phase' = phase /\ core' = core /\ delay' = delay
      /\ max_slice' = max_slice /\ loads' = loads
      /\ executed_ticks' = [executed_ticks EXCEPT ![core] = @ + Elapsed(core)]
      /\ slice_length' = [slice_length EXCEPT ![core] = 0]
      /\ downcount' = [downcount EXCEPT ![core] = 0]
      /\ is_timer_sane' = [is_timer_sane EXCEPT ![core] = TRUE]
  BY DEF Advance
<1>2. TimeFacts /\ BoundFacts BY TimeIs, BoundIs
<1>3. /\ executed_ticks \in [Core -> Int] /\ slice_length \in [Core -> Int]
      /\ downcount \in [Core -> Int] /\ is_timer_sane \in [Core -> BOOLEAN]
  BY DEF Inv, TicksType
<1>4. /\ executed_ticks'[core] = executed_ticks[core] + Elapsed(core) /\ slice_length'[core] = 0
      /\ downcount'[core] = 0
      /\ \A c \in Core \ {core} : /\ slice_length'[c] = slice_length[c]
                                  /\ downcount'[c] = downcount[c]
                                  /\ is_timer_sane'[c] = is_timer_sane[c]
                                  /\ executed_ticks'[c] = executed_ticks[c]
  BY <1>1, <1>3
<1>5. ASSUME NEW c \in Core
      PROVE  /\ Time(c)' = Time(c) /\ (c # core => Elapsed(c)' = Elapsed(c))
             /\ Tainted(c)' => Tainted(c) /\ executed_ticks'[c] = executed_ticks[c]
  <2>1. CASE c = core
    <3>1. slice_length'[c] - downcount'[c] = 0 BY <2>1, <1>4
    <3>2. Elapsed(c)' = 0 BY <3>1 DEF Elapsed
    <3>3. Time(c)' = executed_ticks[c] + Elapsed(c) + 0 BY <2>1, <3>2, <1>4 DEF Time
    <3>4. executed_ticks[c] \in Int /\ Elapsed(c) \in Int BY <1>2 DEF TimeFacts
    <3>. QED BY <2>1, <3>2, <3>3, <3>4 DEF Time, Tainted
  <2>2. CASE c # core BY <2>2, <1>4 DEF Time, Elapsed, Tainted
  <2>. QED BY <2>1, <2>2
<1>6. phase \in {"lagging", "all"} BY <1>1 DEF Inv, LoopOK
<1>7. Bound' = Bound BY <1>1 DEF Bound
<1>8. SlicesOK'
  <2>1. ASSUME NEW c \in Core PROVE slice_length'[c] <= Bound + Over(NumCores - 1)
    <3>1. CASE c = core BY <3>1, <1>2, <1>4, OverAll DEF BoundFacts
    <3>2. CASE c # core BY <3>2, <1>4 DEF Apace, SlicesOK
    <3>. QED BY <3>1, <3>2
  <2>. QED BY <2>1, <1>1, <1>7 DEF Apace, SlicesOK
<1>9. \A c \in Core : c < core => c # core BY <1>1, Constants
<1>10. CASE phase = "lagging"
  <2>1. /\ Spread(Times, Bound)' /\ \E g \in Core : delay'[g] = 0
        /\ (\E G \in Int : CleanLag(G)') \/ \E R, G \in Int : LoadedLag(R, G)'
        /\ \A c \in Core : delay'[c] <= Bound' + Over(NumCores - 1)
    BY <1>1, <1>5, <1>10, LagFrame
  <2>2. ASSUME NEW c \in Core, c < core', delay'[c] > 0
        PROVE  Elapsed(c)' = 0 /\ slice_length'[c] <= delay'[c] /\ ~is_timer_sane'[c]
    <3>1. c \in Core \ {core} /\ c < core /\ delay[c] > 0 BY <2>2, <1>1, <1>9
    <3>2. Elapsed(c) = 0 /\ slice_length[c] <= delay[c] /\ ~is_timer_sane[c]
      BY <3>1, <1>10 DEF Apace, LagOK
    <3>. QED BY <3>1, <3>2, <1>1, <1>4, <1>5
  <2>3. LagOK' BY <2>1, <2>2 DEF LagOK
  <2>. QED BY <2>3, <1>1, <1>8, <1>10 DEF Apace, TopOK, AllOK, RunAllOK, RunOneOK
<1>11. CASE phase = "all"
  <2>1. ASSUME NEW c \in Core, c < core' PROVE Elapsed(c)' = 0 /\ slice_length'[c] <= 0
    <3>1. c \in Core \ {core} /\ c < core BY <2>1, <1>1, <1>9
    <3>2. Elapsed(c) = 0 /\ slice_length[c] <= 0 BY <3>1, <1>11 DEF Apace, AllOK
    <3>. QED BY <3>1, <3>2, <1>4, <1>5
  <2>2. AllOK' BY <2>1, <1>1, <1>5, <1>7, <1>11 DEF Apace, AllOK
  <2>. QED BY <2>2, <1>1, <1>8, <1>11 DEF Apace, TopOK, LagOK, RunAllOK, RunOneOK
<1>. QED BY <1>6, <1>10, <1>11

\* The core furthest behind is to run to where the others are.
LEMMA CatchUpApace == ASSUME Inv, Inv', Apace, CatchUp PROVE Apace'
<1>1. /\ phase = "lagging" /\ phase' = "run_one" /\ core = NumCores + 1
      /\ executed_ticks' = executed_ticks /\ slice_length' = slice_length
      /\ downcount' = downcount /\ is_timer_sane' = is_timer_sane /\ loads' = loads
  BY DEF CatchUp, ticks_vars
<1>2. PICK c \in Core : LaggingCore(c) /\ core' = c BY DEF CatchUp
<1>3. TimeFacts /\ BoundFacts BY TimeIs, BoundIs
<1>4. /\ \A d \in Core : delay[d] \in Nat /\ delay[d] <= delay[c]
      /\ delay[c] > 0 /\ \A d \in Core : d < core
  <2>1. \A d \in Core : delay[d] \in Nat BY DEF Inv, LoopType
  <2>2. \A d \in Core : d < core BY <1>1, Constants DEF Core
  <2>. QED BY <2>1, <2>2, <1>2, Constants DEF LaggingCore
<1>5. Elapsed(c) = 0 /\ slice_length[c] <= delay[c] /\ ~is_timer_sane[c]
  BY <1>1, <1>4 DEF Apace, LagOK
<1>6. /\ \A d \in Core : Time(d)' = Time(d) /\ (Tainted(d)' <=> Tainted(d))
      /\ Times' = Times /\ (Clean' <=> Clean) /\ Bound' = Bound /\ Old' = Old /\ Lost' = Lost
  BY <1>1 DEF Time, Elapsed, Tainted, Times, Clean, Bound, Old, Lost
<1>7. executed_ticks[c] = Time(c) /\ Times[c] = Time(c) /\ Times \in [Core -> Int]
  BY <1>3, <1>5 DEF TimeFacts
<1>8. Started' = Times BY <1>1, <1>2, <1>6, <1>7 DEF Started
<1>9. /\ Limit' = Time(c) + slice_length[c] /\ Limit' \in Int /\ Limit' <= Time(c) + delay[c]
      /\ \A d \in Core : Time(d) \in Int
  <2>1. Limit' = executed_ticks[c] + slice_length[c] BY <1>1, <1>2 DEF Limit
  <2>2. Time(c) \in Int /\ slice_length[c] \in Nat /\ \A d \in Core : Time(d) \in Int
    BY <1>3 DEF TimeFacts
  <2>. QED BY <2>1, <2>2, <1>4, <1>5, <1>7
<1>10. SlicesOK' BY <1>1, <1>6 DEF Apace, SlicesOK
<1>11. Spread(Times, Bound) BY <1>1 DEF Apace, LagOK
<1>12. ASSUME NEW G \in Int, CleanLag(G) PROVE RunOneOK'
  <2>1. PICK g \in Core : delay[g] = 0 BY <1>1 DEF Apace, LagOK
  <2>2. g # c BY <2>1, <1>4
  <2>3. \A d \in Core : Time(d) + delay[d] = G BY <1>12 DEF CleanLag
  <2>4. Limit' <= Time(g) BY <2>1, <2>3, <1>9
  <2>5. \A d \in Core : Time(c) <= Time(d) BY <2>3, <1>4, <1>9
  <2>6. CleanOne(g)'
    BY <2>2, <2>4, <2>5, <1>1, <1>2, <1>6, <1>7, <1>8, <1>11, <1>12 DEF CleanOne, CleanLag
  <2>. QED BY <2>6 DEF RunOneOK
<1>13. ASSUME NEW R \in Int, NEW G \in Int, LoadedLag(R, G) PROVE RunOneOK'
  <2>1. /\ loads \in 1..MaxLoads /\ Floor(Times, R, Old)
        /\ \A x \in Core : /\ Time(x) + delay[x] <= R + Lost + Overshoot
                           /\ Time(x) + delay[x] <= G + Lost
                           /\ Tainted(x) => Time(x) <= R /\ executed_ticks[x] + delay[x] = G
    BY <1>13 DEF LoadedLag
  <2>2. Lost \in Nat /\ Overshoot \in Nat BY <2>1, <1>3, OverAll DEF BoundFacts
  <2>3. /\ Limit' <= R + Lost + Overshoot /\ Limit' <= G + Lost
        /\ \A x \in Core : Time(x) <= R + Lost + Overshoot /\ Time(x) <= G + Lost
    BY <2>1, <2>2, <1>4, <1>9
  <2>4. ASSUME NEW x \in Core, Tainted(x)
        PROVE  executed_ticks[x] = G /\ Time(x) <= R /\ G <= R
    <3>1. delay[x] = 0
      <4>1. delay[x] > 0 => Elapsed(x) = 0 BY <1>1, <1>4 DEF Apace, LagOK
      <4>. QED BY <4>1, <2>4, <1>4 DEF Tainted
    <3>2. executed_ticks[x] \in Int /\ executed_ticks[x] <= Time(x) /\ Time(x) \in Int
      BY <1>3 DEF TimeFacts
    <3>. QED BY <2>1, <2>4, <3>1, <3>2
  <2>5. CASE Clean
    <3>1. LoadedOne(R)' BY <2>1, <2>3, <2>5, <1>1, <1>6 DEF LoadedOne
    <3>. QED BY <3>1 DEF RunOneOK
  <2>6. CASE ~Clean
    <3>1. G <= R BY <2>4, <2>6 DEF Clean
    <3>2. TaintedOne(R, G)'
      BY <3>1, <2>1, <2>3, <2>4, <1>1, <1>2, <1>5, <1>6 DEF TaintedOne
    <3>. QED BY <3>2 DEF RunOneOK
  <2>. QED BY <2>5, <2>6
<1>14. RunOneOK' BY <1>1, <1>12, <1>13 DEF Apace, LagOK
<1>. QED BY <1>1, <1>10, <1>14 DEF Apace, TopOK, LagOK, AllOK, RunAllOK

\* No core is far behind.
LEMMA AdvanceAllApace == ASSUME Inv, Inv', Apace, AdvanceAll PROVE Apace'
<1>1. /\ phase = "lagging" /\ phase' = "all" /\ core' = 1 /\ max_slice' = max_slice
      /\ executed_ticks' = executed_ticks /\ slice_length' = slice_length
      /\ downcount' = downcount /\ is_timer_sane' = is_timer_sane /\ loads' = loads
      /\ \A c \in Core : ~LaggingCore(c)
  BY DEF AdvanceAll, ticks_vars
<1>2. TimeFacts /\ BoundFacts BY TimeIs, BoundIs
<1>3. \A c \in Core : delay[c] \in Nat /\ delay[c] <= min_delay /\ Time(c) \in Int
  BY <1>1, <1>2, NobodyLags DEF Inv, LoopType, TimeFacts
<1>4. (\A d \in Core : Time(d)' = Time(d)) /\ Bound' = Bound
  BY <1>1 DEF Time, Elapsed, Bound
<1>5. /\ Bound \in Nat /\ Bound >= MAX_SLICE_LENGTH + min_delay
      /\ MAX_SLICE_LENGTH \in Nat /\ min_delay \in Nat /\ Overshoot \in Nat
  BY <1>2, Constants DEF BoundFacts
<1>6. \E H \in Int : \A c \in Core : H <= Time(c) /\ Time(c) <= H + Bound - MAX_SLICE_LENGTH
  <2>1. ASSUME NEW G \in Int, CleanLag(G) PROVE <1>6!:
    <3>1. \A c \in Core : Time(c) + delay[c] = G BY <2>1 DEF CleanLag
    <3>2. G - min_delay \in Int BY <1>5
    <3>3. ASSUME NEW c \in Core
          PROVE  G - min_delay <= Time(c) /\ Time(c) <= (G - min_delay) + Bound - MAX_SLICE_LENGTH
      BY <3>1, <1>3, <1>5
    <3>. QED BY <3>2, <3>3
  <2>2. ASSUME NEW R \in Int, NEW G \in Int, LoadedLag(R, G) PROVE <1>6!:
    <3>1. /\ loads \in 1..MaxLoads
          /\ \A c \in Core : G <= Time(c) + delay[c] /\ Time(c) + delay[c] <= G + Lost
      BY <2>2 DEF LoadedLag
    <3>2. /\ Lost \in Nat /\ Old \in Nat /\ Old >= MAX_SLICE_LENGTH + min_delay
          /\ Bound = Old + Lost + 2 * Overshoot
      BY <3>1, <1>2 DEF BoundFacts
    <3>3. G - min_delay \in Int BY <1>5
    <3>4. ASSUME NEW c \in Core
          PROVE  G - min_delay <= Time(c) /\ Time(c) <= (G - min_delay) + Bound - MAX_SLICE_LENGTH
      BY <3>1, <3>2, <1>3, <1>5
    <3>. QED BY <3>3, <3>4
  <2>. QED BY <1>1, <2>1, <2>2 DEF Apace, LagOK
<1>7. \A c \in Core : ~(c < core') BY <1>1 DEF Core
<1>8. max_slice' <= MAX_SLICE_LENGTH BY <1>1 DEF Apace, SlicesOK
<1>9. AllOK' BY <1>1, <1>4, <1>6, <1>7, <1>8 DEF AllOK
<1>10. SlicesOK' BY <1>1, <1>4 DEF Apace, SlicesOK
<1>. QED BY <1>1, <1>9, <1>10 DEF Apace, TopOK, LagOK, RunAllOK, RunOneOK

--------------------------------------------------------------------------------
(* All cores advance and run. *)

LEMMA CoreAdvancedApace == ASSUME Inv, Inv', Apace, CoreAdvanced PROVE Apace'
<1>1. /\ phase = "all" /\ phase' = phase /\ Fired /\ max_slice' \in Shortest(core, max_slice)
      /\ core' = core + 1 /\ executed_ticks' = executed_ticks /\ slice_length' = slice_length
      /\ downcount' = downcount /\ loads' = loads
  BY DEF CoreAdvanced
<1>2. /\ core \in Core /\ slice_length[core] = 0 /\ downcount[core] = 0
      /\ \A e \in event_queue[core] : e.time >= executed_ticks[core]
  BY <1>1, FiredIs DEF Inv, LoopOK
<1>3. max_slice \in Nat BY DEF Inv, LoopType
<1>4. max_slice' \in Nat /\ max_slice' <= max_slice BY <1>1, <1>2, <1>3, ShortestIs
<1>5. max_slice' <= MAX_SLICE_LENGTH BY <1>1, <1>3, <1>4, Constants DEF Apace, AllOK
<1>6. (\A d \in Core : Time(d)' = Time(d) /\ Elapsed(d)' = Elapsed(d)) /\ Bound' = Bound
  BY <1>1 DEF Time, Elapsed, Bound
<1>7. ASSUME NEW c \in Core, c < core' PROVE Elapsed(c)' = 0 /\ slice_length'[c] <= 0
  <2>1. CASE c = core
    <3>1. Elapsed(c) = 0 BY <2>1, <1>2 DEF Elapsed
    <3>. QED BY <2>1, <3>1, <1>1, <1>2, <1>6
  <2>2. CASE c # core
    <3>1. c < core BY <2>2, <1>1, <1>2, <1>7, Constants
    <3>. QED BY <3>1, <1>1, <1>6 DEF Apace, AllOK
  <2>. QED BY <2>1, <2>2
<1>8. AllOK' BY <1>1, <1>5, <1>6, <1>7 DEF Apace, AllOK
<1>9. SlicesOK' BY <1>1, <1>6 DEF Apace, SlicesOK
<1>. QED BY <1>1, <1>8, <1>9 DEF Apace, TopOK, LagOK, RunAllOK, RunOneOK

LEMMA RunFirstApace == ASSUME Inv, Inv', Apace, RunFirst PROVE Apace'
<1>1. /\ phase = "all" /\ phase' = "run_all" /\ core = NumCores + 1 /\ core' = 1
      /\ SetNextSlice(1, max_slice) /\ executed_ticks' = executed_ticks /\ loads' = loads
  BY DEF RunFirst
<1>2. TimeFacts /\ BoundFacts BY TimeIs, BoundIs
<1>3. \A c \in Core : c < core BY <1>1, Constants DEF Core
<1>4. \A c \in Core : Elapsed(c) = 0 /\ slice_length[c] <= 0 BY <1>1, <1>3 DEF Apace, AllOK
<1>5. 1 \in Core /\ max_slice \in Nat /\ max_slice <= MAX_SLICE_LENGTH /\ MAX_SLICE_LENGTH \in Nat
  BY <1>1, Constants DEF Inv, LoopType, Apace, AllOK
<1>6. \A e \in event_queue[1] : e.time >= executed_ticks[1]
  <2>1. ~is_timer_sane[1] BY <1>1, <1>3, <1>5 DEF Inv, SaneOK
  <2>. QED BY <2>1, <1>5, NotOverdue
<1>7. PICK s \in Shortest(1, max_slice) : /\ slice_length' = [slice_length EXCEPT ![1] = s]
                                          /\ downcount' = [downcount EXCEPT ![1] = s]
  BY <1>1 DEF SetNextSlice
<1>8. s \in Nat /\ s <= MAX_SLICE_LENGTH
  <2>1. s \in Nat /\ s <= max_slice BY <1>5, <1>6, ShortestIs
  <2>. QED BY <2>1, <1>5
<1>9. /\ slice_length'[1] = s /\ downcount'[1] = s
      /\ \A c \in Core \ {1} : slice_length'[c] = slice_length[c] /\ downcount'[c] = downcount[c]
  BY <1>5, <1>7 DEF Inv, TicksType
<1>10. ASSUME NEW c \in Core PROVE Elapsed(c)' = 0
  <2>1. CASE c = 1
    <3>1. slice_length'[c] - downcount'[c] = 0 BY <2>1, <1>8, <1>9
    <3>. QED BY <3>1 DEF Elapsed
  <2>2. CASE c # 1 BY <2>2, <1>4, <1>9 DEF Elapsed
  <2>. QED BY <2>1, <2>2
<1>11. Bound' = Bound /\ Bound \in Nat /\ Bound >= MAX_SLICE_LENGTH + min_delay
  BY <1>1, <1>2 DEF Bound, BoundFacts
<1>12. SlicesOK'
  <2>1. ASSUME NEW c \in Core PROVE slice_length'[c] <= Bound + Over(NumCores - 1)
    <3>1. CASE c = 1 BY <3>1, <1>5, <1>8, <1>9, <1>11, OverAll, Constants
    <3>2. CASE c # 1 BY <3>2, <1>9 DEF Apace, SlicesOK
    <3>. QED BY <3>1, <3>2
  <2>. QED BY <2>1, <1>1, <1>11 DEF SlicesOK
<1>13. RunAllOK'
  <2>1. \E H \in Int : \A c \in Core :
          H <= executed_ticks[c] /\ executed_ticks[c] <= H + Bound - MAX_SLICE_LENGTH
    <3>1. \A c \in Core : Time(c) = executed_ticks[c] BY <1>2, <1>4 DEF TimeFacts
    <3>. QED BY <3>1, <1>1 DEF Apace, AllOK
  <2>2. ASSUME NEW c \in Core PROVE 0 <= MAX_SLICE_LENGTH + Over(c)
    <3>1. c \in Nat BY Constants
    <3>2. Over(c) \in Nat BY <3>1, OverIs
    <3>. QED BY <3>2, <1>5
  <2>3. ASSUME NEW c \in Core, NEW i \in Core, i < c PROVE 0 <= 0 + Over(c - i)
    <3>1. c - i \in Nat BY <2>3, Constants
    <3>. QED BY <3>1, OverIs
  <2>4. s <= MAX_SLICE_LENGTH + Over(1 - 1)
    <3>1. Over(1 - 1) = 0 BY OverIs
    <3>. QED BY <3>1, <1>5, <1>8
  <2>5. \A i \in Core : ~(i < 1) BY DEF Core
  <2> SUFFICES /\ \E H \in Int : \A c \in Core :
                    H <= executed_ticks[c] /\ executed_ticks[c] <= H + Bound - MAX_SLICE_LENGTH
               /\ \A c \in Core : Elapsed(c)' <= MAX_SLICE_LENGTH + Over(c) /\ Elapsed(c)' = 0
               /\ \A c, i \in Core : i < c => Elapsed(c)' <= Elapsed(i)' + Over(c - i)
               /\ slice_length'[1] <= MAX_SLICE_LENGTH + Over(1 - 1)
               /\ \A i \in Core : ~(i < 1)
    BY <1>1, <1>11 DEF RunAllOK
  <2>. QED BY <2>1, <2>2, <2>3, <2>4, <2>5, <1>9, <1>10
<1>. QED BY <1>1, <1>12, <1>13 DEF Apace, TopOK, LagOK, AllOK, RunOneOK

LEMMA RunNextApace == ASSUME Inv, Inv', Apace, RunNext PROVE Apace'
<1> DEFINE n == core + 1
<1>1. /\ phase = "run_all" /\ phase' = phase /\ core < NumCores /\ core' = n
      /\ SetNextSlice(n, Elapsed(core)) /\ executed_ticks' = executed_ticks /\ loads' = loads
  BY DEF RunNext
<1>2. TimeFacts /\ BoundFacts BY TimeIs, BoundIs
<1>3. core \in Core /\ core \in Nat /\ n \in Core /\ n \in Nat /\ n - 1 = core /\ core - 1 \in Nat
      /\ NumCores - 1 \in Nat /\ core <= NumCores - 1
  BY <1>1, Constants DEF Inv, LoopOK, Core
<1> HIDE DEF n
<1>4. Elapsed(core) \in Nat BY <1>2, <1>3 DEF TimeFacts
<1>5. \A e \in event_queue[n] : e.time >= executed_ticks[n]
  <2>1. ~is_timer_sane[n] BY <1>1, <1>3 DEF Inv, SaneOK
  <2>. QED BY <2>1, <1>3, NotOverdue
<1>6. PICK s \in Shortest(n, Elapsed(core)) : /\ slice_length' = [slice_length EXCEPT ![n] = s]
                                              /\ downcount' = [downcount EXCEPT ![n] = s]
  BY <1>1 DEF SetNextSlice
<1>7. s \in Nat /\ s <= Elapsed(core) BY <1>3, <1>4, <1>5, ShortestIs
<1>8. /\ slice_length'[n] = s /\ downcount'[n] = s
      /\ \A c \in Core \ {n} : slice_length'[c] = slice_length[c] /\ downcount'[c] = downcount[c]
  BY <1>3, <1>6 DEF Inv, TicksType
<1>9. /\ \A c \in Core : /\ Elapsed(c) <= MAX_SLICE_LENGTH + Over(c)
                         /\ c > core => Elapsed(c) = 0
      /\ \A c, i \in Core : i < c => Elapsed(c) <= Elapsed(i) + Over(c - i)
      /\ \E H \in Int : \A c \in Core :
           H <= executed_ticks[c] /\ executed_ticks[c] <= H + Bound - MAX_SLICE_LENGTH
  BY <1>1 DEF Apace, RunAllOK
<1>10. ASSUME NEW c \in Core PROVE Elapsed(c)' = Elapsed(c)
  <2>1. CASE c = n
    <3>1. slice_length'[c] - downcount'[c] = 0 BY <2>1, <1>7, <1>8
    <3>2. c > core BY <2>1, <1>3 DEF n
    <3>3. Elapsed(c) = 0 BY <3>2, <1>9
    <3>. QED BY <3>1, <3>3 DEF Elapsed
  <2>2. CASE c # n BY <2>2, <1>8 DEF Elapsed
  <2>. QED BY <2>1, <2>2
<1>11. Bound' = Bound /\ Bound \in Nat /\ Bound >= MAX_SLICE_LENGTH + min_delay
  BY <1>1, <1>2 DEF Bound, BoundFacts
<1>12. s <= MAX_SLICE_LENGTH + Over(core) /\ Over(core) \in Nat /\ Over(core) <= Over(NumCores - 1)
  <2>1. Elapsed(core) <= MAX_SLICE_LENGTH + Over(core) BY <1>3, <1>9
  <2>2. Over(core) \in Nat /\ Over(core) <= Over(NumCores - 1) BY <1>3, OverIs
  <2>. QED BY <2>1, <2>2, <1>4, <1>7, Constants
<1>13. SlicesOK'
  <2>1. ASSUME NEW c \in Core PROVE slice_length'[c] <= Bound + Over(NumCores - 1)
    <3>1. CASE c = n BY <3>1, <1>7, <1>8, <1>11, <1>12, OverAll, Constants
    <3>2. CASE c # n BY <3>2, <1>8 DEF Apace, SlicesOK
    <3>. QED BY <3>1, <3>2
  <2>. QED BY <2>1, <1>1, <1>11 DEF SlicesOK
<1>14. ASSUME NEW i \in Core, i < n PROVE s <= Elapsed(i) + Over((n - 1) - i)
  <2>1. i \in Nat /\ core - i \in Nat /\ Elapsed(i) \in Nat
    BY <1>2, <1>3, <1>14, Constants DEF n, TimeFacts
  <2>2. Over(core - i) \in Nat BY <2>1, OverIs
  <2>3. Elapsed(core) <= Elapsed(i) + Over(core - i)
    <3>1. CASE i = core BY <3>1, <2>1, <2>2
    <3>2. CASE i # core
      <4>1. i < core BY <3>2, <2>1, <1>3
      <4>. QED BY <4>1, <1>3, <1>9
    <3>. QED BY <3>1, <3>2
  <2>. QED BY <2>1, <2>2, <2>3, <1>3, <1>4, <1>7
<1>15. \A c \in Core : c > n => Elapsed(c) = 0
  <2>1. \A c \in Core : c > n => c > core BY <1>3, Constants DEF n
  <2>. QED BY <2>1, <1>9
<1>16. RunAllOK' BY <1>1, <1>3, <1>8, <1>9, <1>10, <1>11, <1>12, <1>14, <1>15 DEF RunAllOK
<1>. QED BY <1>1, <1>13, <1>16 DEF Apace, TopOK, LagOK, AllOK, RunOneOK

\* A core runs on, to the end of its slice or over it.
LEMMA RunApace ==
  ASSUME Inv, Inv', Apace, phase \in {"run_one", "run_all"}, phase' = phase, core' = core,
         loads' = loads, executed_ticks' = executed_ticks, slice_length' = slice_length,
         is_timer_sane' = is_timer_sane,
         \A c \in Core : Elapsed(c) <= Elapsed(c)' /\ (c # core => Elapsed(c)' = Elapsed(c))
  PROVE  Apace'
<1>1. TimeFacts /\ TimeFacts' /\ BoundFacts BY TimeIs, NextTimeIs, BoundIs
<1>2. core \in Core /\ core \in Nat /\ core - 1 \in Nat /\ (core - 1) + 1 = core
  BY Constants DEF Inv, LoopOK, Core
<1>3. \A c \in Core : /\ Elapsed(c) \in Nat /\ Elapsed(c)' \in Nat /\ slice_length[c] \in Nat
                      /\ Elapsed(c)' <= slice_length[c] + Overshoot
                      /\ executed_ticks[c] \in Int /\ Time(c) \in Int /\ Time(c)' \in Int
                      /\ Time(c) <= Time(c)' /\ (c # core => Time(c)' = Time(c))
                      /\ Times[c] = Time(c) /\ Times'[c] = Time(c)'
  BY <1>1 DEF TimeFacts
<1>4. Times \in [Core -> Int] /\ Times' \in [Core -> Int] BY <1>1 DEF TimeFacts
<1>5. Bound' = Bound /\ Old' = Old /\ Lost' = Lost BY DEF Bound, Old, Lost
<1>6. SlicesOK' BY <1>5 DEF Apace, SlicesOK
<1>7. CASE phase = "run_all"
  <2>1. /\ \A c \in Core : /\ Elapsed(c) <= MAX_SLICE_LENGTH + Over(c)
                           /\ c > core => Elapsed(c) = 0
        /\ \A c, i \in Core : i < c => Elapsed(c) <= Elapsed(i) + Over(c - i)
        /\ slice_length[core] <= MAX_SLICE_LENGTH + Over(core - 1)
        /\ \A i \in Core : i < core => slice_length[core] <= Elapsed(i) + Over((core - 1) - i)
    BY <1>7 DEF Apace, RunAllOK
  <2>2. \A c \in Core : c > core => c # core BY <1>2
  <2>3. ASSUME NEW c \in Core PROVE Elapsed(c)' <= MAX_SLICE_LENGTH + Over(c)
    <3>1. CASE c = core
      <4>1. Over(core) = Over(core - 1) + Overshoot /\ Over(core - 1) \in Nat
        <5> DEFINE k == core - 1
        <5>1. k \in Nat /\ k + 1 = core BY <1>2
        <5> HIDE DEF k
        <5>2. Over(k + 1) = Over(k) + Overshoot /\ Over(k) \in Nat BY <5>1, OverIs
        <5>. QED BY <5>1, <5>2 DEF k
      <4>. QED BY <3>1, <4>1, <2>1, <1>2, <1>3, Constants
    <3>2. CASE c # core BY <3>2, <2>1
    <3>. QED BY <3>1, <3>2
  <2>4. ASSUME NEW c \in Core, NEW i \in Core, i < c
        PROVE  Elapsed(c)' <= Elapsed(i)' + Over(c - i)
    <3>1. c \in Nat /\ i \in Nat /\ c - i \in Nat /\ i # c BY <2>4, Constants
    <3>2. Over(c - i) \in Nat BY <3>1, OverIs
    <3>3. CASE c = core
      <4> DEFINE k == (core - 1) - i
      <4>1. k \in Nat /\ k + 1 = c - i BY <3>1, <3>3, <2>4
      <4>2. slice_length[core] <= Elapsed(i) + Over(k) BY <2>1, <2>4, <3>3
      <4> HIDE DEF k
      <4>3. Over(c - i) = Over(k) + Overshoot /\ Over(k) \in Nat BY <4>1, OverIs
      <4>4. Elapsed(i)' = Elapsed(i) BY <3>1, <3>3
      <4>. QED BY <3>3, <4>2, <4>3, <4>4, <1>3, Constants
    <3>4. CASE c # core
      <4>1. Elapsed(c) <= Elapsed(i) + Over(c - i) BY <2>1, <2>4
      <4>2. Elapsed(c)' = Elapsed(c) /\ Elapsed(i) <= Elapsed(i)' BY <3>4
      <4>. QED BY <4>1, <4>2, <3>2, <1>3
    <3>. QED BY <3>3, <3>4
  <2>5. \A i \in Core : i < core => Elapsed(i)' = Elapsed(i) BY <1>2, Constants
  <2>6. RunAllOK' BY <2>1, <2>2, <2>3, <2>4, <2>5, <1>5, <1>7 DEF Apace, RunAllOK
  <2>. QED BY <2>6, <1>6, <1>7 DEF Apace, TopOK, LagOK, AllOK, RunOneOK
<1>8. CASE phase = "run_one"
  <2>1. ~is_timer_sane[core] BY <1>8 DEF Inv, SaneOK
  <2>2. \A c \in Core : Tainted(c)' => Tainted(c) /\ c # core BY <2>1 DEF Tainted
  <2>3. Clean => Clean' BY <2>2 DEF Clean
  <2>4. Started' = Started /\ Limit' = Limit
    <3>1. [Times EXCEPT ![core] = executed_ticks[core]]
            = [Times' EXCEPT ![core] = executed_ticks[core]]
      BY <1>2, <1>3, <1>4
    <3>. QED BY <3>1 DEF Started, Limit
  <2>5. \A R, w \in Int : Floor(Times, R, w) => Floor(Times', R, w)
    BY <1>3, <1>4, FloorGrows
  <2>6. ASSUME NEW g \in Core, CleanOne(g) PROVE CleanOne(g)'
    <3>1. Time(g)' = Time(g) /\ g # core BY <2>6, <1>3 DEF CleanOne
    <3>2. ASSUME NEW d \in Core PROVE executed_ticks[core] <= Time(d)'
      <4>1. executed_ticks[core] <= Time(d) BY <2>6 DEF CleanOne
      <4>. QED BY <4>1, <1>2, <1>3
    <3>. QED BY <3>1, <3>2, <2>3, <2>4, <2>6, <1>5 DEF CleanOne
  <2>7. ASSUME NEW R \in Int, LoadedOne(R) PROVE LoadedOne(R)'
    <3>1. Floor(Times', R, Old)
      <4>1. Old \in Int /\ Floor(Times, R, Old) BY <2>7, <1>1 DEF LoadedOne, BoundFacts
      <4>. QED BY <4>1, <2>5
    <3>. QED BY <3>1, <2>3, <2>4, <2>7, <1>3, <1>5 DEF LoadedOne
  <2>8. ASSUME NEW R \in Int, NEW G \in Int, TaintedOne(R, G) PROVE TaintedOne(R, G)'
    <3>1. Floor(Times', R, Old)
      <4>1. Old \in Int /\ Floor(Times, R, Old) BY <2>8, <1>1 DEF TaintedOne, BoundFacts
      <4>. QED BY <4>1, <2>5
    <3>. QED BY <3>1, <2>2, <2>4, <2>8, <1>3, <1>5 DEF TaintedOne
  <2>9. RunOneOK' BY <2>6, <2>7, <2>8, <1>8 DEF Apace, RunOneOK
  <2>. QED BY <2>9, <1>6, <1>8 DEF Apace, TopOK, LagOK, AllOK, RunAllOK
<1>. QED BY <1>7, <1>8

LEMMA CountedApace ==
  ASSUME Inv, Inv', Apace, phase \in {"run_one", "run_all"}, NEW x \in Int, x <= downcount[core],
         downcount' = [downcount EXCEPT ![core] = x],
         executed_ticks' = executed_ticks, slice_length' = slice_length,
         is_timer_sane' = is_timer_sane, UNCHANGED loop_vars, loads' = loads
  PROVE  Apace'
<1>1. core \in Core /\ downcount \in [Core -> Int] /\ slice_length \in [Core -> Int]
  BY DEF Inv, LoopOK, TicksType
<1>2. ASSUME NEW c \in Core
      PROVE  Elapsed(c) <= Elapsed(c)' /\ (c # core => Elapsed(c)' = Elapsed(c))
  <2>1. CASE c = core
    <3>1. downcount'[c] = x /\ downcount[c] \in Int /\ slice_length[c] \in Int BY <2>1, <1>1
    <3>2. Elapsed(c) = slice_length[c] - downcount[c] /\ Elapsed(c)' = slice_length[c] - x
      BY <3>1 DEF Elapsed
    <3>. QED BY <2>1, <3>1, <3>2
  <2>2. CASE c # core
    <3>1. downcount'[c] = downcount[c] /\ downcount[c] \in Int /\ slice_length[c] \in Int
      BY <2>2, <1>1
    <3>. QED BY <2>2, <3>1 DEF Elapsed
  <2>. QED BY <2>1, <2>2
<1>3. phase' = phase /\ core' = core BY DEF loop_vars
<1>. QED BY <1>2, <1>3, RunApace

LEMMA ExecuteApace == ASSUME Inv, Inv', Apace, NEW n \in Blocks, Execute(n) PROVE Apace'
<1>1. core \in Core BY DEF Execute, Inv, LoopOK
<1>2. downcount[core] \in Int /\ n \in Nat
  <2>1. downcount[core] \in Int BY <1>1, TimesAre
  <2>2. n \in Nat BY TimingAssumption
  <2>. QED BY <2>1, <2>2
<1>3. downcount[core] - n \in Int /\ downcount[core] - n <= downcount[core] BY <1>2
<1>. QED BY <1>3, CountedApace DEF Execute

LEMMA IdleApace == ASSUME Inv, Inv', Apace, Idle PROVE Apace'
<1>1. core \in Core BY DEF Idle, Inv, LoopOK
<1>2. downcount[core] = slice_length[core] /\ slice_length[core] \in Nat
  BY <1>1, TimesAre DEF Idle
<1>3. 0 \in Int /\ 0 <= downcount[core] BY <1>2
<1>. QED BY <1>3, CountedApace DEF Idle

--------------------------------------------------------------------------------
(* The end of the loop, and loading. *)

\* Cores within what the loop tolerates are in step.
LEMMA SpreadNear ==
  ASSUME NEW t \in [Core -> Int], NEW H \in Int, NEW w \in Int,
         \A c \in Core : H <= t[c] /\ t[c] <= H + w - MAX_SLICE_LENGTH
  PROVE  Spread(t, w)
<1> SUFFICES ASSUME NEW x \in Core, NEW v \in Int, NEW d \in Core, t[d] <= v
             PROVE  t[x] - v <= w + Over(Count(t, v))
  BY DEF Spread, Floor
<1>1. Over(Count(t, v)) \in Nat BY CountIs
<1>2. t[x] \in Int /\ t[d] \in Int /\ H <= t[d] /\ t[x] <= H + w - MAX_SLICE_LENGTH OBVIOUS
<1>. QED BY <1>1, <1>2, Constants

LEMMA RunAllSpread == ASSUME Inv, Apace, phase = "run_all" PROVE Spread(Times, Bound)
<1> DEFINE e == [c \in Core |-> Elapsed(c)]
<1>1. TimeFacts /\ BoundFacts BY TimeIs, BoundIs
<1>2. /\ executed_ticks \in [Core -> Int] /\ e \in [Core -> Int] /\ Times \in [Core -> Int]
      /\ Bound \in Int
  BY <1>1 DEF TimeFacts, BoundFacts, Inv, TicksType
<1>3. PICK H \in Int : \A c \in Core :
         H <= executed_ticks[c] /\ executed_ticks[c] <= H + Bound - MAX_SLICE_LENGTH
  BY DEF Apace, RunAllOK
<1>4. /\ \A c \in Core : e[c] = Elapsed(c) /\ e[c] <= MAX_SLICE_LENGTH + Over(c)
      /\ \A c, i \in Core : i < c => e[c] <= e[i] + Over(c - i)
  BY DEF Apace, RunAllOK
<1>5. \A c \in Core : Times[c] = executed_ticks[c] + e[c] /\ e[c] >= 0
  BY <1>1, <1>4 DEF TimeFacts
<1> HIDE DEF e
<1>6. \A c \in Core : /\ Times[c] = executed_ticks[c] + e[c] /\ e[c] >= 0
                      /\ H <= executed_ticks[c]
                      /\ executed_ticks[c] <= H + Bound - MAX_SLICE_LENGTH
                      /\ e[c] <= MAX_SLICE_LENGTH + Over(c)
  BY <1>3, <1>4, <1>5
<1>7. \A c, i \in Core : i < c => e[c] <= e[i] + Over(c - i) BY <1>4
<1>8. InTurn(executed_ticks, e, Times, H, Bound) BY <1>6, <1>7 DEF InTurn
<1>. QED BY <1>2, <1>8, RunInTurn

\* What the core that runs alone leaves.
LEMMA RunOneSpread ==
  ASSUME Inv, Apace, phase = "run_one"
  PROVE  Spread(Times, Bound) /\ (Clean \/ \E R \in Int : LoadedTop(R))
<1>1. TimeFacts /\ BoundFacts BY TimeIs, BoundIs
<1>2. core \in Core /\ ~is_timer_sane[core] BY DEF Inv, LoopOK, SaneOK
<1>3. /\ Times \in [Core -> Int] /\ Bound \in Nat
      /\ \A c \in Core : Times[c] = Time(c) /\ Time(c) \in Int /\ executed_ticks[c] \in Int
                         /\ executed_ticks[c] <= Time(c) /\ Seen(c) <= Time(c) /\ Seen(c) \in Int
  BY <1>1 DEF TimeFacts, BoundFacts
<1>4. Limit \in Int /\ Time(core) <= Limit + Overshoot /\ Overshoot \in Nat
  BY <1>1, <1>2, Constants DEF TimeFacts, Limit
<1>5. ASSUME NEW g \in Core, CleanOne(g) PROVE Spread(Times, Bound) /\ Clean
  <2>1. /\ Started \in [Core -> Int] /\ Started[core] = executed_ticks[core]
        /\ \A x \in Core \ {core} : Started[x] = Times[x]
    BY <1>2, <1>3 DEF Started
  <2>2. g \in Core \ {core} /\ Limit <= Time(g) /\ Spread(Started, Bound)
    BY <1>5 DEF CleanOne
  <2>3. Started[g] = Time(g) /\ Times[core] <= Started[g] + Overshoot
    BY <2>1, <2>2, <1>2, <1>3, <1>4
  <2>4. ASSUME NEW d \in Core PROVE Started[core] <= Started[d]
    <3>1. executed_ticks[core] <= Time(d) BY <1>5 DEF CleanOne
    <3>. QED BY <3>1, <2>1, <1>2, <1>3
  <2>5. Started[core] <= Times[core] BY <2>1, <1>2, <1>3
  <2>6. Spread(Times, Bound)
    BY <2>1, <2>2, <2>3, <2>4, <2>5, <1>2, <1>3, RunAlone
  <2>. QED BY <2>6, <1>5 DEF CleanOne
<1>6. ASSUME NEW R \in Int, LoadedOne(R) PROVE Spread(Times, Bound) /\ Clean
  <2>1. /\ loads \in 1..MaxLoads /\ Floor(Times, R, Old) /\ Clean
        /\ Limit <= R + Lost + Overshoot
        /\ \A x \in Core \ {core} : Time(x) <= R + Lost + Overshoot
    BY <1>6 DEF LoadedOne
  <2>2. Old \in Nat /\ Lost \in Nat /\ Bound = Old + Lost + 2 * Overshoot
    BY <2>1, <1>1 DEF BoundFacts
  <2>3. ASSUME NEW x \in Core PROVE Times[x] + Old <= R + Bound
    <3>1. CASE x = core BY <3>1, <2>1, <2>2, <1>3, <1>4
    <3>2. CASE x # core BY <3>2, <2>1, <2>2, <1>3, <1>4
    <3>. QED BY <3>1, <3>2
  <2>4. Spread(Times, Bound) BY <2>1, <2>2, <2>3, <1>3, SpreadWhere
  <2>. QED BY <2>1, <2>4
<1>7. ASSUME NEW R \in Int, NEW G \in Int, TaintedOne(R, G)
      PROVE  Spread(Times, Bound) /\ LoadedTop(R)
  <2>1. /\ loads \in 1..MaxLoads /\ Floor(Times, R, Old) /\ G <= R /\ Limit <= G + Lost
        /\ \A x \in Core \ {core} : /\ Time(x) <= G + Lost
                                    /\ Tainted(x) => executed_ticks[x] = G /\ Time(x) <= R
    BY <1>7 DEF TaintedOne
  <2>2. Old \in Nat /\ Lost \in Nat /\ Bound = Old + Lost + 2 * Overshoot
    BY <2>1, <1>1 DEF BoundFacts
  <2>3. ASSUME NEW x \in Core
        PROVE  /\ Time(x) <= G + Lost + Overshoot
               /\ Tainted(x) => Seen(x) = G /\ Time(x) <= R /\ Time(x) <= G + Lost
               /\ ~Tainted(x) => Seen(x) = Time(x)
    <3>1. CASE x = core BY <3>1, <2>1, <2>2, <1>2, <1>3, <1>4 DEF Tainted, Seen
    <3>2. CASE x # core BY <3>2, <2>1, <2>2, <1>3, <1>4 DEF Seen
    <3>. QED BY <3>1, <3>2
  <2>4. ASSUME NEW x \in Core PROVE Times[x] + Old <= R + Bound
    BY <2>1, <2>2, <2>3, <1>3, <1>4
  <2>5. Spread(Times, Bound) BY <2>1, <2>2, <2>4, <1>3, SpreadWhere
  <2>6. ASSUME NEW x \in Core
        PROVE  /\ Time(x) <= Seen(x) + Lost /\ (Tainted(x) => Time(x) <= R)
               /\ \A g \in Core : Time(x) + Seen(g) - Seen(x) <= R + Lost + Overshoot
    <3>1. Time(x) <= Seen(x) + Lost BY <2>2, <2>3, <1>3
    <3>2. ASSUME NEW g \in Core PROVE Time(x) + Seen(g) - Seen(x) <= R + Lost + Overshoot
      <4>1. Seen(g) <= G + Lost + Overshoot BY <2>2, <2>3, <1>3, <1>4
      <4>2. CASE Tainted(x) BY <4>1, <4>2, <2>2, <2>3, <1>3, <1>4
      <4>3. CASE ~Tainted(x) BY <4>1, <4>3, <2>1, <2>2, <2>3, <1>3, <1>4
      <4>. QED BY <4>2, <4>3
    <3>. QED BY <3>1, <3>2, <2>3
  <2>. QED BY <2>1, <2>5, <2>6 DEF LoadedTop
<1>. QED BY <1>5, <1>6, <1>7 DEF Apace, RunOneOK

LEMMA ApaceSpread == ASSUME Inv, Apace PROVE Spread(Times, Bound)
<1>1. TimeFacts /\ BoundFacts BY TimeIs, BoundIs
<1>2. CASE phase = "all"
  <2>1. PICK H \in Int : \A c \in Core : H <= Time(c) /\ Time(c) <= H + Bound - MAX_SLICE_LENGTH
    BY <1>2 DEF Apace, AllOK
  <2>2. /\ Times \in [Core -> Int] /\ Bound \in Int
        /\ \A c \in Core : H <= Times[c] /\ Times[c] <= H + Bound - MAX_SLICE_LENGTH
    BY <1>1, <2>1 DEF TimeFacts, BoundFacts
  <2>. QED BY <2>2, SpreadNear
<1>3. CASE phase \in {"top", "lagging"} BY <1>3 DEF Apace, TopOK, LagOK
<1>4. CASE phase = "run_all" BY <1>4, RunAllSpread
<1>5. CASE phase = "run_one" BY <1>5, RunOneSpread
<1>. QED BY <1>2, <1>3, <1>4, <1>5 DEF Inv, LoopType

LEMMA LoopEndsApace == ASSUME Inv, Inv', Apace, LoopEnds PROVE Apace'
<1>1. /\ phase \in {"run_one", "run_all"} /\ phase' = "top" /\ max_slice' = MAX_SLICE_LENGTH
      /\ executed_ticks' = executed_ticks /\ slice_length' = slice_length
      /\ downcount' = downcount /\ is_timer_sane' = is_timer_sane /\ loads' = loads
  BY DEF LoopEnds, ticks_vars
<1>2. /\ \A d \in Core : Time(d)' = Time(d) /\ (Tainted(d)' <=> Tainted(d)) /\ Seen(d)' = Seen(d)
      /\ Times' = Times /\ (Clean' <=> Clean) /\ Bound' = Bound /\ Old' = Old /\ Lost' = Lost
  BY <1>1 DEF Time, Elapsed, Tainted, Seen, Times, Clean, Bound, Old, Lost
<1>3. Spread(Times, Bound) BY ApaceSpread
<1>4. Clean \/ \E R \in Int : LoadedTop(R)
  <2>1. CASE phase = "run_one" BY <2>1, RunOneSpread
  <2>2. CASE phase = "run_all" BY <2>2 DEF Inv, SaneOK, Clean, Tainted
  <2>. QED BY <1>1, <2>1, <2>2
<1>5. \A R \in Int : LoadedTop(R) => LoadedTop(R)' BY <1>1, <1>2 DEF LoadedTop
<1>6. TopOK' BY <1>2, <1>3, <1>4, <1>5 DEF TopOK
<1>7. SlicesOK' BY <1>1, <1>2, Constants DEF Apace, SlicesOK
<1>. QED BY <1>1, <1>6, <1>7 DEF Apace, LagOK, AllOK, RunAllOK, RunOneOK

LEMMA LoadStateApace == ASSUME Inv, Inv', Apace, LoadState PROVE Apace'
<1>1. /\ phase = "top" /\ phase' = phase /\ max_slice' = max_slice
      /\ loads < MaxLoads /\ loads' = loads + 1
      /\ executed_ticks' = executed_ticks /\ slice_length' = slice_length
      /\ downcount' = downcount
  BY DEF LoadState, loop_vars
<1>2. TimeFacts /\ TimeFacts' /\ BoundFacts /\ BoundFacts' BY TimeIs, NextTimeIs, BoundIs, NextBoundIs
<1>3. (\A d \in Core : Time(d)' = Time(d) /\ Elapsed(d)' = Elapsed(d)) /\ Times' = Times
  BY <1>1 DEF Time, Elapsed, Times
<1>4. /\ loads' \in 1..MaxLoads /\ Old' = Bound /\ Lost' = Bound + Over(NumCores)
      /\ Bound' = Bound + Lost' + 2 * Overshoot /\ Bound \in Nat /\ Lost' \in Nat
  <2>1. loads \in 0..MaxLoads /\ loads' - 1 = loads /\ loads' \in 1..MaxLoads
    BY <1>1, Constants DEF Inv, LoopType
  <2>2. Old' = Bound BY <2>1 DEF Old, Bound
  <2>. QED BY <2>1, <2>2, <1>2 DEF BoundFacts
<1>5. Spread(Times, Bound) BY ApaceSpread
<1>6. /\ Times \in [Core -> Int] /\ \A c \in Core : Times[c] = Time(c) /\ Time(c) \in Int
  BY <1>2 DEF TimeFacts
<1>7. Bound <= Bound' /\ Bound' \in Nat BY <1>2, <1>4, OverAll DEF BoundFacts
<1>8. Spread(Times, Bound')
  <2> SUFFICES ASSUME NEW x \in Core PROVE Floor(Times, Times[x], Bound') BY DEF Spread
  <2>1. Floor(Times, Times[x], Bound) /\ Times[x] \in Int BY <1>5, <1>6 DEF Spread
  <2>2. Times[x] + Bound <= Times[x] + Bound' BY <2>1, <1>4, <1>7
  <2>3. Bound \in Int /\ Bound' \in Int BY <1>4, <1>7
  <2>. QED BY <2>1, <2>2, <2>3, <1>6, FloorRaised
<1>9. PICK g \in Core : \A c \in Core : Times[c] <= Times[g] BY <1>6, Furthest
<1>10. ASSUME NEW x \in Core
       PROVE  /\ Time(x)' <= Seen(x)' + Lost' /\ Time(x)' <= Times[g]
              /\ \A d \in Core : Time(x)' + Seen(d)' - Seen(x)' <= Times[g] + Lost' + Overshoot
  <2>1. /\ executed_ticks[x] <= Seen(x)' /\ Seen(x)' \in Int /\ executed_ticks[x] \in Int
        /\ Time(x) = executed_ticks[x] + Elapsed(x) /\ Elapsed(x) <= slice_length[x] + Overshoot
        /\ Elapsed(x) \in Nat /\ slice_length[x] \in Nat
    BY <1>1, <1>2 DEF TimeFacts
  <2>2. slice_length[x] <= Bound + Over(NumCores - 1) BY DEF Apace, SlicesOK
  <2>3. Time(x) <= Seen(x)' + Lost' BY <2>1, <2>2, <1>4, OverAll
  <2>4. ASSUME NEW d \in Core PROVE Time(x) + Seen(d)' - Seen(x)' <= Times[g] + Lost' + Overshoot
    <3>1. Seen(d)' <= Time(d) /\ Seen(d)' \in Int /\ Time(d) <= Times[g] /\ Times[g] \in Int
      BY <1>2, <1>3, <1>6, <1>9 DEF TimeFacts
    <3>. QED BY <3>1, <2>1, <2>3, <1>4, <1>6, OverAll
  <2>. QED BY <2>3, <2>4, <1>3, <1>6, <1>9
<1>11. \E R \in Int : LoadedTop(R)'
  <2>1. Times[g] \in Int /\ Floor(Times, Times[g], Bound) BY <1>5, <1>6 DEF Spread
  <2>2. \A R \in Int : R = Times[g] => LoadedTop(R)'
    BY <2>1, <1>3, <1>4, <1>10 DEF LoadedTop
  <2>. QED BY <2>1, <2>2
<1>12. TopOK' BY <1>3, <1>8, <1>11 DEF TopOK
<1>13. SlicesOK'
  <2>1. ASSUME NEW c \in Core PROVE slice_length'[c] <= Bound' + Over(NumCores - 1)
    <3>1. slice_length[c] <= Bound + Over(NumCores - 1) /\ slice_length[c] \in Nat
      BY <1>2 DEF Apace, SlicesOK, TimeFacts
    <3>. QED BY <3>1, <1>1, <1>4, <1>7, OverAll
  <2>. QED BY <2>1, <1>1 DEF Apace, SlicesOK
<1>. QED BY <1>1, <1>12, <1>13 DEF Apace, LagOK, AllOK, RunAllOK, RunOneOK

--------------------------------------------------------------------------------
(* Every step. *)

\* Steps that only make, move or take away events.
LEMMA StillApace ==
  ASSUME Inv, Inv', Apace, UNCHANGED ticks_vars, phase' = phase, core' = core, delay' = delay,
         max_slice' = max_slice, loads' = loads
  PROVE  Apace'
<1>1. /\ executed_ticks' = executed_ticks /\ slice_length' = slice_length
      /\ downcount' = downcount /\ is_timer_sane' = is_timer_sane
  BY DEF ticks_vars
<1>2. \A c \in Core : Elapsed(c)' = Elapsed(c) BY <1>1 DEF Elapsed
<1>3. \A c \in Core : slice_length'[c] <= slice_length[c]
  <2>1. \A c \in Core : slice_length[c] \in Int BY DEF Inv, TicksType
  <2>. QED BY <1>1, <2>1
<1>. QED BY <1>1, <1>2, <1>3, QuietStep

LEMMA PushApace == ASSUME Inv, Inv', Apace, NEW c, NEW e, Push(c, e) PROVE Apace'
BY StillApace DEF Push, loop_vars

LEMMA ScheduleHereApace == ASSUME Inv, Inv', Apace, NEW d \in Delays, ScheduleHere(d) PROVE Apace'
<1> DEFINE s == EndOfSlice(d)
           x == downcount[core] - (slice_length[core] - s)
<1>1. /\ Emulating /\ slice_length' = [slice_length EXCEPT ![core] = s]
      /\ downcount' = [downcount EXCEPT ![core] = x]
      /\ executed_ticks' = executed_ticks /\ is_timer_sane' = is_timer_sane /\ loads' = loads
      /\ phase' = phase /\ core' = core /\ delay' = delay /\ max_slice' = max_slice
  BY DEF ScheduleHere, loop_vars
<1>2. core \in Core BY <1>1 DEF Emulating, Inv, LoopOK, Firing
<1>3. /\ slice_length \in [Core -> Int] /\ downcount \in [Core -> Int]
      /\ slice_length[core] \in Int /\ downcount[core] \in Int /\ d \in Nat
  BY <1>2, TimingAssumption DEF Inv, TicksType
<1>4. s \in Int /\ s <= slice_length[core] BY <1>3 DEF EndOfSlice
<1> HIDE DEF s
<1>5. x \in Int /\ s - x = slice_length[core] - downcount[core] BY <1>3, <1>4
<1> HIDE DEF x
<1>6. ASSUME NEW c \in Core
      PROVE  Elapsed(c)' = Elapsed(c) /\ slice_length'[c] <= slice_length[c]
  <2>1. CASE c = core
    <3>1. slice_length'[c] = s /\ downcount'[c] = x BY <2>1, <1>1, <1>2, <1>3
    <3>. QED BY <2>1, <3>1, <1>4, <1>5 DEF Elapsed
  <2>2. CASE c # core
    <3>1. slice_length'[c] = slice_length[c] /\ downcount'[c] = downcount[c]
      BY <2>2, <1>1, <1>2, <1>3
    <3>. QED BY <3>1, <1>3 DEF Elapsed
  <2>. QED BY <2>1, <2>2
<1>. QED BY <1>1, <1>6, QuietStep

LEMMA StepApace == Inv /\ Inv' /\ Apace /\ [Next]_vars => Apace'
<1> SUFFICES ASSUME Inv, Inv', Apace, [Next]_vars PROVE Apace' OBVIOUS
<1>1. CASE Loop
  BY <1>1, LoopTopApace, NotLaggingApace, LaggingAdvancedApace, CatchUpApace, AdvanceAllApace,
     CoreAdvancedApace, RunFirstApace, RunNextApace, LoopEndsApace DEF Loop
<1>2. CASE Fire BY <1>2, StillApace DEF Fire
<1>3. CASE CallbackReturns BY <1>3, StillApace DEF CallbackReturns
<1>4. CASE UnscheduleEvent BY <1>4, StillApace DEF UnscheduleEvent, loop_vars
<1>5. CASE UNCHANGED vars BY <1>5, StillApace DEF vars, loop_vars
<1>6. ASSUME NEW c \in Core, NEW d \in Delays, ScheduleThere(c, d) \/ ScheduleFromHost(c, d)
      PROVE  Apace'
  BY <1>6, PushApace DEF ScheduleThere, ScheduleFromHost
<1>7. ASSUME NEW c \in Core, ScheduleEventThreadsafeAt(c) PROVE Apace'
  BY <1>7, PushApace DEF ScheduleEventThreadsafeAt
<1>. QED
  BY <1>1, <1>2, <1>3, <1>4, <1>5, <1>6, <1>7, AdvanceApace, LoadStateApace, IdleApace,
     ExecuteApace, ScheduleHereApace DEF Next

LEMMA AlwaysApace == Spec => []Apace
<1>1. Init => Apace BY StartApace
<1>2. Inv /\ Inv' /\ Apace /\ [Next]_vars => Apace' BY StepApace
<1>. QED BY <1>1, <1>2, AlwaysInv, PTL DEF Spec

\* The cores stay in step: within a slice, the lag that the loop tolerates and an
\* overshoot of each core, as long as no state is loaded; a load at most doubles it.
THEOREM CoresStayInStep == Spec => []CoresInStep
<1>1. Inv /\ Apace => CoresInStep
  <2> SUFFICES ASSUME Inv, Apace, NEW c \in Core, NEW d \in Core
               PROVE  executed_ticks[c] + Elapsed(c) - (executed_ticks[d] + Elapsed(d))
                        <= Apart[loads] + NumCores * Overshoot
    BY DEF CoresInStep
  <2>1. Spread(Times, Bound) BY ApaceSpread
  <2>2. Time(c) - Time(d) <= Bound + Over(NumCores - 1) BY <2>1, SpreadClose
  <2>3. Bound \in Nat /\ Time(c) \in Int /\ Time(d) \in Int
    BY BoundIs, TimeIs DEF BoundFacts, TimeFacts
  <2>4. Time(c) - Time(d) <= Bound + Over(NumCores) BY <2>2, <2>3, OverAll
  <2>5. /\ executed_ticks[c] + Elapsed(c) = Time(c) /\ executed_ticks[d] + Elapsed(d) = Time(d)
        /\ NumCores * Overshoot = Over(NumCores) /\ Apart[loads] = Bound
    BY DEF Time, Bound, Over
  <2>6. \A x \in Core : executed_ticks[x] \in Int /\ Elapsed(x) \in Int BY TimeIs DEF TimeFacts
  <2>7. executed_ticks[c] + Elapsed(c) - (executed_ticks[d] + Elapsed(d)) = Time(c) - Time(d)
    BY <2>5, <2>6
  <2>. QED BY <2>4, <2>5, <2>7
<1>. QED BY <1>1, AlwaysInv, AlwaysApace, PTL

--------------------------------------------------------------------------------
(* The events that come through ts_queue. *)

Queued == {"host", "other"}

\* How far in the future of a timer an event is put into its queue.
Lead(origin) == IF origin = "host" THEN MAX_SLICE_LENGTH ELSE 0

Awaited ==
  \A c \in Core : \A i \in 1..Len(ts_queue[c]) :
    ts_queue[c][i].origin \in Queued =>
      ts_queue[c][i].time >= executed_ticks[c] + Lead(ts_queue[c][i].origin)

\* An event that was moved on the way into a saved state is where it was in ts_queue.
Arrived ==
  \A c \in Core : \A e \in event_queue[c] : e.origin \in Queued =>
    IF core = c /\ Firing THEN e.time >= executed_ticks[c] - LateBy(e.origin)
    ELSE \/ e.time >= executed_ticks[c] + Lead(e.origin)
         \/ e.time >= executed_ticks[c] + slice_length[c]

LEMMA LateIs ==
  ASSUME Inv, NEW o \in Queued
  PROVE  /\ Lead(o) \in Nat /\ LateBy(o) \in Nat
         /\ LateBy(o) = Bound + Over(NumCores) - Lead(o) /\ LateBy(o) >= Overshoot
<1>1. /\ MAX_SLICE_LENGTH \in Nat /\ min_delay \in Nat /\ Overshoot \in Nat
      /\ Over(NumCores) \in Nat /\ Over(NumCores) >= Overshoot
  BY Constants, OverAll
<1>2. Bound \in Nat /\ Bound >= MAX_SLICE_LENGTH + min_delay BY BoundIs DEF BoundFacts
<1>3. LateBy(o) = Bound + Over(NumCores) - Lead(o) BY DEF LateBy, Bound, Over, Lead
<1>4. Lead(o) \in Nat /\ Lead(o) <= MAX_SLICE_LENGTH BY <1>1 DEF Lead
<1>. QED BY <1>1, <1>2, <1>3, <1>4

EventFacts ==
  \A c \in Core : /\ \A e \in event_queue[c] : e.time \in Int
                  /\ \A i \in 1..Len(ts_queue[c]) : ts_queue[c][i].time \in Int

LEMMA EventsAre == Inv => EventFacts
<1> SUFFICES ASSUME Inv, NEW c \in Core
             PROVE  /\ \A e \in event_queue[c] : e.time \in Int
                    /\ \A i \in 1..Len(ts_queue[c]) : ts_queue[c][i].time \in Int
  BY DEF EventFacts
<1>1. event_queue[c] \subseteq Event /\ ts_queue[c] \in Seq(Event) BY DEF Inv, QueueType
<1>2. \A i \in 1..Len(ts_queue[c]) : ts_queue[c][i] \in Event BY <1>1
<1>. QED BY <1>1, <1>2 DEF Event

LEMMA NextEventsAre == Inv' => EventFacts'
BY EventsAre, PTL

LEMMA MovedFrom ==
  ASSUME Inv, NEW c \in Core, NEW f \in Moved(c)
  PROVE  \E i \in 1..Len(ts_queue[c]) :
           f.time = ts_queue[c][i].time /\ f.origin = ts_queue[c][i].origin
<1>1. PICK i \in DOMAIN ts_queue[c] :
        f = [ts_queue[c][i] EXCEPT !.fifo_order = event_fifo_id[c] + i]
  BY DEF Moved
<1>2. ts_queue[c] \in Seq(Event) /\ event_fifo_id[c] \in Nat BY DEF Inv, QueueType
<1>3. i \in 1..Len(ts_queue[c]) /\ ts_queue[c][i] \in Event BY <1>1, <1>2
<1>4. event_fifo_id[c] + i \in Nat BY <1>2, <1>3
<1>. QED BY <1>1, <1>3, <1>4, Stamped

LEMMA MovedLead ==
  ASSUME Inv, Awaited, NEW c \in Core, NEW f \in Moved(c), f.origin \in Queued
  PROVE  f.time >= executed_ticks[c] + Lead(f.origin)
<1>1. PICK i \in 1..Len(ts_queue[c]) :
        f.time = ts_queue[c][i].time /\ f.origin = ts_queue[c][i].origin
  BY MovedFrom
<1>2. ts_queue[c][i].origin \in Queued BY <1>1
<1>3. ts_queue[c][i].time >= executed_ticks[c] + Lead(ts_queue[c][i].origin)
  BY <1>2 DEF Awaited
<1>. QED BY <1>1, <1>3

\* Steps that put no event into a ts_queue and advance no timer.
LEMMA AwaitedFrame ==
  ASSUME Awaited, ts_queue' = ts_queue, executed_ticks' = executed_ticks
  PROVE  Awaited'
BY DEF Awaited, Lead

\* Steps that fire nothing late: a timer that counts now has no event in its slice.
LEMMA ArrivedStep ==
  ASSUME Inv, Inv', Arrived, loads' = loads, executed_ticks' = executed_ticks,
         \A c \in Core :
           \/ ~is_timer_sane'[c] /\ ~(core' = c /\ Firing')
           \/ /\ slice_length'[c] <= slice_length[c]
              /\ (core' = c /\ Firing') <=> (core = c /\ Firing)
              /\ \A e \in event_queue'[c] : e.origin \in Queued => e \in event_queue[c]
  PROVE  Arrived'
<1> SUFFICES ASSUME NEW c \in Core, NEW e \in event_queue'[c], e.origin \in Queued
             PROVE  IF core' = c /\ Firing' THEN e.time >= executed_ticks[c] - LateBy(e.origin)'
                    ELSE \/ e.time >= executed_ticks[c] + Lead(e.origin)
                         \/ e.time >= executed_ticks[c] + slice_length'[c]
  BY DEF Arrived, Lead
<1>1. LateBy(e.origin)' = LateBy(e.origin) BY DEF LateBy
<1>2. CASE ~is_timer_sane'[c] /\ ~(core' = c /\ Firing')
  <2>1. e.time >= executed_ticks[c] + slice_length'[c] BY <1>2 DEF Inv, NoEventInSlice
  <2>. QED BY <2>1, <1>2
<1>3. CASE /\ slice_length'[c] <= slice_length[c]
           /\ (core' = c /\ Firing') <=> (core = c /\ Firing)
           /\ e \in event_queue[c]
  <2>1. IF core = c /\ Firing THEN e.time >= executed_ticks[c] - LateBy(e.origin)
        ELSE \/ e.time >= executed_ticks[c] + Lead(e.origin)
             \/ e.time >= executed_ticks[c] + slice_length[c]
    BY <1>3 DEF Arrived
  <2>2. /\ e.time \in Int /\ executed_ticks[c] \in Int /\ slice_length[c] \in Int
        /\ slice_length'[c] \in Int
    BY <1>3, EventsAre DEF EventFacts, Inv, TicksType
  <2>3. e.time >= executed_ticks[c] + slice_length[c] =>
          e.time >= executed_ticks[c] + slice_length'[c]
    BY <2>2, <1>3
  <2>. QED BY <2>1, <2>3, <1>1, <1>3
<1>. QED BY <1>2, <1>3

\* The steps of the loop.
LEMMA LoopArrived == ASSUME Inv, Inv', Awaited, Arrived, Loop PROVE Awaited' /\ Arrived'
<1>1. /\ ts_queue' = ts_queue /\ executed_ticks' = executed_ticks /\ loads' = loads
      /\ event_queue' = event_queue
  BY DEF Loop, LoopTop, NotLagging, LaggingAdvanced, CatchUp, AdvanceAll, CoreAdvanced, RunFirst,
         RunNext, LoopEnds, ticks_vars, queue_vars
<1>2. Awaited' BY <1>1, AwaitedFrame
<1>3. \A c \in Core : slice_length[c] \in Int BY DEF Inv, TicksType
<1>4. ASSUME LoopTop \/ NotLagging \/ CatchUp \/ AdvanceAll \/ LoopEnds PROVE Arrived'
  <2>1. slice_length' = slice_length
    BY <1>4 DEF LoopTop, NotLagging, CatchUp, AdvanceAll, LoopEnds, ticks_vars
  <2>2. ~Firing /\ ~Firing'
    BY <1>4 DEF LoopTop, NotLagging, CatchUp, AdvanceAll, LoopEnds, Firing, Inv, LoopOK
  <2>. QED BY <1>1, <1>3, <2>1, <2>2, ArrivedStep
<1>5. ASSUME LaggingAdvanced \/ CoreAdvanced PROVE Arrived'
  <2>1. /\ step = "fire" /\ step' = "advance"
        /\ is_timer_sane' = [is_timer_sane EXCEPT ![core] = FALSE]
    BY <1>5 DEF LaggingAdvanced, CoreAdvanced, Fired
  <2>2. core \in Core /\ ~Firing' BY <2>1 DEF Inv, LoopOK, Firing
  <2>3. ~is_timer_sane'[core] BY <2>1, <2>2 DEF Inv, TicksType
  <2>4. ASSUME NEW c \in Core, c # core PROVE slice_length'[c] <= slice_length[c]
    <3>1. slice_length'[c] = slice_length[c]
      BY <1>5, <2>2, <2>4 DEF LaggingAdvanced, CoreAdvanced, SetNextSlice, Inv, TicksType
    <3>. QED BY <3>1, <1>3
  <2>. QED BY <1>1, <2>2, <2>3, <2>4, ArrivedStep
<1>6. ASSUME RunFirst \/ RunNext PROVE Arrived'
  <2>1. phase' = "run_all" BY <1>6 DEF RunFirst, RunNext
  <2>2. ~Firing' /\ \A c \in Core : ~is_timer_sane'[c] BY <2>1 DEF Inv, LoopOK, SaneOK, Firing
  <2>. QED BY <1>1, <2>2, ArrivedStep
<1>. QED BY <1>2, <1>4, <1>5, <1>6 DEF Loop

\* Advancing: what has elapsed is no more than the slice and an overshoot.
LEMMA AdvanceArrived ==
  ASSUME Inv, Inv', Apace, Awaited, Arrived, Advance
  PROVE  Awaited' /\ Arrived'
<1>1. /\ step = "advance" /\ step' = "fire" /\ core \in Core /\ core' = core /\ loads' = loads
      /\ event_queue' = [event_queue EXCEPT ![core] = @ \cup Moved(core)]
      /\ ts_queue' = [ts_queue EXCEPT ![core] = << >>]
      /\ executed_ticks' = [executed_ticks EXCEPT ![core] = @ + Elapsed(core)]
      /\ slice_length' = [slice_length EXCEPT ![core] = 0]
  BY DEF Advance
<1>2. /\ executed_ticks \in [Core -> Int] /\ slice_length \in [Core -> Int]
      /\ event_queue \in [Core -> SUBSET Event] /\ ts_queue \in [Core -> Seq(Event)]
  BY DEF Inv, TicksType, QueueType
<1>3. /\ event_queue'[core] = event_queue[core] \cup Moved(core) /\ ts_queue'[core] = << >>
      /\ executed_ticks'[core] = executed_ticks[core] + Elapsed(core)
      /\ \A c \in Core \ {core} : /\ event_queue'[c] = event_queue[c] /\ ts_queue'[c] = ts_queue[c]
                                  /\ executed_ticks'[c] = executed_ticks[c]
                                  /\ slice_length'[c] = slice_length[c]
  BY <1>1, <1>2
<1>4. Awaited'
  <2> SUFFICES ASSUME NEW c \in Core, NEW i \in 1..Len(ts_queue'[c]),
                      ts_queue'[c][i].origin \in Queued
               PROVE  ts_queue'[c][i].time >= executed_ticks'[c] + Lead(ts_queue'[c][i].origin)
    BY DEF Awaited, Lead
  <2>1. c # core BY <1>3
  <2>. QED BY <2>1, <1>3 DEF Awaited
<1>5. ~Firing /\ Firing' BY <1>1 DEF Firing
<1>6. /\ Elapsed(core) <= Bound + Over(NumCores) /\ Elapsed(core) \in Nat /\ Bound \in Nat
      /\ Elapsed(core) <= slice_length[core] + Overshoot /\ slice_length[core] \in Nat
      /\ executed_ticks[core] \in Int
  <2>1. /\ slice_length[core] \in Nat /\ Elapsed(core) \in Nat
        /\ Elapsed(core) <= slice_length[core] + Overshoot /\ executed_ticks[core] \in Int
    BY <1>1, TimesAre
  <2>2. slice_length[core] <= Bound + Over(NumCores - 1) BY <1>1 DEF Apace, SlicesOK
  <2>3. Bound \in Nat BY BoundIs DEF BoundFacts
  <2>. QED BY <2>1, <2>2, <2>3, OverAll
<1>7. ASSUME NEW e \in event_queue'[core], e.origin \in Queued
      PROVE  e.time >= executed_ticks'[core] - LateBy(e.origin)
  <2>1. \/ e.time >= executed_ticks[core] + Lead(e.origin)
        \/ e.time >= executed_ticks[core] + slice_length[core]
    <3>1. CASE e \in event_queue[core] BY <3>1, <1>1, <1>5, <1>7 DEF Arrived
    <3>2. CASE e \in Moved(core) BY <3>2, <1>1, <1>7, MovedLead
    <3>. QED BY <3>1, <3>2, <1>3, <1>7
  <2>2. e.time \in Int
    <3>1. core \in Core /\ e \in event_queue'[core'] BY <1>1, <1>7
    <3>. QED BY <3>1, <1>1, NextEventsAre DEF EventFacts
  <2>3. /\ Lead(e.origin) \in Nat /\ LateBy(e.origin) \in Nat /\ LateBy(e.origin) >= Overshoot
        /\ LateBy(e.origin) = Bound + Over(NumCores) - Lead(e.origin)
    BY <1>7, LateIs
  <2>4. Over(NumCores) \in Nat /\ Overshoot \in Nat BY OverAll
  <2> DEFINE t == e.time
             l == Lead(e.origin)
             b == LateBy(e.origin)
             x == executed_ticks[core]
             y == Elapsed(core)
  <2>5. t >= (x + y) - b
    <3> HIDE DEF t, l, b, x, y
    <3>1. CASE t >= x + l BY <2>2, <2>3, <2>4, <1>6, <3>1 DEF t, l, b, x, y
    <3>2. CASE t >= x + slice_length[core] BY <2>2, <2>3, <2>4, <1>6, <3>2 DEF t, l, b, x, y
    <3>. QED BY <2>1, <3>1, <3>2 DEF t, l, x
  <2>. QED BY <2>5, <1>3
<1>8. Arrived'
  <2> SUFFICES ASSUME NEW c \in Core, NEW e \in event_queue'[c], e.origin \in Queued
               PROVE  IF core = c THEN e.time >= executed_ticks'[c] - LateBy(e.origin)
                      ELSE \/ e.time >= executed_ticks'[c] + Lead(e.origin)
                           \/ e.time >= executed_ticks'[c] + slice_length'[c]
    <3>1. \A o : LateBy(o)' = LateBy(o) BY <1>1 DEF LateBy
    <3>. QED BY <3>1, <1>1, <1>5 DEF Arrived, Lead
  <2>1. CASE c = core BY <2>1, <1>7
  <2>2. CASE c # core BY <2>2, <1>3 DEF Arrived
  <2>. QED BY <2>1, <2>2
<1>. QED BY <1>4, <1>8

LEMMA LoadStateArrived == ASSUME Inv, Inv', Awaited, Arrived, LoadState PROVE Awaited' /\ Arrived'
<1>1. /\ phase = "top" /\ step' = step /\ executed_ticks' = executed_ticks
      /\ slice_length' = slice_length
      /\ event_queue' = [c \in Core |-> event_queue[c] \cup Moved(c)]
      /\ ts_queue' = [c \in Core |-> << >>]
  BY DEF LoadState, loop_vars
<1>2. ~Firing /\ ~Firing' BY <1>1 DEF Inv, LoopOK, Firing
<1>3. Awaited' BY <1>1 DEF Awaited
<1>4. Arrived'
  <2> SUFFICES ASSUME NEW c \in Core, NEW e \in event_queue'[c], e.origin \in Queued
               PROVE  \/ e.time >= executed_ticks[c] + Lead(e.origin)
                      \/ e.time >= executed_ticks[c] + slice_length[c]
    BY <1>1, <1>2 DEF Arrived, Lead
  <2>1. CASE e \in event_queue[c] BY <2>1, <1>2 DEF Arrived
  <2>2. CASE e \in Moved(c) BY <2>2, MovedLead
  <2>. QED BY <2>1, <2>2, <1>1
<1>. QED BY <1>3, <1>4

\* A new event in ts_queue.
LEMMA PushArrived ==
  ASSUME Inv, Inv', Awaited, Arrived, NEW c \in Core, NEW e, Push(c, e),
         e.origin \in Queued => e.time >= executed_ticks[c] + Lead(e.origin)
  PROVE  Awaited' /\ Arrived'
<1>1. /\ ts_queue' = [ts_queue EXCEPT ![c] = Append(@, e)] /\ loads' = loads
      /\ executed_ticks' = executed_ticks /\ slice_length' = slice_length
      /\ event_queue' = event_queue /\ core' = core /\ step' = step
  BY DEF Push, ticks_vars, loop_vars
<1>2. ts_queue \in [Core -> Seq(Event)] BY DEF Inv, QueueType
<1>3. Awaited'
  <2> SUFFICES ASSUME NEW d \in Core, NEW i \in 1..Len(ts_queue'[d]),
                      ts_queue'[d][i].origin \in Queued
               PROVE  ts_queue'[d][i].time >= executed_ticks[d] + Lead(ts_queue'[d][i].origin)
    BY <1>1 DEF Awaited, Lead
  <2>1. CASE d = c
    <3>1. ts_queue'[d] = Append(ts_queue[c], e) /\ ts_queue[c] \in Seq(Event) BY <2>1, <1>1, <1>2
    <3>2. /\ Len(ts_queue[c]) \in Nat /\ Len(Append(ts_queue[c], e)) = Len(ts_queue[c]) + 1
          /\ \A k \in 1..Len(ts_queue[c]) : Append(ts_queue[c], e)[k] = ts_queue[c][k]
          /\ Append(ts_queue[c], e)[Len(ts_queue[c]) + 1] = e
      BY <3>1
    <3>3. i \in 1..Len(ts_queue[c]) \/ i = Len(ts_queue[c]) + 1 BY <3>1, <3>2
    <3>4. CASE i = Len(ts_queue[c]) + 1 BY <2>1, <3>1, <3>2, <3>4
    <3>5. CASE i \in 1..Len(ts_queue[c])
      <4>1. ts_queue'[d][i] = ts_queue[c][i] BY <3>1, <3>2, <3>5
      <4>. QED BY <2>1, <3>5, <4>1 DEF Awaited
    <3>. QED BY <3>3, <3>4, <3>5
  <2>2. CASE d # c
    <3>1. ts_queue'[d] = ts_queue[d] BY <2>2, <1>1, <1>2
    <3>. QED BY <3>1 DEF Awaited
  <2>. QED BY <2>1, <2>2
<1>4. Arrived'
  <2>1. \A d \in Core : slice_length[d] <= slice_length[d]
    <3>1. \A d \in Core : slice_length[d] \in Int BY DEF Inv, TicksType
    <3>. QED BY <3>1
  <2>. QED BY <2>1, <1>1, ArrivedStep DEF Firing
<1>. QED BY <1>3, <1>4

LEMMA ScheduleThereArrived ==
  ASSUME Inv, Inv', Awaited, Arrived, NEW c \in Core, NEW d \in Delays, ScheduleThere(c, d)
  PROVE  Awaited' /\ Arrived'
<1> DEFINE t == GetTicks(c) + d
           e == NewEvent(t, "other")
<1>1. Push(c, e) BY DEF ScheduleThere
<1>2. /\ executed_ticks[c] <= GetTicks(c) /\ GetTicks(c) \in Int /\ executed_ticks[c] \in Int
  BY TimeIs DEF TimeFacts
<1>3. d \in Nat BY TimingAssumption
<1>4. t \in Int /\ t >= executed_ticks[c] BY <1>2, <1>3
<1> HIDE DEF t
<1>5. e.time = t /\ e.origin = "other" BY DEF NewEvent
<1>6. e.time >= executed_ticks[c] + Lead(e.origin) BY <1>2, <1>4, <1>5 DEF Lead
<1> HIDE DEF e
<1>. QED BY <1>1, <1>6, PushArrived

\* Two slices, less the one by which the host thread's reading may be behind.
LEMMA ScheduleFromHostArrived ==
  ASSUME Inv, Inv', Awaited, Arrived, NEW c \in Core, NEW d \in Delays, ScheduleFromHost(c, d)
  PROVE  Awaited' /\ Arrived'
<1>1. PICK b \in {0, MAX_SLICE_LENGTH} : Push(c, NewEvent(GetTicks(c) - b + SafeDelay(d), "host"))
  BY DEF ScheduleFromHost
<1> DEFINE t == GetTicks(c) - b + SafeDelay(d)
           e == NewEvent(t, "host")
<1>2. Push(c, e) BY <1>1
<1>3. /\ executed_ticks[c] <= GetTicks(c) /\ GetTicks(c) \in Int /\ executed_ticks[c] \in Int
  BY TimeIs DEF TimeFacts
<1>4. d \in Nat /\ MAX_SLICE_LENGTH \in Nat BY TimingAssumption
<1>5. SafeDelay(d) \in Nat /\ SafeDelay(d) >= 2 * MAX_SLICE_LENGTH BY <1>4 DEF SafeDelay
<1>6. t \in Int /\ t >= executed_ticks[c] + MAX_SLICE_LENGTH
  <2>1. CASE b = 0 BY <2>1, <1>3, <1>4, <1>5
  <2>2. CASE b = MAX_SLICE_LENGTH BY <2>2, <1>3, <1>4, <1>5
  <2>. QED BY <2>1, <2>2
<1> HIDE DEF t
<1>7. e.time = t /\ e.origin = "host" BY DEF NewEvent
<1>8. e.time >= executed_ticks[c] + Lead(e.origin) BY <1>6, <1>7 DEF Lead
<1> HIDE DEF e
<1>. QED BY <1>2, <1>8, PushArrived

LEMMA ThreadsafeAtArrived ==
  ASSUME Inv, Inv', Awaited, Arrived, NEW c \in Core, ScheduleEventThreadsafeAt(c)
  PROVE  Awaited' /\ Arrived'
<1> DEFINE e == NewEvent(executed_ticks[c], "gpu")
<1>1. Push(c, e) BY DEF ScheduleEventThreadsafeAt
<1>2. e.origin \notin Queued BY DEF NewEvent, Queued
<1> HIDE DEF e
<1>. QED BY <1>1, <1>2, PushArrived

LEMMA ScheduleHereArrived ==
  ASSUME Inv, Inv', Awaited, Arrived, NEW d \in Delays, ScheduleHere(d)
  PROVE  Awaited' /\ Arrived'
<1> DEFINE s == EndOfSlice(d)
           n == [NewEvent(GetTicks(core) + d, "core") EXCEPT !.fifo_order = event_fifo_id[core] + 1]
<1>1. /\ Emulating /\ slice_length' = [slice_length EXCEPT ![core] = s]
      /\ event_queue' = [event_queue EXCEPT ![core] = event_queue[core] \cup {n}]
      /\ executed_ticks' = executed_ticks /\ ts_queue' = ts_queue /\ loads' = loads
      /\ core' = core /\ step' = step
  BY DEF ScheduleHere, loop_vars
<1>2. core \in Core BY <1>1 DEF Emulating, Inv, LoopOK, Firing
<1>3. /\ slice_length \in [Core -> Int] /\ downcount[core] \in Int /\ d \in Nat
      /\ slice_length[core] \in Int /\ event_queue \in [Core -> SUBSET Event]
  BY <1>2, TimingAssumption DEF Inv, TicksType, QueueType
<1>4. s \in Int /\ s <= slice_length[core] BY <1>3 DEF EndOfSlice
<1>5. n.origin \notin Queued BY DEF NewEvent, Queued
<1> HIDE DEF s, n
<1>6. ASSUME NEW c \in Core
      PROVE  /\ slice_length'[c] <= slice_length[c]
             /\ \A e \in event_queue'[c] : e.origin \in Queued => e \in event_queue[c]
  <2>1. CASE c = core
    <3>1. slice_length'[c] = s /\ event_queue'[c] = event_queue[c] \cup {n}
      BY <2>1, <1>1, <1>2, <1>3
    <3>. QED BY <2>1, <3>1, <1>4, <1>5
  <2>2. CASE c # core
    <3>1. slice_length'[c] = slice_length[c] /\ event_queue'[c] = event_queue[c]
          /\ slice_length[c] \in Int
      BY <2>2, <1>1, <1>2, <1>3
    <3>. QED BY <3>1
  <2>. QED BY <2>1, <2>2
<1>7. Arrived' BY <1>1, <1>6, ArrivedStep DEF Firing
<1>. QED BY <1>1, <1>7, AwaitedFrame

\* Steps that leave the times and ts_queue alone and at most take an event away.
LEMMA QuietArrived ==
  ASSUME Inv, Inv', Awaited, Arrived, executed_ticks' = executed_ticks, loads' = loads,
         slice_length' = slice_length, ts_queue' = ts_queue, core' = core, Firing' <=> Firing,
         \A c \in Core : event_queue'[c] \subseteq event_queue[c]
  PROVE  Awaited' /\ Arrived'
<1>1. \A c \in Core : slice_length[c] \in Int BY DEF Inv, TicksType
<1>2. \A c \in Core : slice_length'[c] <= slice_length[c] BY <1>1
<1>3. Arrived' BY <1>2, ArrivedStep
<1>. QED BY <1>3, AwaitedFrame

LEMMA TakenAway ==
  ASSUME Inv, NEW c \in Core, NEW e, event_queue' = [event_queue EXCEPT ![c] = @ \ {e}]
  PROVE  \A d \in Core : event_queue'[d] \subseteq event_queue[d]
<1>1. event_queue \in [Core -> SUBSET Event] BY DEF Inv, QueueType
<1>. QED BY <1>1

LEMMA StepArrived ==
  Inv /\ Inv' /\ Apace /\ Awaited /\ Arrived /\ [Next]_vars => Awaited' /\ Arrived'
<1> SUFFICES ASSUME Inv, Inv', Apace, Awaited, Arrived, [Next]_vars PROVE Awaited' /\ Arrived'
  OBVIOUS
<1>1. CASE Fire
  <2>1. PICK e \in event_queue[core] : event_queue' = [event_queue EXCEPT ![core] = @ \ {e}]
    BY <1>1 DEF Fire
  <2>2. Firing /\ Firing' /\ core \in Core BY <1>1 DEF Fire, Firing, Inv, LoopOK
  <2>3. \A d \in Core : event_queue'[d] \subseteq event_queue[d] BY <2>1, <2>2, TakenAway
  <2>. QED BY <1>1, <2>2, <2>3, QuietArrived DEF Fire, ticks_vars
<1>2. CASE CallbackReturns
  BY <1>2, QuietArrived DEF CallbackReturns, ticks_vars, queue_vars, Firing
<1>3. CASE UnscheduleEvent
  <2>1. PICK c \in Core : \E e \in event_queue[c] : event_queue' = [event_queue EXCEPT ![c] = @ \ {e}]
    BY <1>3 DEF UnscheduleEvent
  <2>2. \A d \in Core : event_queue'[d] \subseteq event_queue[d] BY <2>1, TakenAway
  <2>. QED BY <1>3, <2>2, QuietArrived DEF UnscheduleEvent, ticks_vars, loop_vars, Firing
<1>4. CASE UNCHANGED vars
  BY <1>4, QuietArrived DEF vars, ticks_vars, queue_vars, loop_vars, Firing
<1>5. CASE Idle BY <1>5, QuietArrived DEF Idle, queue_vars, loop_vars, Firing
<1>6. ASSUME NEW n \in Blocks, Execute(n) PROVE Awaited' /\ Arrived'
  BY <1>6, QuietArrived DEF Execute, queue_vars, loop_vars, Firing
<1>. QED
  BY <1>1, <1>2, <1>3, <1>4, <1>5, <1>6, LoopArrived, AdvanceArrived, LoadStateArrived,
     ScheduleHereArrived, ThreadsafeAtArrived, ScheduleThereArrived, ScheduleFromHostArrived
     DEF Next

\* An event for another core, or of a host thread, fires late by no more than the slice
\* in which it was scheduled, which is as long as the cores may be apart.
THEOREM QueuedEventsOnTime == Spec => []QueuedOnTime
<1>1. Init => Awaited /\ Arrived BY DEF Init, Awaited, Arrived
<1>2. Inv /\ Inv' /\ Apace /\ Awaited /\ Arrived /\ [Next]_vars => Awaited' /\ Arrived'
  BY StepArrived
<1>3. Inv /\ Arrived => QueuedOnTime
  <2> SUFFICES ASSUME Inv, Arrived, step = "fire", NEW e \in event_queue[core],
                      e.origin \in {"host", "other"}
               PROVE  executed_ticks[core] - e.time <= LateBy(e.origin)
    BY DEF QueuedOnTime
  <2>1. Firing /\ core \in Core /\ e.origin \in Queued BY DEF Firing, Inv, LoopOK, Queued
  <2>2. e.time >= executed_ticks[core] - LateBy(e.origin) BY <2>1 DEF Arrived
  <2>3. executed_ticks[core] \in Int /\ e.time \in Int BY <2>1, TimesAre
  <2>4. LateBy(e.origin) \in Nat BY <2>1, LateIs
  <2>. QED BY <2>2, <2>3, <2>4
<1>. QED BY <1>1, <1>2, <1>3, AlwaysInv, AlwaysApace, PTL DEF Spec
================================================================================

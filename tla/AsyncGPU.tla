-------------------------------- MODULE AsyncGPU -------------------------------
(******************************************************************************)
(* How the emulation thread uses the GPU thread (video_core/gpu.cpp).  In the *)
(* asynchronous mode commands are queued; otherwise, and for anything that    *)
(* reads results back, the emulation thread first waits for the queue to be   *)
(* empty and then calls the rasterizer itself.  Invalidations are held back   *)
(* and merged.  Pages that the rasterizer marks as cached or not while it     *)
(* works on the GPU thread are noted in a list for the emulation thread,      *)
(* which empties it in an event of the timing queue or when it waits.         *)
(*                                                                            *)
(* The queue is what GPUThread implements: a CommandStream.  A call of the    *)
(* emulation thread is the sequence of its steps still to be done.            *)
(******************************************************************************)
EXTENDS Naturals, FiniteSets, SequencesExt

CONSTANTS MaxOps,    \* calls that reach the rasterizer
          MaxMarks   \* page table updates

ASSUME AsyncAssumption == {MaxOps, MaxMarks} \subseteq Nat

VARIABLES
  mode,              \* "sync", "async" (use_async), "strict" (also strict_sync)
  pending,           \* the latest call merged into the pending invalidation, or 0
  last_swap_fence,
  todo,              \* steps of the emulation thread's call
  published, handled,
  gpu,               \* what the GPU thread does, see GpuStates
  page_table_updates, has_page_table_updates, page_table_update_event_scheduled,
  events,            \* update events in the timing queue
  issued, executed,  \* calls made; the last one that reached the rasterizer
  marks, applied     \* updates made by the rasterizer; those applied, in order

stream_vars == <<published, handled>>
update_vars == <<page_table_updates, has_page_table_updates,
                 page_table_update_event_scheduled, events>>
vars == <<mode, pending, last_swap_fence, todo, stream_vars, gpu, update_vars, issued,
          executed, marks, applied>>

Mode      == {"sync", "async", "strict"}
GpuStates == {"waits", "handles", "noted", "must_schedule"}
Op        == 1..MaxOps
Command   == [op : Op, swap : BOOLEAN]
Step      == [do : Mode \cup {"flush", "idle", "drain", "apply", "fence", "clear", "hold",
                              "direct", "queue", "queue_swap", "swap"}, op : 0..MaxOps]

Stream == INSTANCE CommandStream

Init ==
  /\ mode \in Mode /\ pending = 0 /\ last_swap_fence = 0 /\ todo = << >>
  /\ Stream!Init /\ gpu = "waits"
  /\ page_table_updates = << >> /\ has_page_table_updates = FALSE
  /\ page_table_update_event_scheduled = FALSE /\ events = 0
  /\ issued = 0 /\ executed = 0 /\ marks = 0 /\ applied = << >>

IsIdle == Len(handled) = Len(published)

Do(step, op) == <<[do |-> step, op |-> op]>>

--------------------------------------------------------------------------------
(* The calls. *)

\* Mutant of SyncGpuThread: it does not empty the list.
WaitOnly == Do("flush", 0) \o Do("idle", 0)

SyncGpuThread == Do("flush", 0) \o Do("idle", 0) \o Do("drain", 0)

Direct(n) == SyncGpuThread \o Do("direct", n)
IfStrict  == IF mode = "strict" THEN SyncGpuThread ELSE << >>

\* Mutant of QueueAsync: held back invalidations are overtaken.
QueueOnly(n) == Do("queue", n)

QueueAsync(n) == Do("flush", 0) \o Do("queue", n)

Call(steps) ==
  /\ todo = << >> /\ issued < MaxOps
  /\ issued' = issued + 1 /\ todo' = steps
  /\ UNCHANGED <<mode, last_swap_fence, stream_vars, gpu, update_vars, executed, marks, applied>>

\* Command lists, fills, transfers, register writes.  Only those that start work are
\* waited for in the strict mode.
Submit(works) ==
  /\ Call(IF mode = "sync" THEN Direct(issued + 1)
          ELSE QueueAsync(issued + 1) \o (IF works THEN IfStrict ELSE << >>))
  /\ UNCHANGED pending

\* FlushRegion and everything else that needs the results.
FlushRegion == Call(Direct(issued + 1)) /\ UNCHANGED pending

\* An invalidation is merged into the pending one if they are close.
InvalidateRegion(close) ==
  LET n == issued + 1 IN
  \/ mode = "sync" /\ Call(Direct(n)) /\ UNCHANGED pending
  \/ mode # "sync" /\ pending # 0 /\ close /\ Call(<< >>) /\ pending' = n
  \/ mode # "sync" /\ ~(pending # 0 /\ close)
     /\ Call(Do("flush", 0) \o Do("hold", n) \o IfStrict) /\ UNCHANGED pending

\* VBlankCallback: RefreshAsyncMode and SwapBuffers.
VBlank(new) ==
  /\ Call((IF mode # "sync" /\ new = "sync" THEN SyncGpuThread ELSE << >>)
          \o Do(new, 0) \o Do("swap", issued + 1))
  /\ UNCHANGED pending

\* Mutant of CallbackSteps: an update that comes in between is forgotten.
DrainThenClear == Do("drain", 0) \o Do("clear", 0)

\* PageTableUpdateCallback.
CallbackSteps == Do("clear", 0) \o Do("drain", 0)

PageTableUpdateCallback ==
  /\ todo = << >> /\ events > 0
  /\ events' = events - 1 /\ todo' = CallbackSteps
  /\ UNCHANGED <<mode, pending, last_swap_fence, stream_vars, gpu, page_table_updates,
                 has_page_table_updates, page_table_update_event_scheduled, issued, executed,
                 marks, applied>>

--------------------------------------------------------------------------------
(* The steps. *)

At(step) == todo # << >> /\ Head(todo).do = step
This     == Head(todo).op
Go(steps) == todo' = steps \o Tail(todo)

\* Mutant of Overdue: an idle GPU thread is taken to have left no updates.
OverdueAtOnce(n) == IF IsIdle THEN Do("direct", n) ELSE Do("queue", n)

Overdue(n) == IF IsIdle THEN Do("drain", 0) \o Do("direct", n) ELSE Do("queue", n)

\* FlushPendingInvalidate.
Flush ==
  /\ At("flush")
  /\ pending' = 0
  /\ Go(IF pending = 0 THEN << >> ELSE Overdue(pending))
  /\ UNCHANGED <<mode, last_swap_fence, stream_vars, gpu, update_vars, issued, executed,
                 marks, applied>>

Hold ==
  /\ At("hold")
  /\ pending' = This /\ Go(<< >>)
  /\ UNCHANGED <<mode, last_swap_fence, stream_vars, gpu, update_vars, issued, executed,
                 marks, applied>>

\* EndQueue returns the number of commands published.
Fence == Len(published) + 1

Publish ==
  /\ At("queue") \/ At("queue_swap")
  /\ published' = Append(published, [op |-> This, swap |-> At("queue_swap")])
  /\ last_swap_fence' = IF At("queue_swap") THEN Fence ELSE last_swap_fence
  /\ Go(<< >>)
  /\ UNCHANGED <<mode, pending, handled, gpu, update_vars, issued, executed, marks, applied>>

\* SwapBuffers.
SwapSteps(n) == IF mode = "sync" THEN Direct(n)
                ELSE Do("fence", 0) \o Do("flush", 0) \o Do("queue_swap", n)

\* The steps that change nothing else: choices, WaitIdle, WaitForFence and the look
\* at has_page_table_updates without the lock.
Proceed ==
  /\ \/ At("swap") /\ Go(SwapSteps(This))
     \/ At("idle") /\ IsIdle /\ Go(<< >>)
     \/ At("fence") /\ Len(handled) >= last_swap_fence /\ Go(<< >>)
     \/ At("drain") /\ Go(IF has_page_table_updates THEN Do("apply", 0) ELSE << >>)
  /\ UNCHANGED <<mode, pending, last_swap_fence, stream_vars, gpu, update_vars, issued,
                 executed, marks, applied>>

SetMode ==
  /\ \E m \in Mode : At(m) /\ mode' = m
  /\ Go(<< >>)
  /\ UNCHANGED <<pending, last_swap_fence, stream_vars, gpu, update_vars, issued, executed,
                 marks, applied>>

\* The list is swapped under its lock; then the pages are marked.
Apply ==
  /\ At("apply")
  /\ page_table_updates' = << >> /\ has_page_table_updates' = FALSE
  /\ applied' = applied \o page_table_updates
  /\ Go(<< >>)
  /\ UNCHANGED <<mode, pending, last_swap_fence, stream_vars, gpu,
                 page_table_update_event_scheduled, events, issued, executed, marks>>

Clear ==
  /\ At("clear")
  /\ page_table_update_event_scheduled' = FALSE /\ Go(<< >>)
  /\ UNCHANGED <<mode, pending, last_swap_fence, stream_vars, gpu, page_table_updates,
                 has_page_table_updates, events, issued, executed, marks, applied>>

\* The rasterizer on the emulation thread marks pages at once.
Rasterize ==
  /\ At("direct")
  /\ executed' = This /\ Go(<< >>)
  /\ \/ UNCHANGED <<marks, applied>>
     \/ marks < MaxMarks /\ marks' = marks + 1 /\ applied' = Append(applied, marks')
  /\ UNCHANGED <<mode, pending, last_swap_fence, stream_vars, gpu, update_vars, issued>>

EmuStep == Flush \/ Hold \/ Publish \/ Proceed \/ SetMode \/ Apply \/ Clear \/ Rasterize

--------------------------------------------------------------------------------
(* The GPU thread. *)

emu_vars == <<mode, pending, last_swap_fence, todo, issued, applied>>

Handle ==
  /\ gpu = "waits" /\ ~IsIdle /\ gpu' = "handles"
  /\ executed' = published[Len(handled) + 1].op
  /\ UNCHANGED <<emu_vars, stream_vars, update_vars, marks>>

\* QueuePageTableUpdate: first the list, under its lock ...
NoteUpdate ==
  /\ gpu = "handles" /\ marks < MaxMarks /\ gpu' = "noted"
  /\ marks' = marks + 1
  /\ page_table_updates' = Append(page_table_updates, marks')
  /\ has_page_table_updates' = TRUE
  /\ UNCHANGED <<emu_vars, stream_vars, page_table_update_event_scheduled, events, executed>>

AfterExchange == IF page_table_update_event_scheduled THEN "handles" ELSE "must_schedule"

\* ... then the flag ...
Exchange ==
  /\ gpu = "noted"
  /\ gpu' = AfterExchange
  /\ page_table_update_event_scheduled' = TRUE
  /\ UNCHANGED <<emu_vars, stream_vars, page_table_updates, has_page_table_updates, events,
                 executed, marks>>

\* ... then the event.
ScheduleEvent ==
  /\ gpu = "must_schedule" /\ gpu' = "handles"
  /\ events' = events + 1
  /\ UNCHANGED <<emu_vars, stream_vars, page_table_updates, has_page_table_updates,
                 page_table_update_event_scheduled, executed, marks>>

Done ==
  /\ gpu = "handles" /\ Stream!Handle /\ gpu' = "waits"
  /\ UNCHANGED <<emu_vars, update_vars, executed, marks>>

GpuStep == Handle \/ Exchange \/ ScheduleEvent \/ Done

--------------------------------------------------------------------------------
Next == \/ FlushRegion \/ PageTableUpdateCallback
        \/ \E works \in BOOLEAN : Submit(works)
        \/ \E close \in BOOLEAN : InvalidateRegion(close)
        \/ \E new \in Mode : VBlank(new)
        \/ EmuStep \/ GpuStep \/ NoteUpdate

Spec == Init /\ [][Next]_vars

\* Both threads run, handlers return, and events fire.
FairSpec == /\ Spec
            /\ WF_vars(EmuStep) /\ WF_vars(GpuStep) /\ WF_vars(PageTableUpdateCallback)

--------------------------------------------------------------------------------
TypeOK ==
  /\ mode \in Mode /\ pending \in 0..MaxOps /\ last_swap_fence \in Nat
  /\ todo \in Seq(Step) /\ published \in Seq(Command) /\ handled \in Seq(Command)
  /\ gpu \in GpuStates
  /\ page_table_updates \in Seq(1..MaxMarks) /\ has_page_table_updates \in BOOLEAN
  /\ page_table_update_event_scheduled \in BOOLEAN /\ events \in {0, 1}
  /\ issued \in 0..MaxOps /\ executed \in 0..MaxOps
  /\ marks \in 0..MaxMarks /\ applied \in Seq(1..MaxMarks)

\* The emulation thread calls the rasterizer only when the GPU thread does not use it
\* and all page table updates of the GPU thread are in place.
DirectIsExclusive == At("direct") => IsIdle /\ gpu = "waits" /\ page_table_updates = << >>

\* Pages are marked in the order in which the rasterizer asked for it, whichever
\* thread it ran on, and no update is lost.
MarksInOrder == \A i \in DOMAIN applied : applied[i] = i

\* Commands and invalidations reach the rasterizer in the order of the calls, though
\* invalidations are held back and modes change.
ProgramOrder == [][executed' # executed => executed' > executed]_vars

\* Updates get applied even if the emulation thread makes no more calls.
UpdatesApplied == page_table_updates # << >> ~> page_table_updates = << >>

================================================================================

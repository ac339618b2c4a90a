----------------------------- MODULE AsyncGPUProofs ----------------------------
(******************************************************************************)
(* The two users of the rasterizer, for every number of calls and updates: a  *)
(* direct call never runs beside the GPU thread, pages are marked in order,   *)
(* and calls reach the rasterizer in program order.                           *)
(*                                                                            *)
(* The inductive invariant has two halves.  Inv is about who uses the         *)
(* rasterizer: every direct call in the steps ahead is behind a wait and a    *)
(* drain that still do their work (DirectOK), the list of updates continues   *)
(* the applied ones (UpdatesOK), and the flag of the update event says where  *)
(* the event is (EventOK).  Ordered is about the order: the last call made,   *)
(* the queue, what is held back and the steps ahead are four stretches of one *)
(* ascending sequence, and a flush stands between what is held back and any   *)
(* step that could overtake it (Flushed).                                     *)
(******************************************************************************)
EXTENDS AsyncGPU, SequenceTheorems, TLAPS

USE AsyncAssumption

\* What Go does: the steps replace the head.
LEMMA Spliced ==
  ASSUME todo \in Seq(Step), todo # << >>, NEW steps \in Seq(Step), Go(steps)
  PROVE  /\ todo' \in Seq(Step) /\ Len(todo') = Len(steps) + Len(todo) - 1
         /\ Len(todo) >= 1 /\ Head(todo) = todo[1] /\ Len(steps) \in Nat /\ Len(todo) \in Nat
         /\ \A i \in 1..Len(steps) : todo'[i] = steps[i]
         /\ \A i \in Len(steps) + 1..Len(todo') : todo'[i] = todo[i - Len(steps) + 1]
<1>1. Len(todo) >= 1 /\ Head(todo) = todo[1] /\ Len(todo) \in Nat /\ Len(steps) \in Nat
  BY EmptySeq
<1>2. /\ Tail(todo) \in Seq(Step) /\ Len(Tail(todo)) = Len(todo) - 1
      /\ \A i \in 1..Len(Tail(todo)) : Tail(todo)[i] = todo[i + 1]
  BY HeadTailProperties
<1> DEFINE t == Tail(todo)
<1>3. /\ steps \o t \in Seq(Step) /\ Len(steps \o t) = Len(steps) + Len(t)
      /\ \A i \in 1..Len(steps) + Len(t) :
           (steps \o t)[i] = IF i <= Len(steps) THEN steps[i] ELSE t[i - Len(steps)]
  BY <1>2, ConcatProperties
<1>4. todo' = steps \o t BY DEF Go
<1> HIDE DEF t
<1>5. t \in Seq(Step) /\ Len(t) = Len(todo) - 1 /\ \A i \in 1..Len(t) : t[i] = todo[i + 1]
  BY <1>2 DEF t
<1>6. \A i \in 1..Len(steps) : todo'[i] = steps[i] BY <1>1, <1>3, <1>4, <1>5
<1>7. ASSUME NEW i \in Len(steps) + 1..Len(todo') PROVE todo'[i] = todo[i - Len(steps) + 1]
  <2>1. i \in 1..Len(steps) + Len(t) /\ ~(i <= Len(steps)) BY <1>1, <1>3, <1>4, <1>5
  <2>2. todo'[i] = t[i - Len(steps)] BY <2>1, <1>3, <1>4
  <2>3. i - Len(steps) \in 1..Len(t) BY <2>1, <1>1, <1>5
  <2>4. t[i - Len(steps)] = todo[(i - Len(steps)) + 1] BY <2>3, <1>5
  <2>5. (i - Len(steps)) + 1 = i - Len(steps) + 1 BY <2>1, <1>1
  <2>. QED BY <2>2, <2>4, <2>5
<1>. QED BY <1>1, <1>3, <1>4, <1>5, <1>6, <1>7

\* The sequences of steps the calls are made of.
Names == Mode \cup {"flush", "idle", "drain", "apply", "fence", "clear", "hold", "direct",
                    "queue", "queue_swap", "swap"}
StepOf(x, n) == [do |-> x, op |-> n]

LEMMA StepTypes ==
  ASSUME NEW x \in Names, NEW n \in 0..MaxOps
  PROVE  StepOf(x, n) \in Step /\ StepOf(x, n).do = x /\ StepOf(x, n).op = n
BY DEF Step, StepOf, Names

LEMMA DoIs ==
  ASSUME NEW x \in Names, NEW n \in 0..MaxOps
  PROVE  Do(x, n) \in Seq(Step) /\ Len(Do(x, n)) = 1 /\ Do(x, n)[1] = StepOf(x, n)
<1> DEFINE s == StepOf(x, n)
<1>1. s \in Step BY StepTypes
<1>2. Do(x, n) = <<s>> BY DEF Do, StepOf
<1> HIDE DEF s
<1>3. Do(x, n) \in Seq(Step) /\ Len(Do(x, n)) = 1 /\ Do(x, n)[1] = s BY <1>1, <1>2
<1>. QED BY <1>3 DEF s

\* One more step at the end.
LEMMA AndThen ==
  ASSUME NEW t \in Seq(Step), NEW x \in Names, NEW n \in 0..MaxOps
  PROVE  /\ t \o Do(x, n) \in Seq(Step) /\ Len(t \o Do(x, n)) = Len(t) + 1
         /\ \A i \in 1..Len(t) : (t \o Do(x, n))[i] = t[i]
         /\ (t \o Do(x, n))[Len(t) + 1] = StepOf(x, n)
<1> DEFINE d == Do(x, n)
<1>1. d \in Seq(Step) /\ Len(d) = 1 /\ d[1] = StepOf(x, n) BY DoIs
<1> HIDE DEF d
<1>0. Len(t) \in Nat OBVIOUS
<1>2. /\ t \o d \in Seq(Step) /\ Len(t \o d) = Len(t) + Len(d)
      /\ \A i \in 1..Len(t) + Len(d) : (t \o d)[i] = IF i <= Len(t) THEN t[i] ELSE d[i - Len(t)]
  BY <1>1, ConcatProperties
<1>3. (t \o d)[Len(t) + 1] = StepOf(x, n)
  <2>1. Len(t) + 1 \in 1..Len(t) + Len(d) /\ ~(Len(t) + 1 <= Len(t)) /\ (Len(t) + 1) - Len(t) = 1
    BY <1>0, <1>1
  <2>. QED BY <2>1, <1>2, <1>1
<1>4. \A i \in 1..Len(t) : (t \o d)[i] = t[i] BY <1>0, <1>1, <1>2
<1>. QED BY <1>1, <1>2, <1>3, <1>4 DEF d

LEMMA SyncSteps ==
  /\ SyncGpuThread \in Seq(Step) /\ Len(SyncGpuThread) = 3
  /\ SyncGpuThread[1] = StepOf("flush", 0) /\ SyncGpuThread[2] = StepOf("idle", 0)
  /\ SyncGpuThread[3] = StepOf("drain", 0)
<1>0. 0 \in 0..MaxOps /\ "flush" \in Names /\ "idle" \in Names /\ "drain" \in Names BY DEF Names
<1> DEFINE a == Do("flush", 0)
           b == a \o Do("idle", 0)
           c == b \o Do("drain", 0)
<1>2. a \in Seq(Step) /\ Len(a) = 1 /\ a[1] = StepOf("flush", 0) BY <1>0, DoIs
<1>4. SyncGpuThread = c BY DEF SyncGpuThread
<1> HIDE DEF a
<1>3. b \in Seq(Step) /\ Len(b) = 2 /\ b[1] = StepOf("flush", 0) /\ b[2] = StepOf("idle", 0)
  <2>1. /\ b \in Seq(Step) /\ Len(b) = Len(a) + 1 /\ \A i \in 1..Len(a) : b[i] = a[i]
        /\ b[Len(a) + 1] = StepOf("idle", 0)
    BY <1>0, <1>2, AndThen
  <2>. QED BY <2>1, <1>2
<1> HIDE DEF b
<1>5. /\ c \in Seq(Step) /\ Len(c) = Len(b) + 1 /\ \A i \in 1..Len(b) : c[i] = b[i]
      /\ c[Len(b) + 1] = StepOf("drain", 0)
  BY <1>0, <1>3, AndThen
<1>. QED BY <1>3, <1>4, <1>5

\* The steps that carry a call to the rasterizer.
Works == {"queue", "queue_swap", "direct", "hold", "swap"}

\* A call of the emulation thread: at most one step reaches the rasterizer, behind a flush
\* of the held back invalidation, and directly only behind a wait and a drain.
CallOK(s, n) ==
  /\ s \in Seq(Step)
  /\ \A i \in 1..Len(s) : /\ s[i].op \in {0, n} /\ s[i].do # "clear"
                          /\ (s[i].op # 0 <=> s[i].do \in Works)
  /\ \A i \in 1..Len(s) : s[i].do = "direct" =>
       i >= 3 /\ s[i - 1].do = "drain" /\ s[i - 2].do = "idle"
  /\ \A i \in 1..Len(s) : s[i].do \in Works \ {"swap"} => i > 1 /\ s[1].do = "flush"
  /\ \A i, k \in 1..Len(s) : s[i].op # 0 /\ s[k].op # 0 => i = k

LEMMA StepFacts ==
  ASSUME NEW n \in 1..MaxOps
  PROVE  /\ 0 \in 0..MaxOps /\ n \in 0..MaxOps /\ n # 0 /\ Mode \subseteq Names
         /\ \A x \in {"flush", "idle", "drain", "apply", "fence", "clear", "hold", "direct",
                      "queue", "queue_swap", "swap"} : x \in Names
         /\ \A x \in Names : StepOf(x, 0).do = x /\ StepOf(x, 0).op = 0
         /\ \A x \in Names : StepOf(x, n).do = x /\ StepOf(x, n).op = n
<1>1. 0 \in 0..MaxOps /\ n \in 0..MaxOps /\ n # 0 OBVIOUS
<1>. QED BY <1>1, StepTypes DEF Names

LEMMA DirectCall ==
  ASSUME NEW n \in 1..MaxOps
  PROVE  CallOK(Direct(n), n) /\ Len(Direct(n)) = 4 /\ Direct(n)[1].do = "flush"
<1> DEFINE s == SyncGpuThread
           d == s \o Do("direct", n)
<1>1. Direct(n) = d BY DEF Direct
<1>2. s \in Seq(Step) /\ Len(s) = 3 BY SyncSteps
<1>3. /\ d \in Seq(Step) /\ Len(d) = Len(s) + 1 /\ \A i \in 1..Len(s) : d[i] = s[i]
      /\ d[Len(s) + 1] = StepOf("direct", n)
  <2>1. "direct" \in Names /\ n \in 0..MaxOps BY StepFacts
  <2> HIDE DEF s
  <2>. QED BY <2>1, <1>2, AndThen
<1>4. /\ d \in Seq(Step) /\ Len(d) = 4 /\ d[1] = StepOf("flush", 0) /\ d[2] = StepOf("idle", 0)
      /\ d[3] = StepOf("drain", 0) /\ d[4] = StepOf("direct", n)
  <2> HIDE DEF d
  <2>. QED BY <1>2, <1>3, SyncSteps
<1> HIDE DEF s, d
<1>5. /\ d[1].do = "flush" /\ d[2].do = "idle" /\ d[3].do = "drain" /\ d[4].do = "direct"
      /\ d[1].op = 0 /\ d[2].op = 0 /\ d[3].op = 0 /\ d[4].op = n /\ n # 0
  BY <1>4, StepFacts
<1>6. \A i \in 1..Len(d) : i \in {1, 2, 3, 4} BY <1>4
<1>. QED BY <1>1, <1>4, <1>5, <1>6 DEF CallOK, Works

LEMMA DirectHoldsNot ==
  ASSUME NEW n \in 1..MaxOps
  PROVE  \A i \in 1..4 : Direct(n)[i].do # "hold"
<1> DEFINE s == SyncGpuThread
           d == s \o Do("direct", n)
<1>1. Direct(n) = d BY DEF Direct
<1>2. /\ s \in Seq(Step) /\ Len(s) = 3 /\ s[1] = StepOf("flush", 0) /\ s[2] = StepOf("idle", 0)
      /\ s[3] = StepOf("drain", 0)
  BY SyncSteps
<1>3. "direct" \in Names /\ n \in 0..MaxOps BY StepFacts
<1> HIDE DEF s
<1>4. \A i \in 1..Len(s) : d[i] = s[i] BY <1>2, <1>3, AndThen
<1>5. d[Len(s) + 1] = StepOf("direct", n) BY <1>2, <1>3, AndThen
<1> HIDE DEF d
<1>6. /\ d[1] = StepOf("flush", 0) /\ d[2] = StepOf("idle", 0) /\ d[3] = StepOf("drain", 0)
      /\ d[4] = StepOf("direct", n)
  BY <1>2, <1>4, <1>5
<1>7. d[1].do = "flush" /\ d[2].do = "idle" /\ d[3].do = "drain" /\ d[4].do = "direct"
  BY <1>6, StepFacts
<1>8. \A i \in 1..4 : i \in {1, 2, 3, 4} OBVIOUS
<1>. QED BY <1>1, <1>7, <1>8

LEMMA EmptyCall == ASSUME NEW n \in 1..MaxOps PROVE CallOK(<< >>, n)
<1>1. << >> \in Seq(Step) /\ \A i \in 1..Len(<< >>) : FALSE OBVIOUS
<1>. QED BY <1>1 DEF CallOK

\* Calls that queue a command or hold an invalidation back.
LEMMA QueueCall ==
  ASSUME NEW n \in 1..MaxOps, NEW x \in {"queue", "hold"}
  PROVE  /\ CallOK(Do("flush", 0) \o Do(x, n), n)
         /\ CallOK(Do("flush", 0) \o Do(x, n) \o << >>, n)
         /\ CallOK(Do("flush", 0) \o Do(x, n) \o SyncGpuThread, n)
<1> DEFINE a == Do("flush", 0)
           b == a \o Do(x, n)
           s == SyncGpuThread
           c == b \o s
<1>0. x \in Names /\ "flush" \in Names /\ n \in 0..MaxOps /\ 0 \in 0..MaxOps /\ x \in Works
      /\ x \notin {"direct", "clear"}
  BY StepFacts DEF Works
<1>1. a \in Seq(Step) /\ Len(a) = 1 /\ a[1] = StepOf("flush", 0) BY <1>0, DoIs
<1> HIDE DEF a
<1>2. /\ b \in Seq(Step) /\ Len(b) = Len(a) + 1 /\ \A i \in 1..Len(a) : b[i] = a[i]
      /\ b[Len(a) + 1] = StepOf(x, n)
  BY <1>0, <1>1, AndThen
<1> HIDE DEF b
<1>3. b \in Seq(Step) /\ Len(b) = 2 /\ b[1] = StepOf("flush", 0) /\ b[2] = StepOf(x, n)
  BY <1>1, <1>2
<1>4. b[1].do = "flush" /\ b[1].op = 0 /\ b[2].do = x /\ b[2].op = n /\ n # 0
  BY <1>3, <1>0, StepFacts
<1>5. \A i \in 1..Len(b) : i \in {1, 2} BY <1>3
<1>6. CallOK(b, n) BY <1>0, <1>3, <1>4, <1>5 DEF CallOK, Works
<1>7. b \o << >> = b BY <1>3, ConcatEmptySeq
<1>8. /\ s \in Seq(Step) /\ Len(s) = 3 /\ s[1].do = "flush" /\ s[2].do = "idle"
      /\ s[3].do = "drain" /\ s[1].op = 0 /\ s[2].op = 0 /\ s[3].op = 0
  BY SyncSteps, StepFacts
<1> HIDE DEF s
<1>9. /\ c \in Seq(Step) /\ Len(c) = Len(b) + Len(s)
      /\ \A i \in 1..Len(b) + Len(s) : c[i] = IF i <= Len(b) THEN b[i] ELSE s[i - Len(b)]
  BY <1>3, <1>8, ConcatProperties
<1> HIDE DEF c
<1>10. /\ c \in Seq(Step) /\ Len(c) = 5 /\ c[1] = b[1] /\ c[2] = b[2] /\ c[3] = s[1]
       /\ c[4] = s[2] /\ c[5] = s[3]
  BY <1>3, <1>8, <1>9
<1>11. \A i \in 1..Len(c) : i \in {1, 2, 3, 4, 5} BY <1>10
<1>12. CallOK(c, n) BY <1>0, <1>4, <1>8, <1>10, <1>11 DEF CallOK, Works
<1>. QED BY <1>6, <1>7, <1>12 DEF a, b, c, s

\* VBlankCallback.
LEMMA SwapCall ==
  ASSUME NEW n \in 1..MaxOps, NEW x \in Mode, NEW t \in {<< >>, SyncGpuThread}
  PROVE  CallOK(t \o Do(x, 0) \o Do("swap", n), n)
<1> DEFINE a == t \o Do(x, 0)
           b == a \o Do("swap", n)
<1>0. x \in Names /\ "swap" \in Names /\ n \in 0..MaxOps /\ 0 \in 0..MaxOps /\ x \notin Works
      /\ x # "clear"
  BY StepFacts DEF Works, Mode
<1>1. t \in Seq(Step) /\ Len(t) \in {0, 3} /\ \A i \in 1..Len(t) :
        t[i].do \in {"flush", "idle", "drain"} /\ t[i].op = 0
  <2>1. CASE t = << >> BY <2>1
  <2>2. CASE t = SyncGpuThread
    <3>1. /\ t \in Seq(Step) /\ Len(t) = 3 /\ t[1].do = "flush" /\ t[2].do = "idle"
          /\ t[3].do = "drain" /\ t[1].op = 0 /\ t[2].op = 0 /\ t[3].op = 0
      BY <2>2, SyncSteps, StepFacts
    <3>2. \A i \in 1..Len(t) : i \in {1, 2, 3} BY <3>1
    <3>. QED BY <3>1, <3>2
  <2>. QED BY <2>1, <2>2
<1>2. /\ a \in Seq(Step) /\ Len(a) = Len(t) + 1 /\ \A i \in 1..Len(t) : a[i] = t[i]
      /\ a[Len(t) + 1] = StepOf(x, 0)
  BY <1>0, <1>1, AndThen
<1> HIDE DEF a
<1>3. /\ b \in Seq(Step) /\ Len(b) = Len(a) + 1 /\ \A i \in 1..Len(a) : b[i] = a[i]
      /\ b[Len(a) + 1] = StepOf("swap", n)
  BY <1>0, <1>2, AndThen
<1> HIDE DEF b
<1>4. StepOf(x, 0).do = x /\ StepOf(x, 0).op = 0 /\ StepOf("swap", n).do = "swap"
      /\ StepOf("swap", n).op = n /\ n # 0
  BY <1>0, StepFacts
<1>5. ASSUME NEW i \in 1..Len(b)
      PROVE \/ b[i].do \notin Works \cup {"clear"} /\ b[i].op = 0
            \/ i = Len(b) /\ b[i].do = "swap" /\ b[i].op = n
  <2>1. i \in 1..Len(t) \/ i = Len(t) + 1 \/ i = Len(t) + 2 BY <1>1, <1>2, <1>3
  <2>2. CASE i \in 1..Len(t)
    <3>1. b[i] = t[i] BY <2>2, <1>1, <1>2, <1>3
    <3>. QED BY <3>1, <2>2, <1>1 DEF Works
  <2>3. CASE i = Len(t) + 1 
    <3>1. b[i] = StepOf(x, 0) BY <2>3, <1>1, <1>2, <1>3
    <3>. QED BY <3>1, <1>0, <1>4
  <2>4. CASE i = Len(t) + 2
    <3>1. b[i] = StepOf("swap", n) /\ i = Len(b) BY <2>4, <1>1, <1>2, <1>3
    <3>. QED BY <3>1, <1>4
  <2>. QED BY <2>1, <2>2, <2>3, <2>4
<1>6. CallOK(b, n) BY <1>3, <1>4, <1>5 DEF CallOK, Works
<1>. QED BY <1>6 DEF a, b

--------------------------------------------------------------------------------
(* The invariant of the direct calls. *)

\* A step names an operation exactly if it carries a call to the rasterizer.
OpsOK == \A i \in 1..Len(todo) : /\ todo[i].op <= issued
                                 /\ (todo[i].op # 0 <=> todo[i].do \in Works)

\* Only calls that were made are held back.
PendingOK == pending <= issued

\* The update event clears its flag first.
ClearOK == \A i \in 1..Len(todo) : todo[i].do = "clear" => i = 1

\* The flag says that the event is in the timing queue, about to be put there, or fires.
EventOK ==
  /\ page_table_update_event_scheduled <=>
       (events = 1 \/ gpu = "must_schedule" \/ At("clear"))
  /\ ~(events = 1 /\ gpu = "must_schedule") /\ ~(events = 1 /\ At("clear"))
  /\ ~(gpu = "must_schedule" /\ At("clear"))

StreamOK == /\ Len(handled) <= Len(published)
            /\ gpu # "waits" => Len(handled) < Len(published)

\* The updates applied and those noted are all that were made, in order.
UpdatesOK ==
  /\ has_page_table_updates <=> page_table_updates # << >>
  /\ \A i \in 1..Len(applied) : applied[i] = i
  /\ \A i \in 1..Len(page_table_updates) : page_table_updates[i] = Len(applied) + i
  /\ marks = Len(applied) + Len(page_table_updates)

\* A direct call is due now and nothing is in its way, or after the list is emptied, or
\* behind a wait for the queue and that.
DirectOK == \A i \in 1..Len(todo) : todo[i].do = "direct" =>
  \/ i = 1 /\ IsIdle /\ page_table_updates = << >>
  \/ i = 2 /\ todo[1].do \in {"drain", "apply"} /\ IsIdle
  \/ i >= 3 /\ todo[i - 1].do = "drain" /\ todo[i - 2].do = "idle"

Inv == TypeOK /\ OpsOK /\ PendingOK /\ ClearOK /\ EventOK /\ StreamOK /\ UpdatesOK /\ DirectOK

LEMMA AtIs ==
  ASSUME NEW t \in Seq(Step), NEW x
  PROVE  (t # << >> /\ Head(t).do = x) <=> (Len(t) >= 1 /\ t[1].do = x)
BY EmptySeq

LEMMA StartInv == Init => Inv
<1> SUFFICES ASSUME Init PROVE Inv OBVIOUS
<1>1. TypeOK
  <2>1. /\ mode \in Mode /\ pending \in 0..MaxOps /\ last_swap_fence \in Nat /\ gpu \in GpuStates
        /\ events \in {0, 1} /\ issued \in 0..MaxOps /\ executed \in 0..MaxOps
        /\ marks \in 0..MaxMarks
    BY DEF Init, GpuStates
  <2>2. /\ todo \in Seq(Step) /\ published \in Seq(Command) /\ handled \in Seq(Command)
        /\ page_table_updates \in Seq(1..MaxMarks) /\ applied \in Seq(1..MaxMarks)
    BY EmptySeq DEF Init, Stream!Init
  <2>3. has_page_table_updates \in BOOLEAN /\ page_table_update_event_scheduled \in BOOLEAN
    BY DEF Init
  <2>. QED BY <2>1, <2>2, <2>3 DEF TypeOK
<1>2. OpsOK /\ ClearOK /\ StreamOK /\ UpdatesOK /\ DirectOK
  BY DEF Init, Stream!Init, OpsOK, ClearOK, StreamOK, UpdatesOK, DirectOK
<1>3. EventOK BY DEF Init, EventOK, At
<1>4. PendingOK BY DEF Init, PendingOK
<1>. QED BY <1>1, <1>2, <1>3, <1>4 DEF Inv

\* A step that only leaves the head of the call.
LEMMA Popped ==
  ASSUME Inv, todo # << >>, Go(<< >>)
  PROVE  /\ todo' \in Seq(Step) /\ Len(todo) \in Nat /\ Len(todo) >= 1 /\ Head(todo) = todo[1]
         /\ Len(todo') = Len(todo) - 1
         /\ \A i \in 1..Len(todo') : i + 1 \in 1..Len(todo) /\ todo'[i] = todo[i + 1]
<1>1. todo \in Seq(Step) BY DEF Inv, TypeOK
<1> DEFINE e == << >>
<1>2. e \in Seq(Step) /\ Len(e) = 0 OBVIOUS
<1>3. Go(e) OBVIOUS
<1> HIDE DEF e
<1>4. /\ todo' \in Seq(Step) /\ Len(todo') = Len(e) + Len(todo) - 1
      /\ Len(todo) >= 1 /\ Head(todo) = todo[1] /\ Len(todo) \in Nat
      /\ \A i \in Len(e) + 1..Len(todo') : todo'[i] = todo[i - Len(e) + 1]
  BY <1>1, <1>2, <1>3, Spliced
<1>5. Len(todo') = Len(todo) - 1 BY <1>2, <1>4
<1>6. ASSUME NEW i \in 1..Len(todo') PROVE i + 1 \in 1..Len(todo) /\ todo'[i] = todo[i + 1]
  <2>1. i \in Len(e) + 1..Len(todo') /\ i - Len(e) + 1 = i + 1 BY <1>2, <1>4, <1>5
  <2>. QED BY <2>1, <1>4, <1>5
<1>. QED BY <1>4, <1>5, <1>6

LEMMA PopInv ==
  ASSUME Inv, todo # << >>, Go(<< >>), issued' = issued
  PROVE  /\ todo' \in Seq(Step) /\ OpsOK' /\ ClearOK' /\ ~At("clear")'
         /\ \A x : At(x) <=> todo[1].do = x
<1> DEFINE t == todo'
<1>1. /\ t \in Seq(Step) /\ Len(t) = Len(todo) - 1 /\ Len(todo) \in Nat /\ Len(todo) >= 1
      /\ \A i \in 1..Len(t) : i + 1 \in 1..Len(todo) /\ t[i] = todo[i + 1]
  BY Popped
<1>2. OpsOK' BY <1>1 DEF OpsOK, Inv
<1>3. ASSUME NEW i \in 1..Len(t) PROVE t[i].do # "clear"
  BY <1>1 DEF Inv, ClearOK
<1>4. ClearOK' BY <1>3 DEF ClearOK
<1>5. ~At("clear")'
  <2>1. At("clear")' <=> Len(t) >= 1 /\ t[1].do = "clear" BY <1>1, AtIs DEF At
  <2>. QED BY <2>1, <1>3, <1>1
<1>6. \A x : At(x) <=> todo[1].do = x BY Popped DEF At
<1>. QED BY <1>1, <1>2, <1>4, <1>5, <1>6

\* What is left of the call is still in order if a wait and a drain did their work.
LEMMA PopDirect ==
  ASSUME Inv, todo # << >>, Go(<< >>), todo[1].do = "idle" => IsIdle',
         todo[1].do \in {"drain", "apply"} /\ IsIdle => IsIdle' /\ page_table_updates' = << >>
  PROVE  DirectOK'
<1> DEFINE t == todo'
<1>1. /\ Len(t) = Len(todo) - 1 /\ Len(todo) \in Nat /\ Len(todo) >= 1
      /\ \A i \in 1..Len(t) : i + 1 \in 1..Len(todo) /\ t[i] = todo[i + 1]
  BY Popped
<1> SUFFICES ASSUME NEW i \in 1..Len(t), t[i].do = "direct"
             PROVE  \/ i = 1 /\ IsIdle' /\ page_table_updates' = << >>
                    \/ i = 2 /\ t[1].do \in {"drain", "apply"} /\ IsIdle'
                    \/ i >= 3 /\ t[i - 1].do = "drain" /\ t[i - 2].do = "idle"
  BY DEF DirectOK
<1> HIDE DEF t
<1>2. i + 1 \in 1..Len(todo) /\ todo[i + 1].do = "direct" /\ i \in Nat /\ i >= 1 BY <1>1
<1>3. \/ i + 1 = 1 /\ IsIdle /\ page_table_updates = << >>
      \/ i + 1 = 2 /\ todo[1].do \in {"drain", "apply"} /\ IsIdle
      \/ i + 1 >= 3 /\ todo[(i + 1) - 1].do = "drain" /\ todo[(i + 1) - 2].do = "idle"
  BY <1>2 DEF Inv, DirectOK
<1>4. CASE i = 1 BY <1>3, <1>4
<1>5. CASE i >= 2
  <2>1. todo[(i + 1) - 1].do = "drain" /\ todo[(i + 1) - 2].do = "idle" BY <1>3, <1>5
  <2>2. (i + 1) - 1 = i /\ (i + 1) - 2 = i - 1 /\ (i - 1) + 1 = i /\ i - 1 \in 1..Len(t)
    BY <1>2, <1>5, <1>1
  <2>3. t[i - 1].do = "drain" BY <2>1, <2>2, <1>1
  <2>4. CASE i = 2 BY <2>1, <2>3, <2>4
  <2>5. CASE i >= 3
    <3>1. (i - 2) + 1 = i - 1 /\ i - 2 \in 1..Len(t) BY <1>2, <2>5, <2>2
    <3>2. t[i - 2].do = "idle" BY <3>1, <2>1, <2>2, <1>1
    <3>. QED BY <2>3, <2>5, <3>2
  <2>. QED BY <2>4, <2>5, <1>5, <1>2
<1>. QED BY <1>4, <1>5, <1>2

\* Steps that only change the call, the mode and what is held back.
LEMMA Framed ==
  ASSUME Inv, UNCHANGED <<stream_vars, gpu, update_vars, executed, marks, applied>>,
         last_swap_fence' = last_swap_fence, mode' \in Mode, pending' \in 0..MaxOps,
         issued' \in 0..MaxOps, todo' \in Seq(Step), ~At("clear"), ~At("clear")'
  PROVE  TypeOK' /\ EventOK' /\ StreamOK' /\ UpdatesOK' /\ (IsIdle' <=> IsIdle)
<1>1. /\ published' = published /\ handled' = handled /\ gpu' = gpu
      /\ page_table_updates' = page_table_updates
      /\ has_page_table_updates' = has_page_table_updates
      /\ page_table_update_event_scheduled' = page_table_update_event_scheduled
      /\ events' = events /\ executed' = executed /\ marks' = marks /\ applied' = applied
  BY DEF stream_vars, update_vars
<1>2. TypeOK' BY <1>1 DEF Inv, TypeOK
<1>3. EventOK' BY <1>1 DEF Inv, EventOK
<1>4. StreamOK' /\ UpdatesOK' /\ (IsIdle' <=> IsIdle)
  BY <1>1 DEF Inv, StreamOK, UpdatesOK, IsIdle
<1>. QED BY <1>2, <1>3, <1>4

LEMMA NoStepNotAt == ASSUME todo = << >>, NEW x PROVE ~At(x)
BY DEF At

\* A new call.
LEMMA CallInv ==
  ASSUME Inv, NEW s, Call(s), CallOK(s, issued + 1), pending' \in {pending, issued + 1}
  PROVE  Inv'
<1>1. /\ todo = << >> /\ issued' = issued + 1 /\ todo' = s /\ mode' = mode
      /\ UNCHANGED <<stream_vars, gpu, update_vars, executed, marks, applied>>
      /\ last_swap_fence' = last_swap_fence
  BY DEF Call
<1>2. issued \in 0..MaxOps /\ issued' \in 1..MaxOps /\ MaxOps \in Nat BY DEF Inv, TypeOK, Call
<1>3. s \in Seq(Step) /\ \A i \in 1..Len(s) : s[i].do # "clear" BY DEF CallOK
<1>4. ~At("clear") BY <1>1, NoStepNotAt
<1>5. ~At("clear")'
  <2>1. At("clear")' <=> Len(s) >= 1 /\ s[1].do = "clear" BY <1>1, <1>3, AtIs DEF At
  <2>. QED BY <2>1, <1>3
<1>6. mode' \in Mode BY <1>1 DEF Inv, TypeOK
<1>7. issued' \in 0..MaxOps BY <1>2
<1>12. PendingOK' /\ pending' \in 0..MaxOps BY <1>1, <1>2 DEF Inv, TypeOK, PendingOK
<1>8. TypeOK' /\ EventOK' /\ StreamOK' /\ UpdatesOK'
  BY <1>12, <1>1, <1>3, <1>4, <1>5, <1>6, <1>7, Framed
<1>9. OpsOK'
  <2> SUFFICES ASSUME NEW i \in 1..Len(s)
               PROVE s[i].op <= issued' /\ (s[i].op # 0 <=> s[i].do \in Works)
    BY <1>1 DEF OpsOK
  <2>1. s[i].op \in {0, issued + 1} /\ (s[i].op # 0 <=> s[i].do \in Works) BY DEF CallOK
  <2>2. issued' = issued + 1 BY <1>1
  <2>. QED BY <2>1, <2>2, <1>2
<1>10. ClearOK' BY <1>1, <1>3 DEF ClearOK
<1>11. DirectOK' BY <1>1 DEF DirectOK, CallOK
<1>. QED BY <1>8, <1>9, <1>10, <1>11, <1>12 DEF Inv

LEMMA NextOp == ASSUME Inv, issued < MaxOps PROVE issued + 1 \in 1..MaxOps
BY DEF Inv, TypeOK

LEMMA SubmitCall ==
  ASSUME Inv, NEW works \in BOOLEAN, Submit(works)
  PROVE  \E s : Call(s) /\ CallOK(s, issued + 1)
<1> DEFINE n == issued + 1
           s == IF mode = "sync" THEN Direct(n)
                ELSE QueueAsync(n) \o (IF works THEN IfStrict ELSE << >>)
<1>1. Call(s) BY DEF Submit
<1>2. n \in 1..MaxOps BY NextOp DEF Submit, Call
<1> HIDE DEF n
<1>3. CASE mode = "sync"
  <2>1. s = Direct(n) BY <1>3
  <2>2. CallOK(s, n) BY <2>1, <1>2, DirectCall
  <2>. QED BY <1>1, <2>2 DEF n
<1>4. CASE mode # "sync"
  <2> DEFINE u == IF works THEN IfStrict ELSE << >>
  <2>1. s = QueueAsync(n) \o u BY <1>4
  <2>2. u = << >> \/ u = SyncGpuThread BY DEF IfStrict
  <2> HIDE DEF u
  <2>3. s = Do("flush", 0) \o Do("queue", n) \o u BY <2>1 DEF QueueAsync
  <2>4. CallOK(s, n) BY <2>2, <2>3, <1>2, QueueCall
  <2>. QED BY <1>1, <2>4 DEF n
<1>. QED BY <1>3, <1>4

LEMMA InvalidateCall ==
  ASSUME Inv, NEW close \in BOOLEAN, InvalidateRegion(close)
  PROVE  \E s : Call(s) /\ CallOK(s, issued + 1)
<1> DEFINE n == issued + 1
<1>2. n \in 1..MaxOps BY NextOp DEF InvalidateRegion, Call
<1>3. CASE Call(Direct(n)) BY <1>2, <1>3, DirectCall
<1>4. CASE Call(<< >>) BY <1>2, <1>4, EmptyCall
<1>5. CASE Call(Do("flush", 0) \o Do("hold", n) \o IfStrict)
  <2>2. IfStrict = << >> \/ IfStrict = SyncGpuThread BY DEF IfStrict
  <2> HIDE DEF n
  <2>4. CallOK(Do("flush", 0) \o Do("hold", n) \o IfStrict, n) BY <2>2, <1>2, QueueCall
  <2>. QED BY <1>5, <2>4 DEF n
<1>. QED BY <1>3, <1>4, <1>5 DEF InvalidateRegion

LEMMA VBlankCall ==
  ASSUME Inv, NEW new \in Mode, VBlank(new)
  PROVE  \E s : Call(s) /\ CallOK(s, issued + 1)
<1> DEFINE n == issued + 1
           t == IF mode # "sync" /\ new = "sync" THEN SyncGpuThread ELSE << >>
<1>1. Call(t \o Do(new, 0) \o Do("swap", n)) BY DEF VBlank
<1>2. n \in 1..MaxOps BY NextOp DEF VBlank, Call
<1>3. t \in {<< >>, SyncGpuThread} OBVIOUS
<1> HIDE DEF n, t
<1>4. CallOK(t \o Do(new, 0) \o Do("swap", n), n) BY <1>2, <1>3, SwapCall
<1>. QED BY <1>1, <1>4 DEF n

LEMMA FlushRegionCall ==
  ASSUME Inv, FlushRegion
  PROVE  \E s : Call(s) /\ CallOK(s, issued + 1)
<1>1. Call(Direct(issued + 1)) /\ issued + 1 \in 1..MaxOps BY NextOp DEF FlushRegion, Call
<1>. QED BY <1>1, DirectCall

IsCall == \/ FlushRegion \/ \E works \in BOOLEAN : Submit(works)
          \/ \E close \in BOOLEAN : InvalidateRegion(close)
          \/ \E new \in Mode : VBlank(new)

LEMMA CallsAre ==
  ASSUME Inv, IsCall
  PROVE  /\ \E s : Call(s) /\ CallOK(s, issued + 1)
         /\ issued + 1 \in 1..MaxOps
         /\ (pending' = pending \/ (pending' = issued + 1 /\ todo' = << >>))
<1>1. \E s : Call(s) /\ CallOK(s, issued + 1)
  BY SubmitCall, InvalidateCall, VBlankCall, FlushRegionCall DEF IsCall
<1>2. issued + 1 \in 1..MaxOps BY <1>1, NextOp DEF Call
<1>3. pending' = pending \/ (pending' = issued + 1 /\ todo' = << >>)
  BY DEF IsCall, Submit, InvalidateRegion, VBlank, FlushRegion, Call
<1>. QED BY <1>1, <1>2, <1>3

LEMMA CallsInv == ASSUME Inv, IsCall PROVE Inv'
<1>1. pending' \in {pending, issued + 1} BY CallsAre
<1>. QED BY <1>1, CallsAre, CallInv

--------------------------------------------------------------------------------
(* The steps of the emulation thread. *)

LEMMA OverdueSteps ==
  ASSUME NEW n \in 1..MaxOps
  PROVE  /\ Overdue(n) \in Seq(Step)
         /\ IsIdle => /\ Len(Overdue(n)) = 2 /\ Overdue(n)[1] = StepOf("drain", 0)
                      /\ Overdue(n)[2] = StepOf("direct", n)
         /\ ~IsIdle => Len(Overdue(n)) = 1 /\ Overdue(n)[1] = StepOf("queue", n)
<1>0. /\ "drain" \in Names /\ "direct" \in Names /\ "queue" \in Names /\ n \in 0..MaxOps
      /\ 0 \in 0..MaxOps
  BY StepFacts
<1>1. CASE IsIdle
  <2> DEFINE a == Do("drain", 0)
             b == a \o Do("direct", n)
  <2>1. a \in Seq(Step) /\ Len(a) = 1 /\ a[1] = StepOf("drain", 0) BY <1>0, DoIs
  <2>2. Overdue(n) = b BY <1>1 DEF Overdue
  <2> HIDE DEF a
  <2>3. /\ b \in Seq(Step) /\ Len(b) = Len(a) + 1 /\ \A i \in 1..Len(a) : b[i] = a[i]
        /\ b[Len(a) + 1] = StepOf("direct", n)
    BY <1>0, <2>1, AndThen
  <2> HIDE DEF b
  <2>. QED BY <1>1, <2>1, <2>2, <2>3
<1>2. CASE ~IsIdle
  <2>1. Overdue(n) = Do("queue", n) BY <1>2 DEF Overdue
  <2>. QED BY <1>0, <1>2, <2>1, DoIs
<1>. QED BY <1>1, <1>2

LEMMA SwapStepsAre ==
  ASSUME NEW n \in 1..MaxOps
  PROVE  /\ SwapSteps(n) \in Seq(Step)
         /\ mode = "sync" => SwapSteps(n) = Direct(n)
         /\ mode # "sync" =>
              /\ Len(SwapSteps(n)) = 3 /\ SwapSteps(n)[1] = StepOf("fence", 0)
              /\ SwapSteps(n)[2] = StepOf("flush", 0) /\ SwapSteps(n)[3] = StepOf("queue_swap", n)
<1>0. /\ "fence" \in Names /\ "flush" \in Names /\ "queue_swap" \in Names /\ n \in 0..MaxOps
      /\ 0 \in 0..MaxOps
  BY StepFacts
<1>1. CASE mode = "sync"
  <2>1. SwapSteps(n) = Direct(n) BY <1>1 DEF SwapSteps
  <2>2. Direct(n) \in Seq(Step) BY DirectCall DEF CallOK
  <2>. QED BY <1>1, <2>1, <2>2
<1>2. CASE mode # "sync"
  <2> DEFINE a == Do("fence", 0)
             b == a \o Do("flush", 0)
             c == b \o Do("queue_swap", n)
  <2>1. a \in Seq(Step) /\ Len(a) = 1 /\ a[1] = StepOf("fence", 0) BY <1>0, DoIs
  <2>2. SwapSteps(n) = c BY <1>2 DEF SwapSteps
  <2> HIDE DEF a
  <2>3. /\ b \in Seq(Step) /\ Len(b) = Len(a) + 1 /\ \A i \in 1..Len(a) : b[i] = a[i]
        /\ b[Len(a) + 1] = StepOf("flush", 0)
    BY <1>0, <2>1, AndThen
  <2> HIDE DEF b
  <2>4. /\ c \in Seq(Step) /\ Len(c) = Len(b) + 1 /\ \A i \in 1..Len(b) : c[i] = b[i]
        /\ c[Len(b) + 1] = StepOf("queue_swap", n)
    BY <1>0, <2>3, AndThen
  <2> HIDE DEF c
  <2>. QED BY <1>2, <2>1, <2>2, <2>3, <2>4
<1>. QED BY <1>1, <1>2

\* Steps that make several of one.
LEMMA SpliceInv ==
  ASSUME Inv, todo # << >>, NEW steps \in Seq(Step), Go(steps), issued' = issued, Len(steps) >= 1,
         \A i \in 1..Len(steps) : /\ steps[i].op <= issued /\ steps[i].do # "clear"
                                  /\ (steps[i].op # 0 <=> steps[i].do \in Works)
  PROVE  todo' \in Seq(Step) /\ OpsOK' /\ ClearOK' /\ ~At("clear")'
<1> DEFINE t == todo'
           k == Len(steps)
<1>0. todo \in Seq(Step) BY DEF Inv, TypeOK
<1>1. /\ t \in Seq(Step) /\ Len(t) = k + Len(todo) - 1 /\ Len(todo) >= 1
      /\ k \in Nat /\ Len(todo) \in Nat
      /\ \A i \in 1..k : t[i] = steps[i]
      /\ \A i \in k + 1..Len(t) : t[i] = todo[i - k + 1]
  BY <1>0, Spliced
<1>2. ASSUME NEW i \in 1..Len(t)
      PROVE  /\ t[i].op <= issued /\ t[i].do # "clear"
             /\ (t[i].op # 0 <=> t[i].do \in Works)
  <2>1. CASE i <= k
    <3>1. i \in 1..k BY <2>1, <1>1
    <3>. QED BY <3>1, <1>1
  <2>2. CASE ~(i <= k)
    <3> DEFINE j == i - k + 1
    <3>1. i \in k + 1..Len(t) /\ j \in 1..Len(todo) /\ j # 1 BY <2>2, <1>1
    <3>2. t[i] = todo[j] BY <3>1, <1>1
    <3> HIDE DEF j
    <3>. QED BY <3>1, <3>2 DEF Inv, OpsOK, ClearOK
  <2>. QED BY <2>1, <2>2
<1>3. OpsOK' BY <1>2 DEF OpsOK
<1>4. ClearOK' BY <1>2 DEF ClearOK
<1>5. ~At("clear")'
  <2>1. At("clear")' <=> Len(t) >= 1 /\ t[1].do = "clear" BY <1>1, AtIs DEF At
  <2>. QED BY <2>1, <1>2, <1>1
<1>. QED BY <1>1, <1>3, <1>4, <1>5

LEMMA SpliceDirect ==
  ASSUME Inv, todo # << >>, NEW steps \in Seq(Step), Go(steps), Len(steps) >= 1,
         todo[1].do # "idle",
         todo[1].do \in {"drain", "apply"} =>
           Len(steps) = 1 /\ steps[1].do \in {"drain", "apply"} /\ (IsIdle => IsIdle'),
         \A i \in 1..Len(steps) : steps[i].do = "direct" =>
           \/ i = 2 /\ steps[1].do \in {"drain", "apply"} /\ IsIdle'
           \/ i >= 3 /\ steps[i - 1].do = "drain" /\ steps[i - 2].do = "idle"
  PROVE  DirectOK'
<1> DEFINE t == todo'
           k == Len(steps)
<1>0. todo \in Seq(Step) BY DEF Inv, TypeOK
<1>1. /\ t \in Seq(Step) /\ Len(t) = k + Len(todo) - 1 /\ Len(todo) >= 1
      /\ k \in Nat /\ Len(todo) \in Nat
      /\ \A i \in 1..k : t[i] = steps[i]
      /\ \A i \in k + 1..Len(t) : t[i] = todo[i - k + 1]
  BY <1>0, Spliced
<1> SUFFICES ASSUME NEW i \in 1..Len(t), t[i].do = "direct"
             PROVE  \/ i = 1 /\ IsIdle' /\ page_table_updates' = << >>
                    \/ i = 2 /\ t[1].do \in {"drain", "apply"} /\ IsIdle'
                    \/ i >= 3 /\ t[i - 1].do = "drain" /\ t[i - 2].do = "idle"
  BY DEF DirectOK
<1> HIDE DEF t
<1>2. CASE i <= k
  <2>1. i \in 1..k /\ t[i] = steps[i] BY <1>1, <1>2
  <2>2. CASE i = 2 /\ steps[1].do \in {"drain", "apply"} /\ IsIdle'
    <3>1. 1 \in 1..k BY <1>1
    <3>. QED BY <2>2, <3>1, <1>1
  <2>3. CASE i >= 3 /\ steps[i - 1].do = "drain" /\ steps[i - 2].do = "idle"
    <3>0. i >= 3 /\ i \in 1..k /\ k \in Nat BY <2>1, <2>3, <1>1
    <3>1. i - 1 \in 1..k /\ i - 2 \in 1..k
      <4> HIDE DEF k
      <4>. QED BY ONLY <3>0, SMT
    <3>. QED BY <2>3, <3>1, <1>1
  <2>. QED BY <2>1, <2>2, <2>3
<1>3. CASE ~(i <= k)
  <2> DEFINE j == i - k + 1
  <2>1. i \in k + 1..Len(t) /\ j \in 1..Len(todo) /\ j > 1 BY <1>3, <1>1, SMTT(30)
  <2>2. todo[j].do = "direct" BY <2>1, <1>1
  <2>3. j = i - k + 1 /\ i \in Nat BY <1>1
  <2> HIDE DEF j
  <2>4. \/ j = 2 /\ todo[1].do \in {"drain", "apply"} /\ IsIdle
        \/ j >= 3 /\ todo[j - 1].do = "drain" /\ todo[j - 2].do = "idle"
    BY <2>1, <2>2 DEF Inv, DirectOK
  <2>5. CASE j = 2 /\ todo[1].do \in {"drain", "apply"} /\ IsIdle
    <3>1. i = 2 /\ k = 1 BY <2>3, <2>5, <1>1
    <3>2. t[1] = steps[1] BY <3>1, <1>1
    <3>. QED BY <3>1, <3>2, <2>5
  <2>6. CASE j >= 3 /\ todo[j - 1].do = "drain" /\ todo[j - 2].do = "idle"
    <3>1. j - 2 # 1 BY <2>6
    <3>2. /\ j >= 4 /\ i - 1 \in k + 1..Len(t) /\ i - 2 \in k + 1..Len(t) /\ i >= 3
          /\ (i - 1) - k + 1 = j - 1 /\ (i - 2) - k + 1 = j - 2
      BY <3>1, <2>6, <2>3, <2>1, <1>1, SMTT(30)
    <3>3. t[i - 1] = todo[j - 1] /\ t[i - 2] = todo[j - 2] BY <3>2, <1>1
    <3>. QED BY <3>2, <3>3, <2>6
  <2>. QED BY <2>4, <2>5, <2>6
<1>. QED BY <1>2, <1>3

LEMMA AtHead ==
  ASSUME Inv, todo # << >>
  PROVE  /\ Len(todo) \in Nat /\ Len(todo) >= 1 /\ Head(todo) = todo[1] /\ todo[1] \in Step
         /\ todo[1].op \in 0..MaxOps /\ todo[1].op <= issued
         /\ (todo[1].op # 0 <=> todo[1].do \in Works)
<1>1. todo \in Seq(Step) BY DEF Inv, TypeOK
<1>2. Len(todo) \in Nat /\ Len(todo) >= 1 /\ Head(todo) = todo[1] /\ todo[1] \in Step
  BY <1>1, EmptySeq
<1>3. todo[1].op \in 0..MaxOps BY <1>2 DEF Step
<1>4. 1 \in 1..Len(todo) BY <1>2
<1>. QED BY <1>2, <1>3, <1>4 DEF Inv, OpsOK

\* The steps that only go on.
LEMMA PopsInv ==
  ASSUME Inv, todo # << >>, Go(<< >>), todo[1].do # "clear",
         UNCHANGED <<stream_vars, gpu, update_vars, executed, marks, applied>>,
         last_swap_fence' = last_swap_fence, mode' \in Mode, pending' \in 0..MaxOps,
         pending' <= issued, issued' = issued, todo[1].do = "idle" => IsIdle,
         todo[1].do \in {"drain", "apply"} => page_table_updates = << >>
  PROVE  Inv'
<1>1. todo' \in Seq(Step) /\ OpsOK' /\ ClearOK' /\ ~At("clear")' /\ ~At("clear") BY PopInv
<1>2. issued' \in 0..MaxOps BY DEF Inv, TypeOK
<1>3. TypeOK' /\ EventOK' /\ StreamOK' /\ UpdatesOK' /\ (IsIdle' <=> IsIdle)
  BY <1>1, <1>2, Framed
<1>4. page_table_updates' = page_table_updates BY DEF update_vars
<1>5. DirectOK' BY <1>3, <1>4, PopDirect
<1>6. PendingOK' BY DEF PendingOK
<1>. QED BY <1>1, <1>3, <1>5, <1>6 DEF Inv

LEMMA FlushInv == ASSUME Inv, Flush PROVE Inv'
<1>1. /\ todo # << >> /\ Head(todo).do = "flush" /\ pending' = 0 /\ issued' = issued
      /\ mode' = mode /\ last_swap_fence' = last_swap_fence
      /\ UNCHANGED <<stream_vars, gpu, update_vars, executed, marks, applied>>
  BY DEF Flush, At
<1>2. Len(todo) >= 1 /\ todo[1].do = "flush" BY <1>1, AtHead
<1>3. mode' \in Mode /\ pending' \in 0..MaxOps /\ issued' \in 0..MaxOps /\ pending \in 0..MaxOps
      /\ issued \in 0..MaxOps /\ pending' <= issued /\ pending <= issued /\ MaxOps \in Nat
  BY <1>1 DEF Inv, TypeOK, PendingOK
<1>4. CASE pending = 0
  <2>1. Go(<< >>) BY <1>4 DEF Flush
  <2>. QED BY <2>1, <1>1, <1>2, <1>3, PopsInv
<1>5. CASE pending # 0
  <2> DEFINE s == Overdue(pending)
  <2>1. Go(s) BY <1>5 DEF Flush
  <2>2. pending \in 1..MaxOps BY <1>3, <1>5
  <2>3. /\ s \in Seq(Step)
        /\ IsIdle => /\ Len(s) = 2 /\ s[1] = StepOf("drain", 0)
                     /\ s[2] = StepOf("direct", pending)
        /\ ~IsIdle => Len(s) = 1 /\ s[1] = StepOf("queue", pending)
    BY <2>2, OverdueSteps
  <2> HIDE DEF s
  <2>4. /\ StepOf("drain", 0).do = "drain" /\ StepOf("drain", 0).op = 0
        /\ StepOf("direct", pending).do = "direct" /\ StepOf("direct", pending).op = pending
        /\ StepOf("queue", pending).do = "queue" /\ StepOf("queue", pending).op = pending
    BY <2>2, StepFacts
  <2>5. Len(s) \in {1, 2} BY <2>3
  <2>6. ASSUME NEW i \in 1..Len(s)
        PROVE /\ s[i].op <= issued /\ s[i].do # "clear" /\ (s[i].op # 0 <=> s[i].do \in Works)
              /\ (s[i].do = "direct" => i = 2 /\ s[1].do = "drain" /\ IsIdle)
    <3>1. CASE IsIdle
      <4>1. Len(s) = 2 /\ s[1] = StepOf("drain", 0) /\ s[2] = StepOf("direct", pending)
        BY <3>1, <2>3
      <4>2. i = 1 \/ i = 2 BY <4>1
      <4>. QED BY <3>1, <4>1, <4>2, <2>4, <1>3, <1>5 DEF Works
    <3>2. CASE ~IsIdle
      <4>1. Len(s) = 1 /\ s[1] = StepOf("queue", pending) BY <3>2, <2>3
      <4>2. i = 1 BY <4>1
      <4>. QED BY <4>1, <4>2, <2>4, <1>3, <1>5 DEF Works
    <3>. QED BY <3>1, <3>2
  <2>7. todo' \in Seq(Step) /\ OpsOK' /\ ClearOK' /\ ~At("clear")'
    BY <2>1, <2>3, <2>5, <2>6, <1>1, SpliceInv
  <2>8. ~At("clear") BY <1>1 DEF At
  <2>9. TypeOK' /\ EventOK' /\ StreamOK' /\ UpdatesOK' /\ (IsIdle' <=> IsIdle)
    BY <2>7, <2>8, <1>1, <1>3, Framed
  <2>10. DirectOK'
    <3>1. todo[1].do \notin {"idle", "drain", "apply"} BY <1>2
    <3>2. Len(s) >= 1 BY <2>5
    <3>. QED BY <3>1, <3>2, <2>1, <2>3, <2>6, <2>9, <1>1, SpliceDirect
  <2>11. PendingOK' BY <1>1, <1>3 DEF PendingOK
  <2>. QED BY <2>7, <2>9, <2>10, <2>11 DEF Inv
<1>. QED BY <1>4, <1>5

LEMMA HoldInv == ASSUME Inv, Hold PROVE Inv'
<1>1. /\ todo # << >> /\ Head(todo).do = "hold" /\ pending' = Head(todo).op /\ issued' = issued
      /\ mode' = mode /\ last_swap_fence' = last_swap_fence /\ Go(<< >>)
      /\ UNCHANGED <<stream_vars, gpu, update_vars, executed, marks, applied>>
  BY DEF Hold, At, This
<1>2. todo[1].do = "hold" /\ pending' \in 0..MaxOps /\ pending' <= issued BY <1>1, AtHead
<1>3. mode' \in Mode BY <1>1 DEF Inv, TypeOK
<1>. QED BY <1>1, <1>2, <1>3, PopsInv

LEMMA SetModeInv == ASSUME Inv, SetMode PROVE Inv'
<1>1. /\ todo # << >> /\ Head(todo).do \in Mode /\ mode' \in Mode /\ issued' = issued
      /\ pending' = pending /\ last_swap_fence' = last_swap_fence /\ Go(<< >>)
      /\ UNCHANGED <<stream_vars, gpu, update_vars, executed, marks, applied>>
  BY DEF SetMode, At
<1>2. todo[1].do \in Mode BY <1>1, AtHead
<1>3. pending' \in 0..MaxOps /\ pending' <= issued BY <1>1 DEF Inv, TypeOK, PendingOK
<1>4. todo[1].do \notin {"clear", "idle", "drain", "apply"} BY <1>2 DEF Mode
<1>. QED BY <1>1, <1>3, <1>4, PopsInv

LEMMA ProceedInv == ASSUME Inv, Proceed PROVE Inv'
<1>1. /\ pending' = pending /\ issued' = issued
      /\ mode' = mode /\ last_swap_fence' = last_swap_fence
      /\ UNCHANGED <<stream_vars, gpu, update_vars, executed, marks, applied>>
  BY DEF Proceed
<1>2. /\ mode' \in Mode /\ pending' \in 0..MaxOps /\ pending' <= issued /\ issued' \in 0..MaxOps
      /\ PendingOK'
  BY <1>1 DEF Inv, TypeOK, PendingOK
<1>3. CASE At("idle") /\ IsIdle /\ Go(<< >>)
  <2>1. todo # << >> /\ todo[1].do = "idle" BY <1>3, AtHead DEF At
  <2>. QED BY <2>1, <1>1, <1>2, <1>3, PopsInv
<1>4. CASE At("fence") /\ Go(<< >>)
  <2>1. todo # << >> /\ todo[1].do = "fence" BY <1>4, AtHead DEF At
  <2>. QED BY <2>1, <1>1, <1>2, <1>4, PopsInv
<1>5. CASE At("drain") /\ Go(IF has_page_table_updates THEN Do("apply", 0) ELSE << >>)
  <2>1. todo # << >> /\ todo[1].do = "drain" /\ ~At("clear") BY <1>5, AtHead DEF At
  <2>2. CASE ~has_page_table_updates
    <3>1. Go(<< >>) BY <2>2, <1>5
    <3>2. page_table_updates = << >> BY <2>2 DEF Inv, UpdatesOK
    <3>. QED BY <2>1, <3>1, <3>2, <1>1, <1>2, PopsInv
  <2>3. CASE has_page_table_updates
    <3> DEFINE s == Do("apply", 0)
    <3>1. Go(s) BY <2>3, <1>5
    <3>2. 0 \in 0..MaxOps /\ "apply" \in Names BY DEF Names
    <3>3. s \in Seq(Step) /\ Len(s) = 1 /\ s[1] = StepOf("apply", 0) BY <3>2, DoIs
    <3>4. s[1].do = "apply" /\ s[1].op = 0 BY <3>2, <3>3, StepTypes
    <3> HIDE DEF s
    <3>5. issued \in Nat BY DEF Inv, TypeOK
    <3>6. \A i \in 1..Len(s) : /\ s[i].op <= issued /\ s[i].do # "clear" /\ s[i].do # "direct"
                               /\ (s[i].op # 0 <=> s[i].do \in Works)
      BY <3>3, <3>4, <3>5 DEF Works
    <3>7. todo' \in Seq(Step) /\ OpsOK' /\ ClearOK' /\ ~At("clear")'
      BY <3>1, <3>3, <3>6, <2>1, <1>1, SpliceInv
    <3>8. TypeOK' /\ EventOK' /\ StreamOK' /\ UpdatesOK' /\ (IsIdle' <=> IsIdle)
      BY <3>7, <2>1, <1>1, <1>2, Framed
    <3>9. DirectOK' BY <3>1, <3>3, <3>4, <3>6, <3>8, <2>1, SpliceDirect
    <3>. QED BY <3>7, <3>8, <3>9, <1>2 DEF Inv
  <2>. QED BY <2>2, <2>3
<1>6. CASE At("swap") /\ Go(SwapSteps(This))
  <2> DEFINE n == todo[1].op
             s == SwapSteps(n)
  <2>1. todo # << >> /\ todo[1].do = "swap" /\ ~At("clear") BY <1>6, AtHead DEF At
  <2>2. n \in 1..MaxOps /\ n <= issued /\ n \in Nat BY <2>1, AtHead DEF Works
  <2>3. Go(s) BY <2>1, <1>6, AtHead DEF This
  <2> HIDE DEF n
  <2>4. s \in Seq(Step) /\ Len(s) >= 1 /\ (mode = "sync" => s = Direct(n))
    BY <2>2, SwapStepsAre, DirectCall
  <2>5. /\ \A i \in 1..Len(s) : /\ s[i].op \in {0, n} /\ s[i].do # "clear"
                               /\ (s[i].op # 0 <=> s[i].do \in Works)
        /\ \A i \in 1..Len(s) : s[i].do = "direct" =>
             i >= 3 /\ s[i - 1].do = "drain" /\ s[i - 2].do = "idle"
    <3>1. CASE mode = "sync"
      <4>1. s = Direct(n) BY <3>1, <2>4
      <4>2. CallOK(s, n) BY <4>1, <2>2, DirectCall
      <4> HIDE DEF s
      <4>. QED BY <4>2 DEF CallOK
    <3>2. CASE mode # "sync"
      <4>1. /\ Len(s) = 3 /\ s[1] = StepOf("fence", 0) /\ s[2] = StepOf("flush", 0)
            /\ s[3] = StepOf("queue_swap", n)
        BY <3>2, <2>2, SwapStepsAre
      <4>2. /\ s[1].do = "fence" /\ s[2].do = "flush" /\ s[3].do = "queue_swap"
            /\ s[1].op = 0 /\ s[2].op = 0 /\ s[3].op = n
        BY <4>1, <2>2, StepFacts
      <4> HIDE DEF s
      <4>3. \A i \in 1..Len(s) : i \in {1, 2, 3} BY <4>1
      <4>4. n # 0 BY <2>2
      <4>5. ASSUME NEW i \in {1, 2, 3}
            PROVE  /\ s[i].op \in {0, n} /\ s[i].do # "clear" /\ s[i].do # "direct"
                   /\ (s[i].op # 0 <=> s[i].do \in Works)
        BY <4>2, <4>4 DEF Works
      <4>. QED BY <4>3, <4>5
    <3>. QED BY <3>1, <3>2
  <2> HIDE DEF s
  <2>6. issued \in Nat BY DEF Inv, TypeOK
  <2>7. \A i \in 1..Len(s) : s[i].op <= issued BY <2>2, <2>5, <2>6
  <2>8. todo' \in Seq(Step) /\ OpsOK' /\ ClearOK' /\ ~At("clear")'
    BY <2>1, <2>3, <2>4, <2>5, <2>7, <1>1, SpliceInv
  <2>9. TypeOK' /\ EventOK' /\ StreamOK' /\ UpdatesOK'
    BY <2>8, <2>1, <1>1, <1>2, Framed
  <2>10. DirectOK' BY <2>1, <2>3, <2>4, <2>5, SpliceDirect
  <2>. QED BY <2>8, <2>9, <2>10, <1>2 DEF Inv
<1>. QED BY <1>3, <1>4, <1>5, <1>6 DEF Proceed

LEMMA PublishInv == ASSUME Inv, Publish PROVE Inv'
<1> DEFINE q == At("queue_swap")
           c == [op |-> This, swap |-> q]
<1>1. /\ todo # << >> /\ Head(todo).do \in {"queue", "queue_swap"} /\ Go(<< >>)
      /\ published' = Append(published, c) /\ handled' = handled /\ gpu' = gpu
      /\ mode' = mode /\ pending' = pending /\ issued' = issued /\ executed' = executed
      /\ marks' = marks /\ applied' = applied
  BY DEF Publish, At
<1>2. /\ page_table_updates' = page_table_updates
      /\ has_page_table_updates' = has_page_table_updates
      /\ page_table_update_event_scheduled' = page_table_update_event_scheduled
      /\ events' = events
  BY DEF Publish, update_vars
<1>3. todo[1].do \in {"queue", "queue_swap"} /\ This = todo[1].op /\ todo[1].op \in 1..MaxOps
  BY <1>1, AtHead DEF This, Works
<1>4. c \in Command
  <2>1. q \in BOOLEAN BY DEF At
  <2> HIDE DEF q
  <2>. QED BY <1>3, <2>1 DEF Command, Op
<1>5. published \in Seq(Command) /\ handled \in Seq(Command) BY DEF Inv, TypeOK
<1> HIDE DEF c
<1>6. published' \in Seq(Command) /\ Len(published') = Len(published) + 1 /\ Len(published) \in Nat
  BY <1>1, <1>4, <1>5, AppendProperties
<1>7. last_swap_fence' \in Nat
  <2>1. last_swap_fence \in Nat BY DEF Inv, TypeOK
  <2>2. last_swap_fence' = IF q THEN Len(published) + 1 ELSE last_swap_fence BY DEF Publish, Fence
  <2>. QED BY <2>1, <2>2, <1>6
<1>8. todo' \in Seq(Step) /\ OpsOK' /\ ClearOK' /\ ~At("clear")' /\ ~At("clear")
  <2>1. todo[1].do # "clear" BY <1>3
  <2>. QED BY <2>1, <1>1, PopInv
<1>9. TypeOK' BY <1>1, <1>2, <1>6, <1>7, <1>8 DEF Inv, TypeOK
<1>10. EventOK' BY <1>1, <1>2, <1>8 DEF Inv, EventOK
<1>11. UpdatesOK' BY <1>1, <1>2 DEF Inv, UpdatesOK
<1>12. StreamOK'
  <2>1. Len(handled) \in Nat BY <1>5
  <2>. QED BY <1>1, <1>6, <2>1 DEF Inv, StreamOK
<1>13. DirectOK'
  <2>1. todo[1].do \notin {"idle", "drain", "apply"} BY <1>3
  <2>. QED BY <2>1, <1>1, PopDirect
<1>14. PendingOK' BY <1>1 DEF Inv, PendingOK
<1>. QED BY <1>8, <1>9, <1>10, <1>11, <1>12, <1>13, <1>14 DEF Inv

\* Two lists of updates in a row are one.
LEMMA ApplyUpdates ==
  ASSUME Inv
  PROVE  /\ applied \o page_table_updates \in Seq(1..MaxMarks)
         /\ Len(applied \o page_table_updates) = marks
         /\ \A i \in 1..marks : (applied \o page_table_updates)[i] = i
<1> DEFINE a == applied
           p == page_table_updates
           r == a \o p
<1>1. /\ a \in Seq(1..MaxMarks) /\ p \in Seq(1..MaxMarks) /\ Len(a) \in Nat /\ Len(p) \in Nat
  BY DEF Inv, TypeOK
<1>2. /\ \A i \in 1..Len(a) : a[i] = i
      /\ \A i \in 1..Len(p) : p[i] = Len(a) + i
      /\ marks = Len(a) + Len(p)
  BY DEF Inv, UpdatesOK
<1> HIDE DEF a, p
<1>3. /\ r \in Seq(1..MaxMarks) /\ Len(r) = Len(a) + Len(p)
      /\ \A i \in 1..Len(a) + Len(p) : r[i] = IF i <= Len(a) THEN a[i] ELSE p[i - Len(a)]
  BY <1>1, ConcatProperties
<1> HIDE DEF r
<1>4. ASSUME NEW i \in 1..marks PROVE r[i] = i
  <2>0. i \in 1..Len(a) + Len(p) BY <1>2
  <2>1. CASE i <= Len(a)
    <3>1. i \in 1..Len(a) BY <2>0, <2>1, <1>1
    <3>2. r[i] = a[i] BY <2>0, <2>1, <1>3
    <3>. QED BY <3>1, <3>2, <1>2
  <2>2. CASE ~(i <= Len(a))
    <3>1. i - Len(a) \in 1..Len(p) /\ Len(a) + (i - Len(a)) = i BY <2>2, <1>1, <1>2
    <3>2. r[i] = p[i - Len(a)] BY <2>0, <2>2, <1>3
    <3>3. p[i - Len(a)] = Len(a) + (i - Len(a)) BY <3>1, <1>2
    <3>. QED BY <3>1, <3>2, <3>3
  <2>. QED BY <2>1, <2>2
<1>. QED BY <1>2, <1>3, <1>4 DEF a, p, r

LEMMA ApplyInv == ASSUME Inv, Apply PROVE Inv'
<1>1. /\ todo # << >> /\ Head(todo).do = "apply" /\ Go(<< >>)
      /\ page_table_updates' = << >> /\ has_page_table_updates' = FALSE
      /\ applied' = applied \o page_table_updates
      /\ mode' = mode /\ pending' = pending /\ last_swap_fence' = last_swap_fence
      /\ published' = published /\ handled' = handled /\ gpu' = gpu
      /\ page_table_update_event_scheduled' = page_table_update_event_scheduled
      /\ events' = events /\ issued' = issued /\ executed' = executed /\ marks' = marks
  BY DEF Apply, At, stream_vars
<1>2. todo[1].do = "apply" BY <1>1, AtHead
<1>3. todo' \in Seq(Step) /\ OpsOK' /\ ClearOK' /\ ~At("clear")' /\ ~At("clear")
  <2>1. todo[1].do # "clear" BY <1>2
  <2>. QED BY <2>1, <1>1, PopInv
<1>4. page_table_updates' \in Seq(1..MaxMarks) /\ Len(page_table_updates') = 0 BY <1>1
<1>5. TypeOK' BY <1>1, <1>3, <1>4, ApplyUpdates DEF Inv, TypeOK
<1>6. EventOK' BY <1>1, <1>3 DEF Inv, EventOK
<1>7. UpdatesOK'
  <2> DEFINE r == applied'
  <2>1. Len(r) = marks /\ \A i \in 1..marks : r[i] = i BY <1>1, ApplyUpdates
  <2>2. marks \in Nat BY DEF Inv, TypeOK
  <2> HIDE DEF r
  <2>3. \A i \in 1..Len(r) : r[i] = i BY <2>1
  <2>4. marks' = Len(r) + Len(page_table_updates') BY <1>1, <1>4, <2>1, <2>2
  <2>. QED BY <1>1, <1>4, <2>3, <2>4 DEF UpdatesOK, r
<1>8. StreamOK' /\ PendingOK' BY <1>1 DEF Inv, StreamOK, PendingOK
<1>9. DirectOK'
  <2>1. IsIdle' <=> IsIdle BY <1>1 DEF IsIdle
  <2>. QED BY <2>1, <1>1, <1>2, PopDirect
<1>. QED BY <1>3, <1>5, <1>6, <1>7, <1>8, <1>9 DEF Inv

LEMMA ClearInv == ASSUME Inv, Clear PROVE Inv'
<1>1. /\ todo # << >> /\ Head(todo).do = "clear" /\ Go(<< >>) /\ At("clear")
      /\ page_table_update_event_scheduled' = FALSE
      /\ mode' = mode /\ pending' = pending /\ last_swap_fence' = last_swap_fence
      /\ published' = published /\ handled' = handled /\ gpu' = gpu
      /\ page_table_updates' = page_table_updates
      /\ has_page_table_updates' = has_page_table_updates /\ applied' = applied
      /\ events' = events /\ issued' = issued /\ executed' = executed /\ marks' = marks
  BY DEF Clear, At, stream_vars
<1>2. todo[1].do = "clear" BY <1>1, AtHead
<1>3. todo' \in Seq(Step) /\ OpsOK' /\ ClearOK' /\ ~At("clear")' BY <1>1, PopInv
<1>5. TypeOK' BY <1>1, <1>3 DEF Inv, TypeOK
<1>6. EventOK' BY <1>1, <1>3 DEF Inv, EventOK
<1>7. UpdatesOK' BY <1>1 DEF Inv, UpdatesOK
<1>8. StreamOK' /\ PendingOK' BY <1>1 DEF Inv, StreamOK, PendingOK
<1>9. DirectOK' BY <1>1, <1>2, PopDirect
<1>. QED BY <1>3, <1>5, <1>6, <1>7, <1>8, <1>9 DEF Inv

\* At a direct call, the GPU thread is idle and its updates are in place.
LEMMA DirectHead ==
  ASSUME Inv, At("direct")
  PROVE  IsIdle /\ gpu = "waits" /\ page_table_updates = << >>
<1>1. Len(todo) \in Nat /\ Len(todo) >= 1 /\ todo[1].do = "direct" BY AtHead DEF At
<1>2. 1 \in 1..Len(todo) BY <1>1
<1>3. IsIdle /\ page_table_updates = << >> BY <1>1, <1>2 DEF Inv, DirectOK
<1>4. Len(handled) \in Nat BY DEF Inv, TypeOK
<1>5. gpu = "waits" BY <1>3, <1>4 DEF Inv, StreamOK, IsIdle
<1>. QED BY <1>3, <1>5

LEMMA RasterizeInv == ASSUME Inv, Rasterize PROVE Inv'
<1>1. /\ todo # << >> /\ Head(todo).do = "direct" /\ Go(<< >>) /\ At("direct")
      /\ executed' = Head(todo).op
      /\ mode' = mode /\ pending' = pending /\ last_swap_fence' = last_swap_fence
      /\ published' = published /\ handled' = handled /\ gpu' = gpu
      /\ page_table_updates' = page_table_updates
      /\ has_page_table_updates' = has_page_table_updates
      /\ page_table_update_event_scheduled' = page_table_update_event_scheduled
      /\ events' = events /\ issued' = issued
  BY DEF Rasterize, At, This, stream_vars, update_vars
<1>2. todo[1].do = "direct" /\ executed' \in 0..MaxOps BY <1>1, AtHead
<1>3. todo' \in Seq(Step) /\ OpsOK' /\ ClearOK' /\ ~At("clear")' /\ ~At("clear")
  <2>1. todo[1].do # "clear" BY <1>2
  <2>. QED BY <2>1, <1>1, PopInv
<1>4. /\ applied \in Seq(1..MaxMarks) /\ Len(applied) \in Nat /\ marks \in 0..MaxMarks
      /\ marks = Len(applied) /\ \A i \in 1..Len(applied) : applied[i] = i
      /\ page_table_updates' = << >> /\ Len(page_table_updates') = 0
  BY <1>1, DirectHead DEF Inv, TypeOK, UpdatesOK
<1>5. /\ applied' \in Seq(1..MaxMarks) /\ marks' \in 0..MaxMarks /\ marks' = Len(applied')
      /\ \A i \in 1..Len(applied') : applied'[i] = i
  <2>1. CASE marks' = marks /\ applied' = applied BY <2>1, <1>4
  <2>2. CASE marks < MaxMarks /\ marks' = marks + 1 /\ applied' = Append(applied, marks')
    <3> DEFINE m == marks + 1
               r == Append(applied, m)
    <3>1. m \in 1..MaxMarks BY <2>2, <1>4
    <3>2. m = Len(applied) + 1 BY <1>4
    <3> HIDE DEF m
    <3>3. /\ r \in Seq(1..MaxMarks) /\ Len(r) = Len(applied) + 1
          /\ \A i \in 1..Len(applied) : r[i] = applied[i]
          /\ r[Len(applied) + 1] = m
      BY <3>1, <1>4, AppendProperties
    <3> HIDE DEF r
    <3>4. \A i \in 1..Len(r) : r[i] = i BY <3>2, <3>3, <1>4
    <3>5. applied' = r /\ marks' = m BY <2>2 DEF m, r
    <3>. QED BY <3>1, <3>2, <3>3, <3>4, <3>5
  <2>. QED BY <2>1, <2>2 DEF Rasterize
<1>6. TypeOK' BY <1>1, <1>2, <1>3, <1>5 DEF Inv, TypeOK
<1>7. EventOK' BY <1>1, <1>3 DEF Inv, EventOK
<1>8. UpdatesOK'
  <2>1. has_page_table_updates' <=> page_table_updates' # << >> BY <1>1 DEF Inv, UpdatesOK
  <2>2. Len(applied') \in Nat BY <1>5
  <2>3. marks' = Len(applied') + Len(page_table_updates') BY <1>4, <1>5, <2>2
  <2>4. \A i \in 1..Len(page_table_updates') : FALSE BY <1>4
  <2>. QED BY <2>1, <2>3, <2>4, <1>5 DEF UpdatesOK
<1>9. StreamOK' /\ PendingOK' BY <1>1 DEF Inv, StreamOK, PendingOK
<1>10. DirectOK' BY <1>1, <1>2, PopDirect
<1>. QED BY <1>3, <1>6, <1>7, <1>8, <1>9, <1>10 DEF Inv

LEMMA CallbackInv == ASSUME Inv, PageTableUpdateCallback PROVE Inv'
<1> DEFINE s == CallbackSteps
<1>1. /\ todo = << >> /\ events > 0 /\ events' = events - 1 /\ todo' = s
      /\ mode' = mode /\ pending' = pending /\ last_swap_fence' = last_swap_fence
      /\ published' = published /\ handled' = handled /\ gpu' = gpu
      /\ page_table_updates' = page_table_updates
      /\ has_page_table_updates' = has_page_table_updates /\ applied' = applied
      /\ page_table_update_event_scheduled' = page_table_update_event_scheduled
      /\ issued' = issued /\ executed' = executed /\ marks' = marks
  BY DEF PageTableUpdateCallback, stream_vars
<1>2. events = 1 /\ events' = 0 BY <1>1 DEF Inv, TypeOK
<1>3. /\ s \in Seq(Step) /\ Len(s) = 2 /\ s[1].do = "clear" /\ s[2].do = "drain"
      /\ s[1].op = 0 /\ s[2].op = 0
  <2> DEFINE a == Do("clear", 0)
             b == a \o Do("drain", 0)
  <2>0. "clear" \in Names /\ "drain" \in Names /\ 0 \in 0..MaxOps BY DEF Names
  <2>1. a \in Seq(Step) /\ Len(a) = 1 /\ a[1] = StepOf("clear", 0) BY <2>0, DoIs
  <2>2. s = b BY DEF CallbackSteps
  <2> HIDE DEF a, s
  <2>3. /\ b \in Seq(Step) /\ Len(b) = Len(a) + 1 /\ \A i \in 1..Len(a) : b[i] = a[i]
        /\ b[Len(a) + 1] = StepOf("drain", 0)
    BY <2>0, <2>1, AndThen
  <2> HIDE DEF b
  <2>4. s \in Seq(Step) /\ Len(s) = 2 /\ s[1] = StepOf("clear", 0) /\ s[2] = StepOf("drain", 0)
    BY <2>1, <2>2, <2>3
  <2>. QED BY <2>0, <2>4, StepTypes
<1> HIDE DEF s
<1>4. \A i \in 1..Len(s) : i \in {1, 2} BY <1>3
<1>5. TypeOK' BY <1>1, <1>2, <1>3 DEF Inv, TypeOK
<1>6. OpsOK' /\ ClearOK' /\ DirectOK'
  <2>1. issued \in Nat BY DEF Inv, TypeOK
  <2>. QED BY <1>1, <1>3, <1>4, <2>1 DEF OpsOK, ClearOK, DirectOK, Works
<1>7. At("clear")'
  <2>1. (s # << >> /\ Head(s).do = "clear") <=> (Len(s) >= 1 /\ s[1].do = "clear")
    BY <1>3, AtIs
  <2>2. Len(s) >= 1 /\ s[1].do = "clear" BY <1>3
  <2>. QED BY <1>1, <2>1, <2>2 DEF At
<1>8. EventOK'
  <2>1. ~At("clear") BY <1>1 DEF At
  <2>. QED BY <2>1, <1>1, <1>2, <1>7 DEF Inv, EventOK
<1>9. UpdatesOK' BY <1>1 DEF Inv, UpdatesOK
<1>10. StreamOK' /\ PendingOK' BY <1>1 DEF Inv, StreamOK, PendingOK
<1>. QED BY <1>5, <1>6, <1>8, <1>9, <1>10 DEF Inv

--------------------------------------------------------------------------------
(* The steps of the GPU thread. *)

\* They leave the call alone.
LEMMA GpuFrame ==
  ASSUME Inv, UNCHANGED emu_vars
  PROVE  /\ mode' = mode /\ pending' = pending /\ last_swap_fence' = last_swap_fence
         /\ todo' = todo /\ issued' = issued /\ applied' = applied
         /\ OpsOK' /\ PendingOK' /\ ClearOK' /\ (At("clear")' <=> At("clear"))
<1>1. /\ mode' = mode /\ pending' = pending /\ last_swap_fence' = last_swap_fence
      /\ todo' = todo /\ issued' = issued /\ applied' = applied
  BY DEF emu_vars
<1>. QED BY <1>1 DEF Inv, OpsOK, PendingOK, ClearOK, At

LEMMA HandleInv == ASSUME Inv, Handle PROVE Inv'
<1>1. /\ gpu = "waits" /\ ~IsIdle /\ gpu' = "handles" /\ UNCHANGED emu_vars
      /\ executed' = published[Len(handled) + 1].op
      /\ published' = published /\ handled' = handled
      /\ page_table_updates' = page_table_updates
      /\ has_page_table_updates' = has_page_table_updates
      /\ page_table_update_event_scheduled' = page_table_update_event_scheduled
      /\ events' = events /\ marks' = marks
  BY DEF Handle, stream_vars, update_vars
<1>2. /\ published \in Seq(Command) /\ Len(published) \in Nat /\ Len(handled) \in Nat
      /\ Len(handled) <= Len(published) /\ Len(handled) # Len(published)
  BY <1>1 DEF Inv, TypeOK, StreamOK, IsIdle
<1>3. Len(handled) < Len(published) /\ Len(handled) + 1 \in 1..Len(published) BY <1>2
<1>4. published[Len(handled) + 1] \in Command BY <1>2, <1>3
<1>5. executed' \in 0..MaxOps BY <1>1, <1>4 DEF Command, Op
<1>6. TypeOK' BY <1>1, <1>5, GpuFrame DEF Inv, TypeOK, GpuStates
<1>7. EventOK' BY <1>1, GpuFrame DEF Inv, EventOK
<1>8. UpdatesOK' BY <1>1, GpuFrame DEF Inv, UpdatesOK
<1>9. StreamOK' BY <1>1, <1>3, <1>2 DEF StreamOK
<1>10. DirectOK' BY <1>1, GpuFrame DEF Inv, DirectOK, IsIdle
<1>. QED BY <1>1, <1>6, <1>7, <1>8, <1>9, <1>10, GpuFrame DEF Inv

LEMMA NotIdle == ASSUME Inv, gpu # "waits" PROVE ~IsIdle
<1>1. Len(handled) \in Nat /\ Len(published) \in Nat BY DEF Inv, TypeOK
<1>. QED BY <1>1 DEF Inv, StreamOK, IsIdle

\* While the GPU thread works no direct call is close.
LEMMA DirectFar ==
  ASSUME Inv, gpu # "waits", UNCHANGED emu_vars
  PROVE  DirectOK'
<1>1. ASSUME NEW i \in 1..Len(todo), todo[i].do = "direct"
      PROVE i >= 3 /\ todo[i - 1].do = "drain" /\ todo[i - 2].do = "idle"
  BY <1>1, NotIdle DEF Inv, DirectOK
<1>2. todo' = todo BY GpuFrame
<1>. QED BY <1>1, <1>2 DEF DirectOK

LEMMA NoteUpdateInv == ASSUME Inv, NoteUpdate PROVE Inv'
<1> DEFINE p == page_table_updates
           m == marks + 1
           r == Append(p, m)
<1>1. /\ gpu = "handles" /\ marks < MaxMarks /\ gpu' = "noted" /\ UNCHANGED emu_vars
      /\ marks' = m /\ page_table_updates' = r /\ has_page_table_updates' = TRUE
      /\ published' = published /\ handled' = handled
      /\ page_table_update_event_scheduled' = page_table_update_event_scheduled
      /\ events' = events /\ executed' = executed
  BY DEF NoteUpdate, stream_vars
<1>2. /\ p \in Seq(1..MaxMarks) /\ Len(p) \in Nat /\ marks \in 0..MaxMarks /\ Len(applied) \in Nat
  BY DEF Inv, TypeOK
<1>3. m \in 1..MaxMarks BY <1>1, <1>2
<1>4. /\ marks = Len(applied) + Len(p) /\ \A i \in 1..Len(p) : p[i] = Len(applied) + i
      /\ \A i \in 1..Len(applied) : applied[i] = i
  BY DEF Inv, UpdatesOK
<1>5. m = Len(applied) + (Len(p) + 1) BY <1>2, <1>4
<1> HIDE DEF m, p
<1>6. /\ r \in Seq(1..MaxMarks) /\ Len(r) = Len(p) + 1
      /\ \A i \in 1..Len(p) : r[i] = p[i]
  BY <1>2, <1>3, AppendProperties
<1>7. r[Len(p) + 1] = m BY <1>2, <1>3, AppendProperties
<1>8. r # << >> BY <1>2, <1>6
<1> HIDE DEF r
<1>9. ASSUME NEW i \in 1..Len(r) PROVE r[i] = Len(applied) + i
  <2>1. i \in 1..Len(p) \/ i = Len(p) + 1 BY <1>2, <1>6
  <2>2. CASE i \in 1..Len(p) BY <2>2, <1>4, <1>6
  <2>3. CASE i = Len(p) + 1 BY <2>3, <1>5, <1>7
  <2>. QED BY <2>1, <2>2, <2>3
<1>10. applied' = applied BY <1>1, GpuFrame
<1>11. UpdatesOK'
  <2>1. marks' = Len(applied') + Len(page_table_updates') BY <1>1, <1>5, <1>6, <1>10
  <2>2. has_page_table_updates' <=> page_table_updates' # << >> BY <1>1, <1>8
  <2>. QED BY <1>1, <1>4, <1>9, <1>10, <2>1, <2>2 DEF UpdatesOK
<1>12. TypeOK'
  <2>1. marks' \in 0..MaxMarks BY <1>1, <1>3
  <2>. QED BY <1>1, <1>6, <2>1, GpuFrame DEF Inv, TypeOK, GpuStates
<1>13. EventOK' BY <1>1, GpuFrame DEF Inv, EventOK
<1>14. StreamOK' BY <1>1 DEF Inv, StreamOK
<1>15. DirectOK' BY <1>1, DirectFar
<1>. QED BY <1>1, <1>11, <1>12, <1>13, <1>14, <1>15, GpuFrame DEF Inv

LEMMA ExchangeInv == ASSUME Inv, Exchange PROVE Inv'
<1>1. /\ gpu = "noted" /\ gpu' = AfterExchange /\ UNCHANGED emu_vars
      /\ page_table_update_event_scheduled' = TRUE
      /\ marks' = marks /\ page_table_updates' = page_table_updates
      /\ has_page_table_updates' = has_page_table_updates
      /\ published' = published /\ handled' = handled
      /\ events' = events /\ executed' = executed
  BY DEF Exchange, stream_vars
<1>2. \/ page_table_update_event_scheduled /\ gpu' = "handles"
      \/ ~page_table_update_event_scheduled /\ gpu' = "must_schedule"
  BY <1>1 DEF AfterExchange
<1>3. gpu' \in GpuStates BY <1>2 DEF GpuStates
<1>4. TypeOK' BY <1>1, <1>3, GpuFrame DEF Inv, TypeOK
<1>5. EventOK' BY <1>1, <1>2, GpuFrame DEF Inv, EventOK
<1>6. UpdatesOK' BY <1>1, GpuFrame DEF Inv, UpdatesOK
<1>7. StreamOK'
  <2>1. Len(handled) < Len(published) BY <1>1 DEF Inv, StreamOK
  <2>2. Len(handled) \in Nat /\ Len(published) \in Nat BY DEF Inv, TypeOK
  <2>. QED BY <1>1, <2>1, <2>2 DEF StreamOK
<1>8. DirectOK' BY <1>1, DirectFar
<1>. QED BY <1>1, <1>4, <1>5, <1>6, <1>7, <1>8, GpuFrame DEF Inv

LEMMA ScheduleEventInv == ASSUME Inv, ScheduleEvent PROVE Inv'
<1>1. /\ gpu = "must_schedule" /\ gpu' = "handles" /\ UNCHANGED emu_vars
      /\ page_table_update_event_scheduled' = page_table_update_event_scheduled
      /\ marks' = marks /\ page_table_updates' = page_table_updates
      /\ has_page_table_updates' = has_page_table_updates
      /\ published' = published /\ handled' = handled
      /\ events' = events + 1 /\ executed' = executed
  BY DEF ScheduleEvent, stream_vars
<1>2. events = 0 /\ events' = 1 /\ ~At("clear") /\ page_table_update_event_scheduled
  BY <1>1 DEF Inv, TypeOK, EventOK
<1>4. TypeOK' BY <1>1, <1>2, GpuFrame DEF Inv, TypeOK, GpuStates
<1>5. EventOK' BY <1>1, <1>2, GpuFrame DEF Inv, EventOK
<1>6. UpdatesOK' BY <1>1, GpuFrame DEF Inv, UpdatesOK
<1>7. StreamOK'
  <2>1. Len(handled) < Len(published) BY <1>1 DEF Inv, StreamOK
  <2>2. Len(handled) \in Nat /\ Len(published) \in Nat BY DEF Inv, TypeOK
  <2>. QED BY <1>1, <2>1, <2>2 DEF StreamOK
<1>8. DirectOK' BY <1>1, DirectFar
<1>. QED BY <1>1, <1>4, <1>5, <1>6, <1>7, <1>8, GpuFrame DEF Inv

LEMMA DoneInv == ASSUME Inv, Done PROVE Inv'
<1> DEFINE c == published[Len(handled) + 1]
<1>1. /\ gpu = "handles" /\ gpu' = "waits" /\ UNCHANGED emu_vars
      /\ Len(handled) < Len(published) /\ handled' = Append(handled, c) /\ published' = published
      /\ page_table_update_event_scheduled' = page_table_update_event_scheduled
      /\ marks' = marks /\ page_table_updates' = page_table_updates
      /\ has_page_table_updates' = has_page_table_updates
      /\ events' = events /\ executed' = executed
  BY DEF Done, Stream!Handle, update_vars
<1>2. /\ published \in Seq(Command) /\ Len(published) \in Nat /\ Len(handled) \in Nat
      /\ handled \in Seq(Command)
  BY DEF Inv, TypeOK
<1>3. c \in Command
  <2>1. Len(handled) + 1 \in 1..Len(published) BY <1>1, <1>2
  <2>. QED BY <1>2, <2>1
<1> HIDE DEF c
<1>4. handled' \in Seq(Command) /\ Len(handled') = Len(handled) + 1
  BY <1>1, <1>2, <1>3, AppendProperties
<1>5. TypeOK' BY <1>1, <1>4, GpuFrame DEF Inv, TypeOK, GpuStates
<1>6. EventOK' BY <1>1, GpuFrame DEF Inv, EventOK
<1>7. UpdatesOK' BY <1>1, GpuFrame DEF Inv, UpdatesOK
<1>8. StreamOK' BY <1>1, <1>2, <1>4 DEF StreamOK
<1>9. DirectOK' BY <1>1, DirectFar
<1>. QED BY <1>1, <1>5, <1>6, <1>7, <1>8, <1>9, GpuFrame DEF Inv

LEMMA StutterInv == ASSUME Inv, UNCHANGED vars PROVE Inv'
BY DEF vars, stream_vars, update_vars, Inv, TypeOK, OpsOK, PendingOK, ClearOK, EventOK,
       StreamOK, UpdatesOK, DirectOK, IsIdle, At

LEMMA StepInv == Inv /\ [Next]_vars => Inv'
BY CallsInv, CallbackInv, FlushInv, HoldInv, PublishInv, ProceedInv, SetModeInv, ApplyInv,
   ClearInv, RasterizeInv, HandleInv, NoteUpdateInv, ExchangeInv, ScheduleEventInv, DoneInv,
   StutterInv
   DEF Next, IsCall, EmuStep, GpuStep

LEMMA AlwaysInv == Spec => []Inv
<1>1. Init => Inv BY StartInv
<1>2. Inv /\ [Next]_vars => Inv' BY StepInv
<1>. QED BY <1>1, <1>2, PTL DEF Spec

\* Every variable has its type; above all, the update event is never twice in the timing
\* queue.
THEOREM TypeCorrect == Spec => []TypeOK
BY AlwaysInv, PTL DEF Inv

\* A direct call of the rasterizer never runs beside the GPU thread.
THEOREM DirectExclusive == Spec => []DirectIsExclusive
<1>1. Inv => DirectIsExclusive BY DirectHead DEF DirectIsExclusive
<1>. QED BY <1>1, AlwaysInv, PTL

\* The pages are marked in the order in which the rasterizer asked, and none is skipped.
THEOREM MarksOrdered == Spec => []MarksInOrder
<1>1. Inv => MarksInOrder BY DEF Inv, TypeOK, UpdatesOK, MarksInOrder
<1>. QED BY <1>1, AlwaysInv, PTL

--------------------------------------------------------------------------------
(* The order of the calls. *)

Unhandled == Len(handled) + 1..Len(published)

\* The calls still to be made, held back, queued and made last follow each other: what is
\* queued is later than what was executed, what is held back later than both, and the
\* steps of the call later than all of these.
Sorted == \A i, k \in 1..Len(todo) :
            i < k /\ todo[i].op # 0 /\ todo[k].op # 0 => todo[i].op < todo[k].op

HoldLast == \A i, k \in 1..Len(todo) : todo[i].do = "hold" /\ i < k => todo[k].op = 0

\* Nothing overtakes what is held back: a flush comes first.
Flushed == pending # 0 => \A i \in 1..Len(todo) : todo[i].do \in Works \ {"swap"} =>
             \E k \in 1..Len(todo) : k < i /\ todo[k].do = "flush"

StepsLater == \A i \in 1..Len(todo) : todo[i].op # 0 =>
  pending < todo[i].op /\ executed < todo[i].op /\ \A j \in Unhandled : published[j].op < todo[i].op

PendingLater == pending # 0 => executed < pending /\ \A j \in Unhandled : published[j].op < pending

QueueOK ==
  /\ executed <= issued
  /\ \A j \in Unhandled : /\ published[j].op <= issued
                          /\ IF j = Len(handled) + 1 /\ gpu # "waits"
                             THEN executed = published[j].op ELSE executed < published[j].op
  /\ \A j, k \in Unhandled : j < k => published[j].op < published[k].op

Ordered == Sorted /\ HoldLast /\ Flushed /\ StepsLater /\ PendingLater /\ QueueOK

LEMMA Numbers ==
  ASSUME Inv
  PROVE  /\ pending \in Nat /\ executed \in Nat /\ issued \in Nat /\ pending <= issued
         /\ Len(handled) \in Nat /\ Len(published) \in Nat /\ Len(todo) \in Nat
         /\ Len(handled) <= Len(published)
         /\ \A i \in 1..Len(todo) : todo[i].op \in Nat /\ todo[i].op <= issued
         /\ \A j \in Unhandled : j \in 1..Len(published) /\ published[j].op \in Nat
<1>1. /\ pending \in 0..MaxOps /\ executed \in 0..MaxOps /\ issued \in 0..MaxOps
      /\ todo \in Seq(Step) /\ published \in Seq(Command) /\ handled \in Seq(Command)
  BY DEF Inv, TypeOK
<1>2. /\ Len(handled) \in Nat /\ Len(published) \in Nat /\ Len(todo) \in Nat
      /\ Len(handled) <= Len(published) /\ pending <= issued
  BY <1>1 DEF Inv, StreamOK, PendingOK
<1>3. ASSUME NEW i \in 1..Len(todo) PROVE todo[i].op \in Nat /\ todo[i].op <= issued
  <2>1. todo[i] \in Step BY <1>1
  <2>2. todo[i].op \in 0..MaxOps BY <2>1 DEF Step
  <2>3. todo[i].op <= issued BY DEF Inv, OpsOK
  <2>. QED BY <2>2, <2>3
<1>4. ASSUME NEW j \in Unhandled PROVE j \in 1..Len(published) /\ published[j].op \in Nat
  <2>1. j \in 1..Len(published) BY <1>2 DEF Unhandled
  <2>2. published[j] \in Command BY <1>1, <2>1
  <2>. QED BY <2>1, <2>2 DEF Command, Op
<1>. QED BY <1>1, <1>2, <1>3, <1>4

LEMMA StartOrdered == Init => Ordered
BY DEF Init, Stream!Init, Ordered, Sorted, HoldLast, Flushed, StepsLater, PendingLater, QueueOK,
       Unhandled

\* A call of the operation n, after those of the others.
LEMMA CallOrdered ==
  ASSUME Inv, Ordered, IsCall
  PROVE  Ordered'
<1> DEFINE n == issued + 1
<1>1. PICK s : Call(s) /\ CallOK(s, n) BY CallsAre
<1>2. /\ todo' = s /\ issued' = n /\ published' = published /\ handled' = handled /\ gpu' = gpu
      /\ executed' = executed
  BY <1>1 DEF Call, stream_vars
<1>3. pending' = pending \/ (pending' = n /\ s = << >>) BY <1>2, CallsAre
<1>4. /\ pending \in Nat /\ executed \in Nat /\ issued \in Nat /\ pending <= issued
      /\ Len(s) \in Nat /\ s \in Seq(Step)
  BY <1>1, Numbers DEF CallOK
<1>5. executed <= issued BY DEF Ordered, QueueOK
<1>6. n \in Nat /\ issued < n BY <1>4
<1>7. \A j \in Unhandled : published[j].op \in Nat /\ published[j].op < n
  <2>1. \A j \in Unhandled : published[j].op \in Nat /\ published[j].op <= issued
    BY Numbers DEF Ordered, QueueOK
  <2>. QED BY <2>1, <1>4
<1>8. /\ \A i \in 1..Len(s) : s[i].op \in {0, n} /\ (s[i].op # 0 <=> s[i].do \in Works)
      /\ \A i \in 1..Len(s) : s[i].do \in Works \ {"swap"} => i > 1 /\ s[1].do = "flush"
      /\ \A i, k \in 1..Len(s) : s[i].op # 0 /\ s[k].op # 0 => i = k
  BY <1>1 DEF CallOK
<1>9. Sorted' BY <1>2, <1>8 DEF Sorted
<1>10. HoldLast' BY <1>2, <1>8 DEF HoldLast, Works
<1>11. Flushed'
  <2> SUFFICES ASSUME NEW i \in 1..Len(s), s[i].do \in Works \ {"swap"}
               PROVE  \E k \in 1..Len(s) : k < i /\ s[k].do = "flush"
    BY <1>2 DEF Flushed
  <2>1. i > 1 /\ s[1].do = "flush" /\ 1 \in 1..Len(s) BY <1>4, <1>8
  <2>. QED BY <2>1
<1>12. StepsLater'
  <2> SUFFICES ASSUME NEW i \in 1..Len(s), s[i].op # 0
               PROVE  /\ pending' < s[i].op /\ executed < s[i].op
                      /\ \A j \in Unhandled : published[j].op < s[i].op
    BY <1>2 DEF StepsLater, Unhandled
  <2>1. s[i].op = n BY <1>8
  <2>2. s # << >> BY <1>4
  <2>3. pending' = pending BY <1>3, <2>2
  <2> HIDE DEF n
  <2>. QED BY <2>1, <2>3, <1>4, <1>5, <1>6, <1>7
<1>13. PendingLater'
  <2>1. CASE pending' = pending BY <2>1, <1>2 DEF Ordered, PendingLater, Unhandled
  <2>2. CASE pending' = n
    <3>1. executed < n BY <1>4, <1>5, <1>6
    <3>. QED BY <2>2, <1>2, <1>7, <3>1 DEF PendingLater, Unhandled
  <2>. QED BY <2>1, <2>2, <1>3
<1>14. QueueOK'
  <2>1. executed' <= issued' BY <1>2, <1>4, <1>5, <1>6
  <2>2. \A j \in Unhandled : published[j].op <= n BY <1>6, <1>7
  <2> HIDE DEF n
  <2>. QED BY <1>2, <2>1, <2>2 DEF Ordered, QueueOK, Unhandled
<1>. QED BY <1>9, <1>10, <1>11, <1>12, <1>13, <1>14 DEF Ordered

\* What is left of a call is in order.
LEMMA PopSorted ==
  ASSUME Inv, Ordered, todo # << >>, Go(<< >>)
  PROVE  Sorted' /\ HoldLast'
<1> DEFINE t == todo'
<1>1. /\ Len(t) = Len(todo) - 1 /\ Len(todo) \in Nat
      /\ \A i \in 1..Len(t) : i + 1 \in 1..Len(todo) /\ t[i] = todo[i + 1]
  BY Popped
<1> HIDE DEF t
<1>2. ASSUME NEW i \in 1..Len(t), NEW k \in 1..Len(t), i < k
      PROVE i + 1 < k + 1 /\ i + 1 \in 1..Len(todo) /\ k + 1 \in 1..Len(todo)
            /\ t[i] = todo[i + 1] /\ t[k] = todo[k + 1]
  BY <1>1, <1>2
<1>3. \A i, k \in 1..Len(t) : i < k /\ t[i].op # 0 /\ t[k].op # 0 => t[i].op < t[k].op
  BY <1>2 DEF Ordered, Sorted
<1>4. ASSUME NEW i \in 1..Len(t), NEW k \in 1..Len(t), t[i].do = "hold", i < k
      PROVE  t[k].op = 0
  <2>1. /\ i + 1 < k + 1 /\ i + 1 \in 1..Len(todo) /\ k + 1 \in 1..Len(todo)
        /\ t[i] = todo[i + 1] /\ t[k] = todo[k + 1]
    BY <1>2, <1>4
  <2>2. todo[i + 1].do = "hold" BY <1>4, <2>1
  <2>. QED BY <2>1, <2>2 DEF Ordered, HoldLast
<1>. QED BY <1>3, <1>4 DEF Sorted, HoldLast, t

\* What is left of a call is later than its head.
LEMMA PopLater ==
  ASSUME Inv, Ordered, todo # << >>, Go(<< >>), NEW i \in 1..Len(todo'), todo'[i].op # 0
  PROVE  /\ pending < todo'[i].op /\ executed < todo'[i].op /\ todo'[i].op \in Nat
         /\ \A j \in Unhandled : published[j].op < todo'[i].op
         /\ todo[1].op # 0 => todo[1].op < todo'[i].op
         /\ todo[1].do # "hold"
<1> DEFINE k == i + 1
<1>1. /\ k \in 1..Len(todo) /\ todo'[i] = todo[k] /\ Len(todo) \in Nat /\ i \in Nat /\ i >= 1
      /\ Len(todo) >= 1
  BY Popped
<1>2. 1 \in 1..Len(todo) /\ 1 < k BY <1>1
<1> HIDE DEF k
<1>3. todo[k].op # 0 /\ todo[k].op \in Nat BY <1>1, Numbers
<1>4. /\ pending < todo[k].op /\ executed < todo[k].op
      /\ \A j \in Unhandled : published[j].op < todo[k].op
  BY <1>1, <1>3 DEF Ordered, StepsLater
<1>5. todo[1].op # 0 => todo[1].op < todo[k].op BY <1>1, <1>2, <1>3 DEF Ordered, Sorted
<1>6. todo[1].do # "hold" BY <1>1, <1>2, <1>3 DEF Ordered, HoldLast
<1>. QED BY <1>1, <1>3, <1>4, <1>5, <1>6

LEMMA PopFlushed ==
  ASSUME Inv, Ordered, todo # << >>, Go(<< >>), pending' = 0 \/ pending' = pending,
         pending' = 0 \/ todo[1].do # "flush"
  PROVE  Flushed'
<1> DEFINE t == todo'
<1>1. /\ Len(t) = Len(todo) - 1 /\ Len(todo) \in Nat
      /\ \A i \in 1..Len(t) : i + 1 \in 1..Len(todo) /\ t[i] = todo[i + 1]
  BY Popped
<1> SUFFICES ASSUME pending # 0, todo[1].do # "flush",
                    NEW i \in 1..Len(t), t[i].do \in Works \ {"swap"}
             PROVE  \E k \in 1..Len(t) : k < i /\ t[k].do = "flush"
  BY DEF Flushed
<1> HIDE DEF t
<1>2. i + 1 \in 1..Len(todo) /\ todo[i + 1].do \in Works \ {"swap"} BY <1>1
<1>3. PICK k \in 1..Len(todo) : k < i + 1 /\ todo[k].do = "flush"
  BY <1>2 DEF Ordered, Flushed
<1>4. k - 1 \in 1..Len(t) /\ k - 1 < i /\ (k - 1) + 1 = k
  <2>1. k # 1 BY <1>3
  <2>. QED BY <2>1, <1>1, <1>3
<1>5. t[k - 1].do = "flush" BY <1>1, <1>3, <1>4
<1>. QED BY <1>4, <1>5

LEMMA PopOrdered ==
  ASSUME Inv, Ordered, todo # << >>, Go(<< >>), pending' = pending,
         pending = 0 \/ todo[1].do # "flush",
         published' = published /\ handled' = handled /\ gpu' = gpu /\ executed' = executed
           /\ issued' = issued
  PROVE  Ordered'
<1>1. Sorted' /\ HoldLast' BY PopSorted
<1>2. Flushed' BY PopFlushed
<1>3. StepsLater' BY PopLater DEF StepsLater, Unhandled
<1>4. PendingLater' /\ QueueOK' BY DEF Ordered, PendingLater, QueueOK, Unhandled
<1>. QED BY <1>1, <1>2, <1>3, <1>4 DEF Ordered

\* Steps in place of one, of which at most one carries a call, n, in front of the rest.
LEMMA SpliceSorted ==
  ASSUME Inv, Ordered, todo # << >>, NEW steps \in Seq(Step), Go(steps), Len(steps) >= 1,
         NEW n \in Nat,
         \A i \in 1..Len(steps) : steps[i].op \in {0, n} /\ steps[i].do # "hold",
         \A i, k \in 1..Len(steps) : steps[i].op # 0 /\ steps[k].op # 0 => i = k,
         \A k \in 2..Len(todo) : n # 0 /\ todo[k].op # 0 => n < todo[k].op,
         n # 0 => /\ pending' < n /\ executed < n /\ \A j \in Unhandled : published[j].op < n,
         published' = published /\ handled' = handled /\ executed' = executed,
         pending' \in {pending, 0}
  PROVE  Sorted' /\ HoldLast' /\ StepsLater'
<1> DEFINE t == todo'
           m == Len(steps)
<1>0. todo \in Seq(Step) BY DEF Inv, TypeOK
<1>1. /\ Len(t) = m + Len(todo) - 1 /\ Len(todo) >= 1 /\ m \in Nat /\ Len(todo) \in Nat /\ m >= 1
      /\ \A i \in 1..m : t[i] = steps[i]
      /\ \A i \in m + 1..Len(t) : t[i] = todo[i - m + 1]
  BY <1>0, Spliced
<1> HIDE DEF t, m
<1>2. ASSUME NEW i \in 1..Len(t), ~(i <= m)
      PROVE  /\ i - m + 1 \in 2..Len(todo) /\ i - m + 1 \in 1..Len(todo)
             /\ t[i] = todo[i - m + 1]
  <2>1. i \in m + 1..Len(t) /\ i - m + 1 \in 2..Len(todo) /\ i - m + 1 \in 1..Len(todo)
    BY <1>1, <1>2
  <2>. QED BY <2>1, <1>1
<1>3. ASSUME NEW i \in 1..Len(t), i <= m
      PROVE  i \in 1..m /\ t[i] = steps[i] /\ t[i].op \in {0, n} /\ t[i].do # "hold"
  <2>1. i \in 1..m BY <1>1, <1>3
  <2>. QED BY <2>1, <1>1 DEF m
<1>4. ASSUME NEW i \in 1..Len(t), NEW k \in 1..Len(t), i < k, t[i].op # 0, t[k].op # 0
      PROVE  t[i].op < t[k].op
  <2>1. CASE k <= m
    <3>1. i <= m BY <2>1, <1>4, <1>1
    <3>2. i \in 1..m /\ k \in 1..m /\ t[i] = steps[i] /\ t[k] = steps[k] BY <2>1, <3>1, <1>3
    <3>3. i = k BY <3>2, <1>4 DEF m
    <3>. QED BY <3>3, <1>4
  <2>2. CASE i <= m /\ ~(k <= m)
    <3>1. t[i].op = n BY <2>2, <1>3, <1>4
    <3>. QED BY <3>1, <2>2, <1>2, <1>4
  <2>3. CASE ~(i <= m)
    <3>1. ~(k <= m) BY <2>3, <1>4, <1>1
    <3>2. i - m + 1 < k - m + 1 BY <1>1, <1>4
    <3>3. /\ i - m + 1 \in 1..Len(todo) /\ t[i] = todo[i - m + 1]
          /\ k - m + 1 \in 1..Len(todo) /\ t[k] = todo[k - m + 1]
      BY <2>3, <3>1, <1>2
    <3>. QED BY <3>2, <3>3, <1>4 DEF Ordered, Sorted
  <2>. QED BY <2>1, <2>2, <2>3
<1>5. ASSUME NEW i \in 1..Len(t), NEW k \in 1..Len(t), t[i].do = "hold", i < k
      PROVE  t[k].op = 0
  <2>1. ~(i <= m) BY <1>3, <1>5
  <2>2. ~(k <= m) BY <2>1, <1>5, <1>1
  <2>3. i - m + 1 < k - m + 1 BY <1>1, <1>5
  <2>4. /\ i - m + 1 \in 1..Len(todo) /\ t[i] = todo[i - m + 1]
        /\ k - m + 1 \in 1..Len(todo) /\ t[k] = todo[k - m + 1]
    BY <2>1, <2>2, <1>2
  <2>5. todo[i - m + 1].do = "hold" BY <2>4, <1>5
  <2>. QED BY <2>3, <2>4, <2>5 DEF Ordered, HoldLast
<1>6. ASSUME NEW i \in 1..Len(t), t[i].op # 0
      PROVE  /\ pending' < t[i].op /\ executed < t[i].op
             /\ \A j \in Unhandled : published[j].op < t[i].op
  <2>1. CASE i <= m
    <3>1. t[i].op = n /\ n # 0 BY <2>1, <1>3, <1>6
    <3>. QED BY <3>1
  <2>2. CASE ~(i <= m)
    <3> DEFINE k == i - m + 1
    <3>1. k \in 1..Len(todo) /\ t[i] = todo[k] BY <2>2, <1>2
    <3> HIDE DEF k
    <3>2. /\ pending < todo[k].op /\ executed < todo[k].op /\ todo[k].op \in Nat
          /\ \A j \in Unhandled : published[j].op < todo[k].op
      BY <3>1, <1>6, Numbers DEF Ordered, StepsLater
    <3>3. pending' < todo[k].op
      <4>1. CASE pending' = pending BY <4>1, <3>2
      <4>2. CASE pending' = 0 BY <4>2, <3>1, <3>2, <1>6
      <4>. QED BY <4>1, <4>2
    <3>. QED BY <3>1, <3>2, <3>3
  <2>. QED BY <2>1, <2>2
<1>. QED BY <1>4, <1>5, <1>6 DEF Sorted, HoldLast, StepsLater, Unhandled, t

LEMMA FlushOrdered == ASSUME Inv, Ordered, Flush PROVE Ordered'
<1>1. /\ todo # << >> /\ pending' = 0 /\ issued' = issued /\ executed' = executed
      /\ published' = published /\ handled' = handled /\ gpu' = gpu
  BY DEF Flush, At, stream_vars
<1>2. CASE pending = 0
  <2>1. Go(<< >>) BY <1>2 DEF Flush
  <2>. QED BY <2>1, <1>1, <1>2, PopOrdered
<1>3. CASE pending # 0
  <2> DEFINE s == Overdue(pending)
  <2>1. Go(s) BY <1>3 DEF Flush
  <2>2. pending \in 1..MaxOps /\ pending \in Nat BY <1>3 DEF Inv, TypeOK
  <2>3. /\ s \in Seq(Step)
        /\ IsIdle => /\ Len(s) = 2 /\ s[1] = StepOf("drain", 0)
                     /\ s[2] = StepOf("direct", pending)
        /\ ~IsIdle => Len(s) = 1 /\ s[1] = StepOf("queue", pending)
    BY <2>2, OverdueSteps
  <2>4. /\ StepOf("drain", 0).do = "drain" /\ StepOf("drain", 0).op = 0
        /\ StepOf("direct", pending).do = "direct" /\ StepOf("direct", pending).op = pending
        /\ StepOf("queue", pending).do = "queue" /\ StepOf("queue", pending).op = pending
    BY <2>2, StepFacts
  <2> HIDE DEF s
  <2>5. Len(s) \in {1, 2} BY <2>3
  <2>6. /\ \A i \in 1..Len(s) : s[i].op \in {0, pending} /\ s[i].do # "hold"
        /\ \A i, k \in 1..Len(s) : s[i].op # 0 /\ s[k].op # 0 => i = k
    <3>1. CASE IsIdle
      <4>1. /\ Len(s) = 2 /\ s[1].do = "drain" /\ s[1].op = 0 /\ s[2].do = "direct"
            /\ s[2].op = pending
        BY <3>1, <2>3, <2>4
      <4>2. \A i \in 1..Len(s) : i \in {1, 2} BY <4>1
      <4>. QED BY <4>1, <4>2
    <3>2. CASE ~IsIdle
      <4>1. Len(s) = 1 /\ s[1].do = "queue" /\ s[1].op = pending BY <3>2, <2>3, <2>4
      <4>2. \A i \in 1..Len(s) : i = 1 BY <4>1
      <4>. QED BY <4>1, <4>2
    <3>. QED BY <3>1, <3>2
  <2>7. \A k \in 2..Len(todo) : todo[k].op # 0 => pending < todo[k].op
    <3>1. \A k \in 2..Len(todo) : k \in 1..Len(todo) BY Numbers
    <3>. QED BY <3>1 DEF Ordered, StepsLater
  <2>8. /\ pending' < pending /\ executed < pending
        /\ \A j \in Unhandled : published[j].op < pending
    BY <1>1, <1>3, <2>2 DEF Ordered, PendingLater
  <2>9. Sorted' /\ HoldLast' /\ StepsLater'
    <3>1. Len(s) >= 1 BY <2>5
    <3>. QED BY <3>1, <2>1, <2>2, <2>3, <2>6, <2>7, <2>8, <1>1, SpliceSorted
  <2>10. Flushed' /\ PendingLater' BY <1>1 DEF Flushed, PendingLater
  <2>11. QueueOK' BY <1>1 DEF Ordered, QueueOK, Unhandled
  <2>. QED BY <2>9, <2>10, <2>11 DEF Ordered
<1>. QED BY <1>2, <1>3

\* At a step that carries a call nothing is held back.
LEMMA HeadFirst ==
  ASSUME Inv, Ordered, todo # << >>, todo[1].do \in Works \ {"swap"}
  PROVE  /\ pending = 0 /\ todo[1].op # 0 /\ todo[1].op \in Nat /\ executed < todo[1].op
         /\ \A j \in Unhandled : published[j].op < todo[1].op
<1>1. Len(todo) \in Nat /\ Len(todo) >= 1 /\ todo[1].op # 0 BY AtHead
<1>2. 1 \in 1..Len(todo) BY <1>1
<1>3. pending = 0
  <2>1. ASSUME pending # 0 PROVE FALSE
    <3>1. \E k \in 1..Len(todo) : k < 1 BY <1>2, <2>1 DEF Ordered, Flushed
    <3>. QED BY <3>1, <1>1
  <2>. QED BY <2>1
<1>. QED BY <1>1, <1>2, <1>3, Numbers DEF Ordered, StepsLater

LEMMA HoldOrdered == ASSUME Inv, Ordered, Hold PROVE Ordered'
<1>1. /\ todo # << >> /\ Head(todo).do = "hold" /\ pending' = Head(todo).op /\ issued' = issued
      /\ Go(<< >>) /\ executed' = executed
      /\ published' = published /\ handled' = handled /\ gpu' = gpu
  BY DEF Hold, At, This, stream_vars
<1>2. todo[1].do = "hold" /\ pending' = todo[1].op BY <1>1, AtHead
<1>3. Sorted' /\ HoldLast' BY <1>1, PopSorted
<1>4. ASSUME NEW i \in 1..Len(todo') PROVE todo'[i].op = 0 BY <1>1, <1>2, PopLater
<1>5. StepsLater' BY <1>4 DEF StepsLater
<1>6. Flushed'
  <2>1. OpsOK' BY HoldInv DEF Inv
  <2>. QED BY <2>1, <1>4 DEF Flushed, OpsOK
<1>7. PendingLater'
  <2>1. executed < todo[1].op /\ \A j \in Unhandled : published[j].op < todo[1].op
    BY <1>1, <1>2, HeadFirst DEF Works
  <2>. QED BY <2>1, <1>1, <1>2 DEF PendingLater, Unhandled
<1>8. QueueOK' BY <1>1 DEF Ordered, QueueOK, Unhandled
<1>. QED BY <1>3, <1>5, <1>6, <1>7, <1>8 DEF Ordered

LEMMA PublishOrdered == ASSUME Inv, Ordered, Publish PROVE Ordered'
<1> DEFINE h == todo[1].op
           c == [op |-> This, swap |-> At("queue_swap")]
           l == Len(published) + 1
<1>1. /\ todo # << >> /\ Head(todo).do \in {"queue", "queue_swap"} /\ Go(<< >>)
      /\ published' = Append(published, c) /\ handled' = handled /\ gpu' = gpu
      /\ pending' = pending /\ issued' = issued /\ executed' = executed
  BY DEF Publish, At
<1>2. todo[1].do \in Works \ {"swap"} /\ This = h /\ h <= issued
  BY <1>1, AtHead DEF This, Works
<1>3. c.op = h BY <1>2
<1>4. pending = 0 /\ h # 0 /\ h \in Nat /\ executed < h /\ \A j \in Unhandled : published[j].op < h
  BY <1>1, <1>2, HeadFirst
<1>5. Sorted' /\ HoldLast' BY <1>1, PopSorted
<1>6. Flushed' /\ PendingLater' BY <1>1, <1>4 DEF Flushed, PendingLater
<1> HIDE DEF c
<1>7. /\ published \in Seq(Command) /\ Len(published) \in Nat /\ Len(handled) \in Nat
      /\ Len(handled) <= Len(published) /\ executed \in Nat /\ issued \in Nat
  BY Numbers DEF Inv, TypeOK
<1>8. /\ Len(published') = l
      /\ \A i \in 1..Len(published) : published'[i] = published[i]
      /\ published'[l] = c
  BY <1>1, <1>7
<1>9. ASSUME NEW j \in Unhandled'
      PROVE  \/ j \in Unhandled /\ published'[j] = published[j] /\ published'[j].op < h
             \/ j = l /\ published'[j].op = h /\ (j = Len(handled) + 1 => gpu = "waits")
  <2>1. j \in Len(handled) + 1..l BY <1>1, <1>8 DEF Unhandled
  <2>2. CASE j = l
    <3>1. published'[j].op = h BY <2>2, <1>3, <1>8
    <3>2. j = Len(handled) + 1 => gpu = "waits"
      <4>1. ASSUME j = Len(handled) + 1 PROVE ~(Len(handled) < Len(published))
        BY <4>1, <2>2, <1>7
      <4>. QED BY <4>1 DEF Inv, StreamOK
    <3>. QED BY <2>2, <3>1, <3>2
  <2>3. CASE j # l
    <3>1. j \in Unhandled /\ j \in 1..Len(published) BY <2>1, <2>3, <1>7 DEF Unhandled
    <3>. QED BY <3>1, <1>4, <1>8
  <2>. QED BY <2>2, <2>3
<1>10. StepsLater'
  <2> SUFFICES ASSUME NEW i \in 1..Len(todo'), todo'[i].op # 0
               PROVE  /\ pending' < todo'[i].op /\ executed' < todo'[i].op
                      /\ \A j \in Unhandled' : published'[j].op < todo'[i].op
    BY DEF StepsLater
  <2> DEFINE o == todo'[i].op
  <2>1. /\ pending < o /\ executed < o /\ h < o /\ o \in Nat
        /\ \A j \in Unhandled : published[j].op < o
    BY <1>1, <1>4, PopLater
  <2> HIDE DEF o, h
  <2>2. \A j \in Unhandled' : published'[j].op < o BY <2>1, <1>9
  <2>. QED BY <1>1, <2>1, <2>2 DEF o
<1>11. QueueOK'
  <2> HIDE DEF h
  <2>1. executed <= issued /\ \A j \in Unhandled : published[j].op \in Nat
    BY Numbers DEF Ordered, QueueOK
  <2>2. ASSUME NEW j \in Unhandled'
        PROVE  /\ published'[j].op <= issued
               /\ IF j = Len(handled) + 1 /\ gpu # "waits"
                  THEN executed = published'[j].op ELSE executed < published'[j].op
    <3>1. CASE j \in Unhandled /\ published'[j] = published[j]
      BY <3>1 DEF Ordered, QueueOK
    <3>2. CASE j = l /\ published'[j].op = h /\ (j = Len(handled) + 1 => gpu = "waits")
      BY <3>2, <1>2, <1>4
    <3>. QED BY <3>1, <3>2, <1>9
  <2>3. ASSUME NEW j \in Unhandled', NEW k \in Unhandled', j < k
        PROVE  published'[j].op < published'[k].op
    <3>0. j # l
      <4>1. j \in Len(handled) + 1..l /\ k \in Len(handled) + 1..l BY <1>1, <1>8 DEF Unhandled
      <4>. QED BY <4>1, <2>3, <1>7
    <3>1. j \in Unhandled /\ published'[j] = published[j] /\ published'[j].op < h BY <3>0, <1>9
    <3>2. CASE k \in Unhandled /\ published'[k] = published[k]
      BY <2>3, <3>1, <3>2 DEF Ordered, QueueOK
    <3>3. CASE published'[k].op = h BY <3>1, <3>3
    <3>. QED BY <3>2, <3>3, <1>9
  <2>. QED BY <1>1, <2>1, <2>2, <2>3 DEF QueueOK
<1>. QED BY <1>5, <1>6, <1>10, <1>11 DEF Ordered

LEMMA ProceedOrdered == ASSUME Inv, Ordered, Proceed PROVE Ordered'
<1>1. /\ pending' = pending /\ issued' = issued /\ executed' = executed
      /\ published' = published /\ handled' = handled /\ gpu' = gpu
  BY DEF Proceed, stream_vars
<1>2. ASSUME NEW x \in {"idle", "fence", "drain"}, At(x), Go(<< >>) PROVE Ordered'
  <2>1. todo # << >> /\ todo[1].do # "flush" BY <1>2, AtHead DEF At
  <2>. QED BY <2>1, <1>1, <1>2, PopOrdered
<1>3. CASE At("drain") /\ has_page_table_updates /\ Go(Do("apply", 0))
  <2> DEFINE s == Do("apply", 0)
             t == todo'
  <2>1. todo # << >> /\ todo[1].do = "drain" BY <1>3, AtHead DEF At
  <2>2. 0 \in 0..MaxOps /\ "apply" \in Names BY DEF Names
  <2>3. s \in Seq(Step) /\ Len(s) = 1 /\ s[1] = StepOf("apply", 0) BY <2>2, DoIs
  <2>4. s[1].do = "apply" /\ s[1].op = 0 BY <2>2, <2>3, StepTypes
  <2> HIDE DEF s
  <2>5. \A i \in 1..Len(s) : i = 1 BY <2>3
  <2>6. /\ \A i \in 1..Len(s) : s[i].op \in {0, 0} /\ s[i].do # "hold"
        /\ \A i, k \in 1..Len(s) : s[i].op # 0 /\ s[k].op # 0 => i = k
    BY <2>4, <2>5
  <2>7. Go(s) BY <1>3 DEF s
  <2>8. Sorted' /\ HoldLast' /\ StepsLater'
    <3>1. Len(s) >= 1 /\ 0 \in Nat BY <2>3
    <3>. QED BY <3>1, <2>1, <2>3, <2>6, <2>7, <1>1, SpliceSorted
  <2>9. Flushed'
    <3>1. todo \in Seq(Step) BY DEF Inv, TypeOK
    <3>2. /\ Len(t) = Len(s) + Len(todo) - 1 /\ Len(todo) >= 1 /\ Len(todo) \in Nat
          /\ \A i \in 1..Len(s) : t[i] = s[i]
          /\ \A i \in Len(s) + 1..Len(t) : t[i] = todo[i - Len(s) + 1]
      BY <3>1, <2>1, <2>3, <2>7, Spliced
    <3>3. Len(t) = Len(todo) /\ t[1].do = "apply" BY <3>2, <2>3, <2>4
    <3>4. ASSUME NEW i \in 1..Len(todo), i # 1 PROVE t[i] = todo[i]
      <4>1. i \in Len(s) + 1..Len(t) /\ i - Len(s) + 1 = i BY <3>4, <3>3, <2>3, <3>2
      <4>. QED BY <4>1, <3>2
    <3> HIDE DEF t
    <3>5. ASSUME pending # 0, NEW i \in 1..Len(t), t[i].do \in Works \ {"swap"}
          PROVE  \E k \in 1..Len(t) : k < i /\ t[k].do = "flush"
      <4>1. i # 1 BY <3>3, <3>5 DEF Works
      <4>2. i \in 1..Len(todo) /\ todo[i].do \in Works \ {"swap"} BY <4>1, <3>3, <3>4, <3>5
      <4>3. PICK k \in 1..Len(todo) : k < i /\ todo[k].do = "flush"
        BY <4>2, <3>5 DEF Ordered, Flushed
      <4>4. k # 1 BY <4>3, <2>1
      <4>. QED BY <4>3, <4>4, <3>3, <3>4
    <3>. QED BY <3>5, <1>1 DEF Flushed, t
  <2>10. PendingLater' /\ QueueOK' BY <1>1 DEF Ordered, PendingLater, QueueOK, Unhandled
  <2>. QED BY <2>8, <2>9, <2>10 DEF Ordered
<1>4. CASE At("swap") /\ Go(SwapSteps(This))
  <2> DEFINE n == todo[1].op
             s == SwapSteps(n)
             t == todo'
  <2>1. todo # << >> /\ todo[1].do = "swap" BY <1>4, AtHead DEF At
  <2>2. n \in 1..MaxOps /\ n \in Nat /\ n # 0 BY <2>1, AtHead DEF Works
  <2>3. Go(s) BY <2>1, <1>4, AtHead DEF This
  <2>4. /\ \A k \in 2..Len(todo) : n # 0 /\ todo[k].op # 0 => n < todo[k].op
        /\ pending < n /\ executed < n /\ \A j \in Unhandled : published[j].op < n
    <3>1. Len(todo) \in Nat /\ Len(todo) >= 1 BY <2>1, AtHead
    <3>2. 1 \in 1..Len(todo) /\ \A k \in 2..Len(todo) : k \in 1..Len(todo) /\ 1 < k BY <3>1
    <3>. QED BY <2>2, <3>2 DEF Ordered, Sorted, StepsLater
  <2> HIDE DEF n
  <2>5. \E f \in 1..Len(s) : s[f].do = "flush" /\ \A i \in 1..f : s[i].do \notin Works
    <3>1. CASE mode = "sync"
      <4>1. s = Direct(n) BY <3>1, <2>2, SwapStepsAre
      <4>2. Len(s) = 4 /\ s[1].do = "flush" BY <4>1, <2>2, DirectCall
      <4> HIDE DEF s
      <4>3. 1 \in 1..Len(s) /\ \A i \in 1..1 : i = 1 BY <4>2
      <4>. QED BY <4>2, <4>3 DEF Works
    <3>2. CASE mode # "sync"
      <4>1. /\ Len(s) = 3 /\ s[1] = StepOf("fence", 0) /\ s[2] = StepOf("flush", 0)
        BY <3>2, <2>2, SwapStepsAre
      <4>2. s[1].do = "fence" /\ s[2].do = "flush" BY <4>1, <2>2, StepFacts
      <4> HIDE DEF s
      <4>3. 2 \in 1..Len(s) /\ \A i \in 1..2 : i \in {1, 2} BY <4>1
      <4>. QED BY <4>2, <4>3 DEF Works
    <3>. QED BY <3>1, <3>2
  <2>6. /\ s \in Seq(Step) /\ Len(s) >= 1
        /\ \A i \in 1..Len(s) : s[i].op \in {0, n} /\ s[i].do # "hold"
        /\ \A i, k \in 1..Len(s) : s[i].op # 0 /\ s[k].op # 0 => i = k
    <3>1. CASE mode = "sync"
      <4>1. s = Direct(n) BY <3>1, <2>2, SwapStepsAre
      <4>2. s \in Seq(Step) /\ Len(s) = 4 /\ \A i \in 1..4 : s[i].op \in {0, n}
        BY <4>1, <2>2, DirectCall DEF CallOK
      <4>3. \A i, k \in 1..4 : s[i].op # 0 /\ s[k].op # 0 => i = k
        BY <4>1, <2>2, DirectCall DEF CallOK
      <4>4. \A i \in 1..4 : s[i].do # "hold" BY <4>1, <2>2, DirectHoldsNot
      <4>. QED BY <4>2, <4>3, <4>4
    <3>2. CASE mode # "sync"
      <4>1. /\ s \in Seq(Step) /\ Len(s) = 3 /\ s[1] = StepOf("fence", 0)
            /\ s[2] = StepOf("flush", 0) /\ s[3] = StepOf("queue_swap", n)
        BY <3>2, <2>2, SwapStepsAre
      <4>2. /\ s[1].do = "fence" /\ s[2].do = "flush" /\ s[3].do = "queue_swap"
            /\ s[1].op = 0 /\ s[2].op = 0 /\ s[3].op = n
        BY <4>1, <2>2, StepFacts
      <4> HIDE DEF s
      <4>3. \A i \in 1..Len(s) : i \in {1, 2, 3} BY <4>1
      <4>. QED BY <4>1, <4>2, <4>3
    <3>. QED BY <3>1, <3>2
  <2> HIDE DEF s
  <2>7. Sorted' /\ HoldLast' /\ StepsLater' BY <2>1, <2>2, <2>3, <2>4, <2>6, <1>1, SpliceSorted
  <2>8. Flushed'
    <3>1. PICK f \in 1..Len(s) : s[f].do = "flush" /\ \A i \in 1..f : s[i].do \notin Works
      BY <2>5
    <3>2. todo \in Seq(Step) BY DEF Inv, TypeOK
    <3>3. /\ Len(t) = Len(s) + Len(todo) - 1 /\ Len(todo) >= 1 /\ Len(todo) \in Nat
          /\ Len(s) \in Nat /\ \A i \in 1..Len(s) : t[i] = s[i]
      BY <3>2, <2>1, <2>3, <2>6, Spliced
    <3> HIDE DEF t
    <3>4. f \in 1..Len(t) /\ t[f].do = "flush" BY <3>1, <3>3
    <3>5. ASSUME NEW i \in 1..Len(t), t[i].do \in Works PROVE f < i
      <4>1. ASSUME i <= f PROVE FALSE
        <5>1. i \in 1..f /\ i \in 1..Len(s) BY <4>1, <3>3
        <5>. QED BY <5>1, <3>1, <3>3, <3>5
      <4>. QED BY <4>1
    <3>. QED BY <3>4, <3>5 DEF Flushed, t
  <2>9. PendingLater' /\ QueueOK' BY <1>1 DEF Ordered, PendingLater, QueueOK, Unhandled
  <2>. QED BY <2>7, <2>8, <2>9 DEF Ordered
<1>. QED BY <1>2, <1>3, <1>4 DEF Proceed

LEMMA PopsOrdered == ASSUME Inv, Ordered, SetMode \/ Apply \/ Clear PROVE Ordered'
<1>1. /\ todo # << >> /\ Head(todo).do # "flush" /\ Go(<< >>) /\ pending' = pending
      /\ published' = published /\ handled' = handled /\ gpu' = gpu /\ executed' = executed
      /\ issued' = issued
  BY DEF SetMode, Apply, Clear, At, Mode, stream_vars
<1>2. todo[1].do # "flush" BY <1>1, AtHead
<1>. QED BY <1>1, <1>2, PopOrdered

LEMMA RasterizeOrdered ==
  ASSUME Inv, Ordered, Rasterize
  PROVE  Ordered' /\ executed' > executed
<1> DEFINE h == todo[1].op
<1>1. /\ todo # << >> /\ Head(todo).do = "direct" /\ Go(<< >>) /\ At("direct")
      /\ executed' = Head(todo).op /\ pending' = pending /\ issued' = issued
      /\ published' = published /\ handled' = handled /\ gpu' = gpu
  BY DEF Rasterize, At, This, stream_vars
<1>2. todo[1].do = "direct" /\ executed' = h /\ h <= issued BY <1>1, AtHead
<1>3. pending = 0 /\ h # 0 /\ h \in Nat /\ executed < h BY <1>1, <1>2, HeadFirst DEF Works
<1>4. \A j \in Unhandled : FALSE
  <2>1. Len(handled) = Len(published) BY <1>1, DirectHead DEF IsIdle
  <2>. QED BY <2>1, Numbers DEF Unhandled
<1>5. Sorted' /\ HoldLast' BY <1>1, PopSorted
<1>6. Flushed' /\ PendingLater' BY <1>1, <1>3 DEF Flushed, PendingLater
<1>7. StepsLater'
  <2>1. ASSUME NEW i \in 1..Len(todo'), todo'[i].op # 0
        PROVE  pending' < todo'[i].op /\ executed' < todo'[i].op
    BY <2>1, <1>1, <1>2, <1>3, PopLater
  <2>. QED BY <2>1, <1>1, <1>4 DEF StepsLater, Unhandled
<1>8. QueueOK' BY <1>1, <1>2, <1>4 DEF QueueOK, Unhandled
<1>9. executed' > executed
  <2>1. executed \in Nat BY Numbers
  <2>. QED BY <2>1, <1>2, <1>3
<1>. QED BY <1>5, <1>6, <1>7, <1>8, <1>9 DEF Ordered

LEMMA CallbackOrdered == ASSUME Inv, Ordered, PageTableUpdateCallback PROVE Ordered'
<1> DEFINE s == CallbackSteps
<1>1. /\ todo' = s /\ pending' = pending /\ issued' = issued /\ executed' = executed
      /\ published' = published /\ handled' = handled /\ gpu' = gpu
  BY DEF PageTableUpdateCallback, stream_vars
<1>2. \A i \in 1..Len(s) : s[i].op = 0 /\ s[i].do \notin Works
  <2> DEFINE a == Do("clear", 0)
             b == a \o Do("drain", 0)
  <2>0. "clear" \in Names /\ "drain" \in Names /\ 0 \in 0..MaxOps BY DEF Names
  <2>1. a \in Seq(Step) /\ Len(a) = 1 /\ a[1] = StepOf("clear", 0) BY <2>0, DoIs
  <2>2. s = b BY DEF CallbackSteps
  <2> HIDE DEF a, s
  <2>3. /\ b \in Seq(Step) /\ Len(b) = Len(a) + 1 /\ \A i \in 1..Len(a) : b[i] = a[i]
        /\ b[Len(a) + 1] = StepOf("drain", 0)
    BY <2>0, <2>1, AndThen
  <2> HIDE DEF b
  <2>4. Len(s) = 2 /\ s[1] = StepOf("clear", 0) /\ s[2] = StepOf("drain", 0)
    BY <2>1, <2>2, <2>3
  <2>5. s[1].do = "clear" /\ s[2].do = "drain" /\ s[1].op = 0 /\ s[2].op = 0
    BY <2>0, <2>4, StepTypes
  <2>6. \A i \in 1..Len(s) : i \in {1, 2} BY <2>4
  <2>. QED BY <2>5, <2>6 DEF Works
<1> HIDE DEF s
<1>3. Sorted' /\ HoldLast' /\ StepsLater' /\ Flushed'
  BY <1>1, <1>2 DEF Sorted, HoldLast, StepsLater, Flushed
<1>4. PendingLater' /\ QueueOK' BY <1>1 DEF Ordered, PendingLater, QueueOK, Unhandled
<1>. QED BY <1>3, <1>4 DEF Ordered

LEMMA HandleOrdered ==
  ASSUME Inv, Ordered, Handle
  PROVE  Ordered' /\ executed' > executed
<1> DEFINE h == Len(handled) + 1
           o == published[h].op
<1>1. /\ gpu = "waits" /\ ~IsIdle /\ gpu' = "handles" /\ executed' = o
      /\ published' = published /\ handled' = handled
      /\ pending' = pending /\ todo' = todo /\ issued' = issued
  BY DEF Handle, emu_vars, stream_vars
<1>2. /\ Len(handled) \in Nat /\ Len(published) \in Nat /\ Len(handled) <= Len(published)
      /\ Len(handled) # Len(published)
  BY <1>1, Numbers DEF IsIdle
<1>3. h \in Unhandled BY <1>2 DEF Unhandled
<1>4. \A j \in Unhandled : j = h \/ h < j BY <1>2 DEF Unhandled
<1>5. executed < o /\ o <= issued /\ executed \in Nat /\ o \in Nat
  BY <1>1, <1>3, Numbers DEF Ordered, QueueOK
<1>6. Sorted' /\ HoldLast' /\ Flushed' BY <1>1 DEF Ordered, Sorted, HoldLast, Flushed
<1>7. StepsLater' BY <1>1, <1>3 DEF Ordered, StepsLater, Unhandled
<1>8. PendingLater' BY <1>1, <1>3 DEF Ordered, PendingLater, Unhandled
<1>9. QueueOK'
  <2>1. ASSUME NEW j \in Unhandled
        PROVE  /\ published[j].op <= issued
               /\ IF j = h THEN o = published[j].op ELSE o < published[j].op
    BY <1>3, <1>4 DEF Ordered, QueueOK
  <2>. QED BY <2>1, <1>1, <1>5 DEF Ordered, QueueOK, Unhandled
<1>. QED BY <1>1, <1>5, <1>6, <1>7, <1>8, <1>9 DEF Ordered

LEMMA UpdateOrdered ==
  ASSUME Inv, Ordered, NoteUpdate \/ Exchange \/ ScheduleEvent
  PROVE  Ordered' /\ executed' = executed
<1>1. /\ gpu # "waits" /\ executed' = executed
      /\ published' = published /\ handled' = handled
      /\ pending' = pending /\ todo' = todo /\ issued' = issued
  BY DEF NoteUpdate, Exchange, ScheduleEvent, emu_vars, stream_vars
<1>2. gpu' # "waits" BY DEF NoteUpdate, Exchange, ScheduleEvent, AfterExchange
<1>3. Sorted' /\ HoldLast' /\ Flushed' /\ StepsLater' /\ PendingLater'
  BY <1>1 DEF Ordered, Sorted, HoldLast, Flushed, StepsLater, PendingLater, Unhandled
<1>4. QueueOK' BY <1>1, <1>2 DEF Ordered, QueueOK, Unhandled
<1>. QED BY <1>1, <1>3, <1>4 DEF Ordered

LEMMA DoneOrdered ==
  ASSUME Inv, Ordered, Done
  PROVE  Ordered' /\ executed' = executed
<1> DEFINE c == published[Len(handled) + 1]
           h == Len(handled) + 1
<1>1. /\ gpu = "handles" /\ gpu' = "waits" /\ executed' = executed
      /\ Len(handled) < Len(published) /\ handled' = Append(handled, c) /\ published' = published
      /\ pending' = pending /\ todo' = todo /\ issued' = issued
  BY DEF Done, Stream!Handle, emu_vars
<1>2. Len(handled) \in Nat /\ Len(published) \in Nat BY Numbers
<1>3. Len(handled') = h
  <2>1. handled \in Seq(Command) BY DEF Inv, TypeOK
  <2> HIDE DEF c
  <2>. QED BY <1>1, <2>1
<1>4. h \in Unhandled BY <1>1, <1>2 DEF Unhandled
<1>5. \A j \in Unhandled' : j \in Unhandled /\ h < j /\ j \in Nat
  BY <1>1, <1>2, <1>3 DEF Unhandled
<1>6. executed = published[h].op BY <1>1, <1>4 DEF Ordered, QueueOK
<1>7. Sorted' /\ HoldLast' /\ Flushed' BY <1>1 DEF Ordered, Sorted, HoldLast, Flushed
<1>8. StepsLater' /\ PendingLater' BY <1>1, <1>5 DEF Ordered, StepsLater, PendingLater
<1>9. QueueOK'
  <2>1. \A j \in Unhandled' : published[j].op <= issued /\ executed < published[j].op
    BY <1>4, <1>5, <1>6 DEF Ordered, QueueOK
  <2>. QED BY <2>1, <1>1, <1>5 DEF Ordered, QueueOK
<1>. QED BY <1>1, <1>7, <1>8, <1>9 DEF Ordered

LEMMA StutterOrdered == ASSUME Ordered, UNCHANGED vars PROVE Ordered' /\ executed' = executed
BY DEF vars, stream_vars, Ordered, Sorted, HoldLast, Flushed, StepsLater, PendingLater, QueueOK,
       Unhandled

\* The steps that reach the rasterizer do so with a later call; the others do not.
LEMMA StepOrdered ==
  ASSUME Inv, Ordered, [Next]_vars
  PROVE  Ordered' /\ (executed' # executed => executed' > executed)
<1>1. CASE IsCall
  <2>1. executed' = executed
    BY <1>1 DEF IsCall, FlushRegion, Submit, InvalidateRegion, VBlank, Call
  <2>. QED BY <1>1, <2>1, CallOrdered
<1>2. CASE Flush \/ Hold \/ Publish \/ Proceed \/ SetMode \/ Apply \/ Clear
  <2>1. executed' = executed
    BY <1>2 DEF Flush, Hold, Publish, Proceed, SetMode, Apply, Clear
  <2>. QED BY <1>2, <2>1, FlushOrdered, HoldOrdered, PublishOrdered, ProceedOrdered, PopsOrdered
<1>3. CASE PageTableUpdateCallback
  BY <1>3, CallbackOrdered DEF PageTableUpdateCallback
<1>4. CASE Rasterize BY <1>4, RasterizeOrdered
<1>5. CASE Handle BY <1>5, HandleOrdered
<1>6. CASE Exchange \/ ScheduleEvent \/ NoteUpdate BY <1>6, UpdateOrdered
<1>7. CASE Done BY <1>7, DoneOrdered
<1>8. CASE UNCHANGED vars BY <1>8, StutterOrdered
<1>. QED BY <1>1, <1>2, <1>3, <1>4, <1>5, <1>6, <1>7, <1>8 DEF Next, IsCall, EmuStep, GpuStep

\* The calls reach the rasterizer in the order in which they were made, whichever thread
\* it runs on, however invalidations are held back and modes change.
THEOREM ProgramOrderKept == Spec => ProgramOrder
<1>1. Init => Inv /\ Ordered BY StartInv, StartOrdered
<1>2. Inv /\ Ordered /\ [Next]_vars => Inv' /\ Ordered' BY StepInv, StepOrdered
<1>3. Inv /\ Ordered /\ [Next]_vars => [executed' # executed => executed' > executed]_vars
  BY StepOrdered
<1>. QED BY <1>1, <1>2, <1>3, PTL DEF Spec, ProgramOrder
================================================================================

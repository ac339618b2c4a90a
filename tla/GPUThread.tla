------------------------------- MODULE GPUThread -------------------------------
(******************************************************************************)
(* The command ring between the emulation thread and the GPU thread           *)
(* (video_core/gpu_thread.cpp): one producer, one consumer, a ring of slots,  *)
(* a byte arena for the payloads, and sleeping on atomic words with flags     *)
(* that tell the other side whether a notification is needed.                 *)
(*                                                                            *)
(* Every access to a shared atomic is a step of its own.  The ring's indices, *)
(* like the fences, count from zero and never wrap; write_index and           *)
(* fence_enqueued only change together with shared_write_index, and           *)
(* read_index with shared_read_index, so one word stands for each group.      *)
(******************************************************************************)
EXTENDS Integers, Sequences

CONSTANTS QueueCapacity,    \* slots of the ring
          PayloadCapacity,  \* bytes of the arena
          Alignment,        \* every payload starts at a multiple of it
          PayloadSizes,     \* the sizes the callers pass
          MaxCommands       \* bound: commands the emulation thread publishes

ASSUME CapacityAssumption == QueueCapacity \in Nat \ {0} /\ PayloadCapacity \in Nat \ {0}
ASSUME AlignmentAssumption == Alignment \in Nat \ {0} /\ PayloadCapacity % Alignment = 0
ASSUME SizesAssumption == PayloadSizes \subseteq 0..PayloadCapacity
ASSUME MaxCommandsAssumption == MaxCommands \in Nat

\* The atomic words a thread may sleep on: the consumer on the write index, the
\* producer on the read index and on the completed fence.
Word == {"write_index", "read_index", "fence"}

VARIABLES
  shared,              \* shared_write_index, shared_read_index, fence_completed
  waiting,             \* consumer_waiting, producer_waiting, fence_waiting
  cache,               \* the waiter's last load of the word
  await,               \* how far the waiter's loop on the word has come
  queue,               \* the slots of the ring
  payload_arena,       \* for every byte, the fence of the command that wrote it
  payload_head, payload_tail_cache, payload_tail,
  emu, request,        \* emulation thread: where it is, the call it executes
  gpu, command,        \* GPU thread: where it is, what it read from the slot
  published, handled   \* history: see CommandStream

vars == <<shared, waiting, cache, await, queue, payload_arena, payload_head,
          payload_tail_cache, payload_tail, emu, request, gpu, command,
          published, handled>>

sync    == <<shared, waiting, cache, await>>
payload == <<payload_arena, payload_head, payload_tail_cache, payload_tail>>

--------------------------------------------------------------------------------
(* Sleeping on a word.  The spinning that precedes it is a load that may be   *)
(* repeated.                                                                  *)

\* Mutant of Arrived: a fence is taken for reached one command early.
ArrivedEarly(w, v) ==
  CASE w = "write_index" -> shared["read_index"] # v
    [] w = "read_index"  -> shared["write_index"] - v # QueueCapacity
    [] w = "fence"       -> v + 1 >= request.target

\* What the waiter of w waits for, v being the value it loaded.
Arrived(w, v) ==
  CASE w = "write_index" -> shared["read_index"] # v
    [] w = "read_index"  -> shared["write_index"] - v # QueueCapacity
    [] w = "fence"       -> v >= request.target

\* The load while spinning, and the one after waking.
Load(w) ==
  /\ await[w] \in {"spin", "reload"}
  /\ cache' = [cache EXCEPT ![w] = shared[w]]
  /\ await' = [await EXCEPT ![w] = IF Arrived(w, shared[w]) THEN "off" ELSE "arm"]
  /\ UNCHANGED <<shared, waiting>>

\* Mutant of Arm: the waiter does not say that it waits.
ArmSilently(w) ==
  /\ await[w] = "arm"
  /\ await' = [await EXCEPT ![w] = "check"]
  /\ UNCHANGED <<shared, waiting, cache>>

Arm(w) ==
  /\ await[w] = "arm"
  /\ waiting' = [waiting EXCEPT ![w] = TRUE]
  /\ await' = [await EXCEPT ![w] = "check"]
  /\ UNCHANGED <<shared, cache>>

Check(w) ==
  /\ await[w] = "check"
  /\ cache' = [cache EXCEPT ![w] = shared[w]]
  /\ await' = [await EXCEPT ![w] = IF Arrived(w, shared[w]) THEN "disarm" ELSE "wait"]
  /\ UNCHANGED <<shared, waiting>>

\* Mutant of Wait: a sleep that does not compare the word first.
WaitBlindly(w) ==
  /\ await[w] = "wait"
  /\ await' = [await EXCEPT ![w] = "asleep"]
  /\ UNCHANGED <<shared, waiting, cache>>

\* std::atomic::wait: sleep only if the word still has the value last loaded.
Wait(w) ==
  /\ await[w] = "wait"
  /\ await' = [await EXCEPT ![w] = IF shared[w] = cache[w] THEN "asleep" ELSE "disarm"]
  /\ UNCHANGED <<shared, waiting, cache>>

Disarm(w) ==
  /\ await[w] = "disarm"
  /\ waiting' = [waiting EXCEPT ![w] = FALSE]
  /\ await' = [await EXCEPT ![w] = "reload"]
  /\ UNCHANGED <<shared, cache>>

AwaitStep(w) ==
  /\ Load(w) \/ Arm(w) \/ Check(w) \/ Wait(w) \/ Disarm(w)
  /\ UNCHANGED <<queue, payload, emu, request, gpu, command, published, handled>>

\* After a store: std::atomic::notify_one if the flag is set.  The sleeper then
\* compares the word again.
Signal(w) ==
  /\ await' = [await EXCEPT ![w] = IF waiting[w] /\ @ = "asleep" THEN "wait" ELSE @]
  /\ UNCHANGED <<shared, waiting, cache>>

--------------------------------------------------------------------------------
Slot == [fence |-> 0, stop |-> FALSE, size |-> 0, offset |-> 0]

Init ==
  /\ shared = [w \in Word |-> 0]
  /\ waiting = [w \in Word |-> FALSE]
  /\ cache = [w \in Word |-> 0]
  /\ await = [w \in Word |-> "off"]
  /\ queue = [i \in 0..QueueCapacity - 1 |-> Slot]
  /\ payload_arena = [i \in 0..PayloadCapacity - 1 |-> 0]
  /\ payload_head = 0 /\ payload_tail_cache = 0 /\ payload_tail = 0
  /\ emu = "run" /\ request = [stop |-> FALSE, size |-> 0, target |-> 0]
  /\ gpu = "next" /\ command = Slot
  /\ published = << >> /\ handled = << >>

write_index    == shared["write_index"]
read_index     == shared["read_index"]
fence_enqueued == write_index

(* The emulation thread. *)

\* Mutant of BeginQueue: the ring is never found full.
BeginAtOnce ==
  /\ emu' = "claim"
  /\ UNCHANGED sync

\* BeginQueue: wait for a free slot unless the cached index already shows one.
BeginQueue ==
  /\ emu' = "claim"
  /\ await' = [await EXCEPT !["read_index"] =
                 IF write_index - cache["read_index"] = QueueCapacity THEN "spin" ELSE "off"]
  /\ UNCHANGED <<shared, waiting, cache>>

\* GPU::QueueAsync with a payload of n bytes.
QueueAsync(n) ==
  /\ emu = "run"
  /\ write_index < MaxCommands
  /\ request' = [request EXCEPT !.size = n]
  /\ BeginQueue
  /\ UNCHANGED <<queue, payload, gpu, command, published, handled>>

\* The slot is claimed and filled in; its payload_offset keeps its old value.
Claim ==
  /\ emu = "claim"
  /\ await["read_index"] = "off"
  /\ queue' = [queue EXCEPT ![write_index % QueueCapacity].fence = fence_enqueued + 1,
                            ![write_index % QueueCapacity].stop = request.stop,
                            ![write_index % QueueCapacity].size = request.size]
  /\ emu' = IF request.size = 0 THEN "publish" ELSE "payload"
  /\ UNCHANGED <<sync, payload, request, gpu, command, published, handled>>

AlignUp(n) == ((n + Alignment - 1) \div Alignment) * Alignment

\* Where AllocatePayload puts the block: never across the end of the arena.
PayloadOffset ==
  LET offset == AlignUp(payload_head)
      physical == offset % PayloadCapacity
  IN  IF physical + request.size > PayloadCapacity
      THEN offset + PayloadCapacity - physical ELSE offset

PayloadFits == PayloadOffset + request.size - payload_tail_cache <= PayloadCapacity

\* AllocatePayload spins until the consumer has freed enough.
LoadPayloadTail ==
  /\ emu = "payload"
  /\ ~PayloadFits
  /\ payload_tail_cache' = payload_tail
  /\ UNCHANGED <<sync, queue, payload_arena, payload_head, payload_tail, emu,
                 request, gpu, command, published, handled>>

WritePayload ==
  /\ emu = "payload"
  /\ PayloadFits
  /\ queue' = [queue EXCEPT ![write_index % QueueCapacity].offset = PayloadOffset]
  /\ LET first == PayloadOffset % PayloadCapacity
     IN  payload_arena' = [i \in DOMAIN payload_arena |->
                             IF i \in first..first + request.size - 1
                             THEN fence_enqueued + 1 ELSE payload_arena[i]]
  /\ payload_head' = PayloadOffset + request.size
  /\ emu' = "publish"
  /\ UNCHANGED <<sync, payload_tail_cache, payload_tail, request, gpu, command,
                 published, handled>>

\* EndQueue: publish the slot, then see whether the consumer needs waking.
Publish ==
  /\ emu = "publish"
  /\ shared' = [shared EXCEPT !["write_index"] = @ + 1]
  /\ published' = IF request.stop THEN published
                  ELSE Append(published, [fence |-> fence_enqueued + 1,
                                          bytes |-> [i \in 1..request.size |-> fence_enqueued + 1]])
  /\ emu' = "published"
  /\ UNCHANGED <<waiting, cache, await, queue, payload, request, gpu, command, handled>>

SignalConsumer ==
  /\ emu = "published"
  /\ Signal("write_index")
  /\ emu' = IF request.stop THEN "join" ELSE "run"
  /\ UNCHANGED <<queue, payload, request, gpu, command, published, handled>>

\* WaitForFence; WaitIdle waits for the newest fence.
WaitForFence(target) ==
  /\ emu = "run"
  /\ request' = [request EXCEPT !.target = target]
  /\ await' = [await EXCEPT !["fence"] = "spin"]
  /\ emu' = "fence"
  /\ UNCHANGED <<shared, waiting, cache, queue, payload, gpu, command, published, handled>>

FenceReached ==
  /\ emu = "fence"
  /\ await["fence"] = "off"
  /\ emu' = "run"
  /\ UNCHANGED <<sync, queue, payload, request, gpu, command, published, handled>>

\* The destructor: WaitIdle, then a StopCommand, then join.
Destroy ==
  /\ emu = "run"
  /\ request' = [stop |-> TRUE, size |-> 0, target |-> fence_enqueued]
  /\ await' = [await EXCEPT !["fence"] = "spin"]
  /\ emu' = "drain"
  /\ UNCHANGED <<shared, waiting, cache, queue, payload, gpu, command, published, handled>>

QueueStop ==
  /\ emu = "drain"
  /\ await["fence"] = "off"
  /\ BeginQueue
  /\ UNCHANGED <<queue, payload, request, gpu, command, published, handled>>

Join ==
  /\ emu = "join" /\ gpu = "stopped"
  /\ emu' = "joined"
  /\ UNCHANGED <<sync, queue, payload, request, gpu, command, published, handled>>

--------------------------------------------------------------------------------
(* The GPU thread. *)

\* The top of Run's loop.
NextCommand ==
  /\ gpu = "next"
  /\ await' = [await EXCEPT !["write_index"] =
                 IF read_index = cache["write_index"] THEN "spin" ELSE "off"]
  /\ gpu' = "read"
  /\ UNCHANGED <<shared, waiting, cache, queue, payload, emu, request, command,
                 published, handled>>

ReadSlot ==
  /\ gpu = "read"
  /\ await["write_index"] = "off"
  /\ command' = queue[read_index % QueueCapacity]
  /\ gpu' = IF command'.stop THEN "stopped" ELSE "handle"
  /\ UNCHANGED <<sync, queue, payload, emu, request, published, handled>>

\* What the handler sees: the slot by reference and a span of the arena, both
\* read while it runs.
HandlerView ==
  LET slot == queue[read_index % QueueCapacity]
      first == command.offset % PayloadCapacity
  IN  [fence |-> slot.fence,
       bytes |-> [i \in 1..command.size |-> payload_arena[first + i - 1]]]

HandlerReturns ==
  /\ gpu = "handle"
  /\ handled' = Append(handled, HandlerView)
  /\ gpu' = "retire"
  /\ UNCHANGED <<sync, queue, payload, emu, request, command, published>>

RetireSlot ==
  /\ gpu = "retire"
  /\ shared' = [shared EXCEPT !["read_index"] = @ + 1]
  /\ gpu' = "retired"
  /\ UNCHANGED <<waiting, cache, await, queue, payload, emu, request, command,
                 published, handled>>

SignalProducer ==
  /\ gpu = "retired"
  /\ Signal("read_index")
  /\ gpu' = "free"
  /\ UNCHANGED <<queue, payload, emu, request, command, published, handled>>

\* Mutant of FreePayload: only the bytes before the payload are freed.
FreesUpToPayload ==
  /\ gpu = "free"
  /\ payload_tail' = IF command.size # 0 THEN command.offset ELSE payload_tail
  /\ gpu' = "complete"
  /\ UNCHANGED <<sync, queue, payload_arena, payload_head, payload_tail_cache, emu,
                 request, command, published, handled>>

FreePayload ==
  /\ gpu = "free"
  /\ payload_tail' = IF command.size # 0 THEN command.offset + command.size ELSE payload_tail
  /\ gpu' = "complete"
  /\ UNCHANGED <<sync, queue, payload_arena, payload_head, payload_tail_cache, emu,
                 request, command, published, handled>>

CompleteFence ==
  /\ gpu = "complete"
  /\ shared' = [shared EXCEPT !["fence"] = command.fence]
  /\ gpu' = "completed"
  /\ UNCHANGED <<waiting, cache, await, queue, payload, emu, request, command,
                 published, handled>>

SignalFenceWaiter ==
  /\ gpu = "completed"
  /\ Signal("fence")
  /\ gpu' = "next"
  /\ UNCHANGED <<queue, payload, emu, request, command, published, handled>>

--------------------------------------------------------------------------------
EmuStep == \/ AwaitStep("read_index") \/ AwaitStep("fence")
           \/ Claim \/ LoadPayloadTail \/ WritePayload \/ Publish
           \/ SignalConsumer \/ FenceReached \/ QueueStop \/ Join

GPUStep == \/ AwaitStep("write_index")
           \/ NextCommand \/ ReadSlot \/ HandlerReturns \/ RetireSlot
           \/ SignalProducer \/ FreePayload \/ CompleteFence \/ SignalFenceWaiter

Call == \/ \E n \in PayloadSizes : QueueAsync(n)
        \/ \E f \in 1..fence_enqueued : WaitForFence(f)
        \/ Destroy

\* After the join nothing is left to do.
Next == EmuStep \/ GPUStep \/ Call

Spec == Init /\ [][Next]_vars

\* Both are host threads the operating system schedules; the emulation thread
\* need not call again.
FairSpec == Spec /\ WF_vars(EmuStep) /\ WF_vars(GPUStep)

--------------------------------------------------------------------------------
TypeOK ==
  /\ shared \in [Word -> Nat]
  /\ waiting \in [Word -> BOOLEAN]
  /\ cache \in [Word -> Nat]
  /\ await \in [Word -> {"off", "spin", "arm", "check", "wait", "asleep", "disarm", "reload"}]
  /\ queue \in [0..QueueCapacity - 1 ->
                  [fence : Nat, stop : BOOLEAN, size : 0..PayloadCapacity, offset : Nat]]
  /\ payload_arena \in [0..PayloadCapacity - 1 -> Nat]
  /\ payload_head \in Nat /\ payload_tail_cache \in Nat /\ payload_tail \in Nat
  /\ emu \in {"run", "claim", "payload", "publish", "published", "fence", "drain",
              "join", "joined"}
  /\ request \in [stop : BOOLEAN, size : 0..PayloadCapacity, target : Nat]
  /\ gpu \in {"next", "read", "handle", "retire", "retired", "free", "complete",
              "completed", "stopped"}
  /\ command \in [fence : Nat, stop : BOOLEAN, size : 0..PayloadCapacity, offset : Nat]

\* While the handler runs, the slot it reads by reference and the bytes of its
\* payload are those of the command it was started for: the producer, who
\* decides from stale copies of the read index and of the arena's tail, has
\* overwritten neither (gpu_thread.cpp, BeginQueue and AllocatePayload).
HandlerInputIntact ==
  gpu = "handle" => HandlerView = published[read_index + 1]

\* When WaitForFence or WaitIdle returns, the handler has returned from every
\* command up to the fence and the arena holds none of their payloads as live:
\* save states, flushes and presentation rely on it (gpu.cpp, SyncGpuThread).
FencesAreDone ==
  /\ shared["fence"] <= Len(handled)
  /\ emu = "fence" /\ await["fence"] = "off" =>
       /\ request.target <= Len(handled)
       /\ request.target = Len(published) => payload_tail = payload_head

\* No thread sleeps on a word that has changed since it looked, unless the
\* thread that changed it is still on its way to notify: the flag protocol
\* loses no wakeup.
NoLostNotification ==
  \A w \in Word : await[w] = "asleep" /\ shared[w] # cache[w] =>
    \/ w = "write_index" /\ emu = "published"
    \/ w = "read_index"  /\ gpu = "retired"
    \/ w = "fence"       /\ gpu = "completed"

Stream == INSTANCE CommandStream
            WITH Command <- [fence : 1..MaxCommands,
                             bytes : UNION {[1..n -> 1..MaxCommands] : n \in PayloadSizes}]

\* The handler gets every published command once, in order, with its payload.
ImplementsStream == Stream!Spec

\* Whatever is published is handled in the end: neither thread sleeps forever.
CommandsHandled ==
  \A n \in 1..MaxCommands : Len(published) = n ~> Len(handled) >= n

\* Every call of the emulation thread returns: a slot and room in the arena
\* are found, a fence is reached, the destructor joins the GPU thread.
CallsReturn == emu \notin {"run", "joined"} ~> emu \in {"run", "joined"}
================================================================================

---------------------------- MODULE GPUThreadProofs ----------------------------
(******************************************************************************)
(* The command ring, for every capacity, payload size and number of commands: *)
(* no wakeup is lost, the handler's input is never overwritten, fences mean   *)
(* what they say, and the ring implements CommandStream.                      *)
(*                                                                            *)
(* The inductive invariant (RingOK) has one part per hazard: both indices are *)
(* within what the stale copies allow (IndexOK), so the slots between them    *)
(* keep the published commands (SlotsOK); the payloads lie in order between   *)
(* the freed bytes and the head, in a window no longer than the arena         *)
(* (ArenaOK), so that no two of them share a byte; and the GPU thread's local *)
(* command, the fence and the handled commands keep step (CommandOK).         *)
(******************************************************************************)
EXTENDS GPUThread, TLAPS

\* Remainders: their range, and that they tell apart numbers of a window.
LEMMA ModRange == ASSUME NEW n \in Nat, NEW m \in Nat \ {0}
                  PROVE  n % m \in 0..m - 1 /\ n \div m \in Nat /\ n = m * (n \div m) + (n % m)
  OBVIOUS

LEMMA ModDistinct ==
  ASSUME NEW m \in Nat \ {0}, NEW x \in Nat, NEW y \in Nat, x < y, y < x + m
  PROVE  x % m # y % m
<1>1. SUFFICES ASSUME x % m = y % m PROVE FALSE OBVIOUS
<1> DEFINE a == x \div m
           b == y \div m
<1>a. a \in Nat /\ x = m * a + (x % m) /\ x % m \in 0..m - 1 BY ModRange
<1>b. b \in Nat /\ y = m * b + (y % m) /\ y % m \in 0..m - 1 BY ModRange
<1> HIDE DEF a, b
<1>2. a \in Nat /\ b \in Nat /\ y - x = m * b - m * a BY <1>1, <1>a, <1>b
<1>3. m * b - m * a = m * (b - a) BY <1>2
<1>4. CASE b - a >= 1
  <2>1. m * (b - a) >= m BY <1>4, <1>2
  <2>. QED BY <2>1, <1>2, <1>3
<1>5. CASE b - a <= 0
  <2>1. m * (b - a) <= 0 BY <1>5, <1>2
  <2>. QED BY <2>1, <1>2, <1>3
<1>. QED BY <1>4, <1>5, <1>2

LEMMA ModShift ==
  ASSUME NEW m \in Nat \ {0}, NEW x \in Nat, NEW k \in Nat, (x % m) + k < m
  PROVE  (x + k) % m = (x % m) + k
<1> DEFINE a == x \div m
           c == (x + k) \div m
           r == (x + k) % m
<1>1. a \in Nat /\ x = m * a + (x % m) /\ x % m \in 0..m - 1 BY ModRange
<1>0. x + k \in Nat OBVIOUS
<1>2. c \in Nat /\ r \in 0..m - 1 /\ x + k = m * c + r BY <1>0, ModRange, Zenon
<1> HIDE DEF a, c, r
<1>3. m * (c - a) = (x % m) + k - r BY <1>1, <1>2
<1>4. c = a
  <2>1. CASE c - a >= 1
    <3>1. m * (c - a) >= m BY <2>1, <1>1, <1>2
    <3>. QED BY <3>1, <1>3, <1>1, <1>2
  <2>2. CASE c - a <= -1
    <3>1. m * (c - a) <= -m BY <2>2, <1>1, <1>2
    <3>. QED BY <3>1, <1>3, <1>1, <1>2
  <2>. QED BY <2>1, <2>2, <1>1, <1>2
<1>5. r = (x % m) + k BY <1>3, <1>4, <1>1, <1>2
<1>. QED BY <1>5 DEF r
--------------------------------------------------------------------------------
(* Types. *)

USE CapacityAssumption, SizesAssumption, MaxCommandsAssumption

AwaitStates == {"off", "spin", "arm", "check", "wait", "asleep", "disarm", "reload"}
SlotType == [fence : Nat, stop : BOOLEAN, size : 0..PayloadCapacity, offset : Nat]

\* AllocatePayload finds a block that starts at or after the head and does not cross
\* the end of the arena.
LEMMA PayloadOffsetOK ==
  ASSUME payload_head \in Nat, request.size \in 0..PayloadCapacity
  PROVE  /\ PayloadOffset \in Nat /\ PayloadOffset >= payload_head
         /\ (PayloadOffset % PayloadCapacity) + request.size <= PayloadCapacity
<1> DEFINE n == payload_head + Alignment - 1
           q == n \div Alignment
           offset == AlignUp(payload_head)
           physical == offset % PayloadCapacity
           next == offset + PayloadCapacity - physical
<1>0. n \in Nat BY AlignmentAssumption
<1>1. q \in Nat /\ n = Alignment * q + (n % Alignment) /\ n % Alignment \in 0..Alignment - 1
  BY <1>0, AlignmentAssumption, ModRange, Zenon
<1>2. offset = q * Alignment BY DEF AlignUp
<1> HIDE DEF q
<1>3. q * Alignment = Alignment * q BY <1>1, AlignmentAssumption
<1>4. offset \in Nat /\ offset >= payload_head BY <1>1, <1>2, <1>3, AlignmentAssumption
<1> HIDE DEF offset, n
<1>5. physical \in 0..PayloadCapacity - 1 /\ offset = PayloadCapacity * (offset \div PayloadCapacity) + physical
      /\ offset \div PayloadCapacity \in Nat
  BY <1>4, ModRange, Zenon
<1>6. PayloadOffset = IF physical + request.size > PayloadCapacity THEN next ELSE offset
  BY DEF PayloadOffset, offset
<1>7. CASE physical + request.size > PayloadCapacity
  <2> DEFINE d == offset \div PayloadCapacity
  <2>1. next = PayloadCapacity * d + PayloadCapacity /\ d \in Nat BY <1>5, <1>4
  <2> HIDE DEF d, physical
  <2>2. next = PayloadCapacity * (d + 1) /\ next \in Nat /\ next > offset BY <2>1, <1>4, <1>5
  <2> DEFINE e == next \div PayloadCapacity
             r == next % PayloadCapacity
  <2>3. e \in Nat /\ r \in 0..PayloadCapacity - 1 /\ next = PayloadCapacity * e + r
    BY <2>2, ModRange, Zenon
  <2> HIDE DEF next, e, r
  <2>4. r = PayloadCapacity * (d + 1 - e) BY <2>2, <2>3, <2>1
  <2>5. r = 0
    <3>1. CASE d + 1 - e >= 1
      <4>1. PayloadCapacity * (d + 1 - e) >= PayloadCapacity BY <3>1, <2>1, <2>3
      <4>. QED BY <4>1, <2>4, <2>3
    <3>2. CASE d + 1 - e <= -1
      <4>1. PayloadCapacity * (d + 1 - e) <= -PayloadCapacity BY <3>2, <2>1, <2>3
      <4>. QED BY <4>1, <2>4, <2>3
    <3>3. CASE d + 1 - e = 0
      BY <3>3, <2>4
    <3>. QED BY <3>1, <3>2, <3>3, <2>1, <2>3
  <2>6. PayloadOffset = next BY <1>6, <1>7
  <2>. QED BY <2>5, <2>6, <2>2, <1>4 DEF r
<1>8. CASE ~(physical + request.size > PayloadCapacity)
  BY <1>8, <1>6, <1>4, <1>5
<1>. QED BY <1>7, <1>8

\* The type of the arena.
ArenaType == [0..PayloadCapacity - 1 -> Nat]

LEMMA TypeInit == Init => TypeOK
BY DEF Init, TypeOK, Word, Slot

LEMMA AwaitType ==
  ASSUME TypeOK, NEW w \in Word, AwaitStep(w)
  PROVE  TypeOK'
<1>1. UNCHANGED <<shared, queue, payload, emu, request, gpu, command, published, handled>>
  BY DEF AwaitStep, Load, Arm, Check, Wait, Disarm
<1>2. shared \in [Word -> Nat] /\ waiting \in [Word -> BOOLEAN] /\ cache \in [Word -> Nat]
      /\ await \in [Word -> AwaitStates]
  BY DEF TypeOK, AwaitStates
<1>3. waiting' \in [Word -> BOOLEAN] /\ cache' \in [Word -> Nat] /\ await' \in [Word -> AwaitStates]
  <2>1. CASE Load(w)   BY <2>1, <1>2 DEF Load, AwaitStates
  <2>2. CASE Arm(w)    BY <2>2, <1>2 DEF Arm, AwaitStates
  <2>3. CASE Check(w)  BY <2>3, <1>2 DEF Check, AwaitStates
  <2>4. CASE Wait(w)   BY <2>4, <1>2 DEF Wait, AwaitStates
  <2>5. CASE Disarm(w) BY <2>5, <1>2 DEF Disarm, AwaitStates
  <2>. QED BY <2>1, <2>2, <2>3, <2>4, <2>5 DEF AwaitStep
<1>. QED BY <1>1, <1>3 DEF TypeOK, AwaitStates, payload

\* The ring with the slot that Claim fills in.
Claimed == [queue EXCEPT ![write_index % QueueCapacity] =
              [fence |-> write_index + 1, stop |-> request.stop, size |-> request.size,
               offset |-> queue[write_index % QueueCapacity].offset]]

LEMMA ClaimedSlot == TypeOK /\ Claim => queue' = Claimed
<1> SUFFICES ASSUME TypeOK, Claim PROVE queue' = Claimed OBVIOUS
<1> DEFINE k == write_index % QueueCapacity
           a == [queue EXCEPT ![k].fence = fence_enqueued + 1]
           b == [a EXCEPT ![k].stop = request.stop]
           c == [b EXCEPT ![k].size = request.size]
<1>0. queue \in [0..QueueCapacity - 1 -> SlotType] /\ write_index \in Nat
  BY DEF TypeOK, SlotType, write_index, Word
<1>1. k \in 0..QueueCapacity - 1 BY <1>0, ModRange
<1>2. queue' = c BY DEF Claim
<1>3. fence_enqueued = write_index BY DEF fence_enqueued
<1> HIDE DEF k
<1>4. c = [queue EXCEPT ![k] = [fence |-> write_index + 1, stop |-> request.stop,
                                size |-> request.size, offset |-> queue[k].offset]]
  <2> DEFINE s == queue[k]
             sa == [s EXCEPT !.fence = write_index + 1]
             sb == [sa EXCEPT !.stop = request.stop]
             sc == [sb EXCEPT !.size = request.size]
  <2>1. s \in SlotType BY <1>0, <1>1
  <2>2. sc = [fence |-> write_index + 1, stop |-> request.stop, size |-> request.size,
              offset |-> s.offset]
    <3>1. s = [fence |-> s.fence, stop |-> s.stop, size |-> s.size, offset |-> s.offset]
      BY <2>1 DEF SlotType
    <3> HIDE DEF s
    <3>2. sa = [fence |-> write_index + 1, stop |-> s.stop, size |-> s.size, offset |-> s.offset]
      BY <3>1
    <3> HIDE DEF sa
    <3>3. sb = [fence |-> write_index + 1, stop |-> request.stop, size |-> s.size, offset |-> s.offset]
      BY <3>2
    <3> HIDE DEF sb
    <3>. QED BY <3>3
  <2>3. a = [queue EXCEPT ![k] = sa] BY <1>3
  <2> HIDE DEF sa, sb, sc, a
  <2>4. b = [queue EXCEPT ![k] = sb] BY <2>3, <1>0, <1>1 DEF sb
  <2> HIDE DEF b
  <2>5. c = [queue EXCEPT ![k] = sc] BY <2>4, <1>0, <1>1 DEF sc
  <2>. QED BY <2>2, <2>5
<1>. QED BY <1>2, <1>4 DEF Claimed, k

LEMMA EmuType ==
  ASSUME TypeOK,
         \/ \E n \in PayloadSizes : QueueAsync(n)
         \/ Claim \/ LoadPayloadTail \/ WritePayload \/ Publish \/ SignalConsumer
         \/ \E f \in 1..fence_enqueued : WaitForFence(f)
         \/ FenceReached \/ Destroy \/ QueueStop \/ Join
  PROVE  TypeOK'
<1> DEFINE here == write_index % QueueCapacity
<1>a. /\ shared \in [Word -> Nat] /\ await \in [Word -> AwaitStates]
      /\ queue \in [0..QueueCapacity - 1 -> SlotType]
      /\ request \in [stop : BOOLEAN, size : 0..PayloadCapacity, target : Nat]
      /\ payload_arena \in ArenaType
      /\ payload_head \in Nat
  BY DEF TypeOK, AwaitStates, SlotType, ArenaType
<1>0. write_index \in Nat /\ here \in 0..QueueCapacity - 1
  BY <1>a, ModRange DEF write_index, Word
<1>b. fence_enqueued = write_index BY DEF fence_enqueued
<1>c. request.stop \in BOOLEAN /\ request.size \in 0..PayloadCapacity /\ request.target \in Nat
  BY <1>a
<1>1. ASSUME NEW n \in PayloadSizes, QueueAsync(n) PROVE TypeOK'
  <2>1. request' \in [stop : BOOLEAN, size : 0..PayloadCapacity, target : Nat]
    BY <1>1, <1>a DEF QueueAsync
  <2>2. await' \in [Word -> AwaitStates]
    BY <1>1, <1>a DEF QueueAsync, BeginQueue, AwaitStates
  <2>. QED BY <1>1, <2>1, <2>2 DEF QueueAsync, BeginQueue, payload, TypeOK, AwaitStates
<1>2. CASE Claim
  <2>1. queue' = Claimed
    BY <1>2, ClaimedSlot DEF Claim
  <2>2. queue' \in [0..QueueCapacity - 1 -> SlotType]
    BY <2>1, <1>0, <1>a, <1>b, <1>c, SMTT(30) DEF Claimed, SlotType
  <2>. QED BY <1>2, <2>2 DEF Claim, sync, payload, TypeOK, SlotType
<1>3. CASE LoadPayloadTail
  BY <1>3 DEF LoadPayloadTail, sync, TypeOK
<1>4. CASE WritePayload
  <2>1. PayloadOffset \in Nat BY <1>a, <1>c, PayloadOffsetOK
  <2>2. payload_head' \in Nat BY <2>1, <1>4, <1>c DEF WritePayload
  <2>3. payload_arena' \in ArenaType
    <3>1. PICK first : payload_arena' = [i \in DOMAIN payload_arena |->
             IF i \in first..first + request.size - 1 THEN write_index + 1 ELSE payload_arena[i]]
      BY <1>4, <1>b DEF WritePayload
    <3>. QED BY <3>1, <1>0, <1>a DEF ArenaType
  <2>4. queue' \in [0..QueueCapacity - 1 -> SlotType]
    <3> DEFINE s == [queue[here] EXCEPT !.offset = PayloadOffset]
    <3>1. queue' = [queue EXCEPT ![here] = s] BY <1>4 DEF WritePayload
    <3>2. s \in SlotType BY <1>0, <1>a, <2>1 DEF SlotType
    <3>. QED BY <3>1, <3>2, <1>a
  <2>. QED BY <1>4, <2>2, <2>3, <2>4 DEF WritePayload, sync, SlotType, ArenaType, TypeOK
<1>5. CASE Publish
  <2>1. shared' \in [Word -> Nat] BY <1>5, <1>a DEF Publish, Word
  <2>. QED BY <1>5, <2>1 DEF Publish, payload, TypeOK
<1>6. CASE SignalConsumer
  <2>1. await' \in [Word -> AwaitStates]
    BY <1>6, <1>a DEF SignalConsumer, Signal, AwaitStates, Word
  <2>. QED BY <1>6, <2>1 DEF SignalConsumer, Signal, payload, TypeOK, AwaitStates
<1>7. ASSUME NEW f \in 1..fence_enqueued, WaitForFence(f) PROVE TypeOK'
  <2>1. f \in Nat BY <1>0, <1>b
  <2>2. request' \in [stop : BOOLEAN, size : 0..PayloadCapacity, target : Nat]
    BY <2>1, <1>7, <1>a DEF WaitForFence
  <2>3. await' \in [Word -> AwaitStates]
    BY <1>7, <1>a DEF WaitForFence, AwaitStates
  <2>. QED BY <1>7, <2>2, <2>3 DEF WaitForFence, payload, TypeOK, AwaitStates
<1>8. CASE FenceReached
  BY <1>8 DEF FenceReached, sync, payload, TypeOK
<1>9. CASE Destroy
  <2>2. request' \in [stop : BOOLEAN, size : 0..PayloadCapacity, target : Nat]
    BY <1>9, <1>0, <1>b DEF Destroy
  <2>3. await' \in [Word -> AwaitStates]
    BY <1>9, <1>a DEF Destroy, AwaitStates
  <2>. QED BY <1>9, <2>2, <2>3 DEF Destroy, payload, TypeOK, AwaitStates
<1>10. CASE QueueStop
  <2>1. await' \in [Word -> AwaitStates]
    BY <1>10, <1>a DEF QueueStop, BeginQueue, AwaitStates
  <2>. QED BY <1>10, <2>1 DEF QueueStop, BeginQueue, payload, TypeOK, AwaitStates
<1>11. CASE Join
  BY <1>11 DEF Join, sync, payload, TypeOK
<1>. QED BY <1>1, <1>2, <1>3, <1>4, <1>5, <1>6, <1>7, <1>8, <1>9, <1>10, <1>11

LEMMA GPUType ==
  ASSUME TypeOK,
         \/ NextCommand \/ ReadSlot \/ HandlerReturns \/ RetireSlot
         \/ SignalProducer \/ FreePayload \/ CompleteFence \/ SignalFenceWaiter
  PROVE  TypeOK'
<1> USE DEF TypeOK, Word
<1>0. read_index \in Nat /\ read_index % QueueCapacity \in 0..QueueCapacity - 1
  BY ModRange DEF read_index
<1>1. CASE NextCommand
  BY <1>1 DEF NextCommand, payload
<1>2. CASE ReadSlot
  BY <1>0, <1>2 DEF ReadSlot, sync, payload
<1>3. CASE HandlerReturns
  BY <1>3 DEF HandlerReturns, sync, payload
<1>4. CASE RetireSlot
  <2>0. shared \in [Word -> Nat] /\ "read_index" \in Word OBVIOUS
  <2> HIDE DEF TypeOK, Word
  <2>1. shared' \in [Word -> Nat] BY <1>4, <2>0 DEF RetireSlot
  <2> USE DEF TypeOK, Word
  <2>. QED BY <1>4, <2>1 DEF RetireSlot, payload
<1>5. CASE SignalProducer
  BY <1>5 DEF SignalProducer, Signal, payload
<1>6. CASE FreePayload
  <2>1. command.offset \in Nat /\ command.size \in Nat OBVIOUS
  <2>0. payload_tail \in Nat OBVIOUS
  <2> HIDE DEF TypeOK, Word
  <2>2. payload_tail' \in Nat BY <1>6, <2>0, <2>1 DEF FreePayload
  <2> USE DEF TypeOK, Word
  <2>. QED BY <1>6, <2>2 DEF FreePayload, sync
<1>7. CASE CompleteFence
  BY <1>7 DEF CompleteFence, payload
<1>8. CASE SignalFenceWaiter
  BY <1>8 DEF SignalFenceWaiter, Signal, payload
<1>. QED BY <1>1, <1>2, <1>3, <1>4, <1>5, <1>6, <1>7, <1>8

\* The state of both threads keeps its types: the indices, the fences and the positions
\* in the arena never become negative, and the slots stay well formed.
THEOREM TypeCorrect == Spec => []TypeOK
<1>1. Init => TypeOK BY TypeInit
<1>2. TypeOK /\ [Next]_vars => TypeOK'
  <2> SUFFICES ASSUME TypeOK, [Next]_vars PROVE TypeOK' OBVIOUS
  <2>1. CASE UNCHANGED vars
    BY <2>1 DEF TypeOK, vars
  <2>2. CASE Next
    BY <2>2, AwaitType, EmuType, GPUType DEF Next, EmuStep, GPUStep, Call, Word
  <2>. QED BY <2>1, <2>2
<1>. QED BY <1>1, <1>2, PTL DEF Spec

--------------------------------------------------------------------------------
(* Notifications. *)

\* From the moment it is about to look again until it clears it, a waiter's flag is set.
FlagsOK == \A w \in Word : await[w] \in {"check", "wait", "asleep", "disarm"} => waiting[w]

\* The words and the flags, as far as the types go.
SyncOK == /\ shared \in [Word -> Nat] /\ waiting \in [Word -> BOOLEAN]
          /\ cache \in [Word -> Nat] /\ await \in [Word -> AwaitStates]

LEMMA AwaitNotify ==
  ASSUME SyncOK, FlagsOK, NoLostNotification, NEW w \in Word, AwaitStep(w)
  PROVE  (FlagsOK /\ NoLostNotification)'
<1>0. UNCHANGED <<shared, emu, gpu>>
  BY DEF AwaitStep, Load, Arm, Check, Wait, Disarm
<1>1. \A x \in Word \ {w} : /\ await'[x] = await[x] /\ waiting'[x] = waiting[x]
                            /\ cache'[x] = cache[x]
  BY DEF AwaitStep, Load, Arm, Check, Wait, Disarm, SyncOK
<1>2. /\ await'[w] \in {"check", "wait", "asleep", "disarm"} => waiting'[w]
      /\ await'[w] = "asleep" => shared'[w] = cache'[w]
  <2>1. CASE Load(w)   BY <2>1, <1>0 DEF Load, SyncOK, FlagsOK
  <2>2. CASE Arm(w)    BY <2>2, <1>0 DEF Arm, SyncOK, FlagsOK
  <2>3. CASE Check(w)  BY <2>3, <1>0 DEF Check, SyncOK, FlagsOK
  <2>4. CASE Wait(w)   BY <2>4, <1>0 DEF Wait, SyncOK, FlagsOK
  <2>5. CASE Disarm(w) BY <2>5, <1>0 DEF Disarm, SyncOK, FlagsOK
  <2>. QED BY <2>1, <2>2, <2>3, <2>4, <2>5 DEF AwaitStep
<1>3. FlagsOK' BY <1>1, <1>2 DEF FlagsOK
<1>4. NoLostNotification' BY <1>0, <1>1, <1>2 DEF NoLostNotification
<1>. QED BY <1>3, <1>4

\* A step that stores into word w and is then on its way to notify, and the
\* notification itself.
LEMMA StoreNotify ==
  ASSUME SyncOK, FlagsOK, NoLostNotification, NEW w \in Word,
         UNCHANGED <<waiting, cache, await>>,
         \A x \in Word \ {w} : shared'[x] = shared[x],
         \/ w = "write_index" /\ emu # "published" /\ emu' = "published" /\ gpu' = gpu
         \/ w = "read_index" /\ gpu = "retire" /\ gpu' = "retired" /\ emu' = emu
         \/ w = "fence" /\ gpu = "complete" /\ gpu' = "completed" /\ emu' = emu
  PROVE  (FlagsOK /\ NoLostNotification)'
BY DEF FlagsOK, NoLostNotification, Word

LEMMA SignalNotify ==
  ASSUME SyncOK, FlagsOK, NoLostNotification, NEW w \in Word, Signal(w),
         \/ w = "write_index" /\ gpu' = gpu
         \/ w = "read_index" /\ gpu = "retired" /\ emu' = emu
         \/ w = "fence" /\ gpu = "completed" /\ emu' = emu
  PROVE  (FlagsOK /\ NoLostNotification)'
<1>0. UNCHANGED <<shared, waiting, cache>> BY DEF Signal
<1>1. \A x \in Word \ {w} : await'[x] = await[x] BY DEF Signal, SyncOK
<1>2. await'[w] # "asleep" /\ (await'[w] = await[w] \/ (await'[w] = "wait" /\ await[w] = "asleep"))
  BY DEF Signal, SyncOK, FlagsOK
<1>3. FlagsOK' BY <1>0, <1>1, <1>2 DEF FlagsOK
<1>4. NoLostNotification' BY <1>0, <1>1, <1>2 DEF NoLostNotification, Word
<1>. QED BY <1>3, <1>4

\* A step that leaves the words alone and at most starts or ends a wait.
LEMMA OtherNotify ==
  ASSUME SyncOK, FlagsOK, NoLostNotification,
         UNCHANGED <<shared, waiting, cache>>,
         \A x \in Word : await'[x] = await[x] \/ await'[x] \in {"off", "spin"},
         emu = "published" => emu' = "published",
         gpu \in {"retired", "completed"} => gpu' = gpu
  PROVE  (FlagsOK /\ NoLostNotification)'
BY DEF FlagsOK, NoLostNotification, Word

LEMMA NextNotify ==
  ASSUME TypeOK, FlagsOK, NoLostNotification, [Next]_vars
  PROVE  (FlagsOK /\ NoLostNotification)'
<1>0. SyncOK BY DEF TypeOK, SyncOK, AwaitStates
<1>1. ASSUME NEW w \in Word, AwaitStep(w) PROVE (FlagsOK /\ NoLostNotification)'
  BY <1>0, <1>1, AwaitNotify
<1>2. ASSUME NEW n \in PayloadSizes, QueueAsync(n) PROVE (FlagsOK /\ NoLostNotification)'
  <2>1. \A x \in Word : await'[x] = await[x] \/ await'[x] \in {"off", "spin"}
    BY <1>0, <1>2 DEF QueueAsync, BeginQueue, SyncOK
  <2>. QED BY <1>0, <1>2, <2>1, OtherNotify DEF QueueAsync, BeginQueue
<1>3. CASE Claim
  BY <1>0, <1>3, OtherNotify DEF Claim, sync
<1>4. CASE LoadPayloadTail
  BY <1>0, <1>4, OtherNotify DEF LoadPayloadTail, sync
<1>5. CASE WritePayload
  BY <1>0, <1>5, OtherNotify DEF WritePayload, sync
<1>6. CASE Publish
  <2>1. \A x \in Word \ {"write_index"} : shared'[x] = shared[x]
    BY <1>0, <1>6 DEF Publish, SyncOK
  <2>. QED BY <1>0, <1>6, <2>1, StoreNotify DEF Publish, Word
<1>7. CASE SignalConsumer
  BY <1>0, <1>7, SignalNotify DEF SignalConsumer, Word
<1>8. ASSUME NEW f, WaitForFence(f) PROVE (FlagsOK /\ NoLostNotification)'
  <2>1. \A x \in Word : await'[x] = await[x] \/ await'[x] \in {"off", "spin"}
    BY <1>0, <1>8 DEF WaitForFence, SyncOK
  <2>. QED BY <1>0, <1>8, <2>1, OtherNotify DEF WaitForFence
<1>9. CASE FenceReached
  BY <1>0, <1>9, OtherNotify DEF FenceReached, sync
<1>10. CASE Destroy
  <2>1. \A x \in Word : await'[x] = await[x] \/ await'[x] \in {"off", "spin"}
    BY <1>0, <1>10 DEF Destroy, SyncOK
  <2>. QED BY <1>0, <1>10, <2>1, OtherNotify DEF Destroy
<1>11. CASE QueueStop
  <2>1. \A x \in Word : await'[x] = await[x] \/ await'[x] \in {"off", "spin"}
    BY <1>0, <1>11 DEF QueueStop, BeginQueue, SyncOK
  <2>. QED BY <1>0, <1>11, <2>1, OtherNotify DEF QueueStop, BeginQueue
<1>12. CASE Join
  BY <1>0, <1>12, OtherNotify DEF Join, sync
<1>13. CASE NextCommand
  <2>1. \A x \in Word : await'[x] = await[x] \/ await'[x] \in {"off", "spin"}
    BY <1>0, <1>13 DEF NextCommand, SyncOK
  <2>. QED BY <1>0, <1>13, <2>1, OtherNotify DEF NextCommand
<1>14. CASE ReadSlot
  BY <1>0, <1>14, OtherNotify DEF ReadSlot, sync
<1>15. CASE HandlerReturns
  BY <1>0, <1>15, OtherNotify DEF HandlerReturns, sync
<1>16. CASE RetireSlot
  <2>1. \A x \in Word \ {"read_index"} : shared'[x] = shared[x]
    BY <1>0, <1>16 DEF RetireSlot, SyncOK
  <2>. QED BY <1>0, <1>16, <2>1, StoreNotify DEF RetireSlot, Word
<1>17. CASE SignalProducer
  BY <1>0, <1>17, SignalNotify DEF SignalProducer, Word
<1>18. CASE FreePayload
  BY <1>0, <1>18, OtherNotify DEF FreePayload, sync
<1>19. CASE CompleteFence
  <2>1. \A x \in Word \ {"fence"} : shared'[x] = shared[x]
    BY <1>0, <1>19 DEF CompleteFence, SyncOK
  <2>. QED BY <1>0, <1>19, <2>1, StoreNotify DEF CompleteFence, Word
<1>20. CASE SignalFenceWaiter
  BY <1>0, <1>20, SignalNotify DEF SignalFenceWaiter, Word
<1>21. CASE UNCHANGED vars
  BY <1>0, <1>21, OtherNotify DEF vars
<1>. QED
  BY <1>1, <1>2, <1>3, <1>4, <1>5, <1>6, <1>7, <1>8, <1>9, <1>10, <1>11, <1>12, <1>13,
     <1>14, <1>15, <1>16, <1>17, <1>18, <1>19, <1>20, <1>21
     DEF Next, EmuStep, GPUStep, Call, Word

\* No wakeup is lost, for every size of the ring and of the arena: whoever sleeps on a
\* word that has changed is about to be notified.
THEOREM NotificationsArrive == Spec => []NoLostNotification
<1>1. Init => FlagsOK /\ NoLostNotification
  BY DEF Init, FlagsOK, NoLostNotification, Word
<1>2. TypeOK /\ (FlagsOK /\ NoLostNotification) /\ [Next]_vars => (FlagsOK /\ NoLostNotification)'
  BY NextNotify
<1>. QED BY <1>1, <1>2, TypeCorrect, PTL DEF Spec

--------------------------------------------------------------------------------
(* The ring. *)

\* Each side's copy of the other's index is behind it, and neither side goes further
\* than its copy allows.
IndexOK ==
  /\ cache["read_index"] <= read_index /\ read_index <= write_index
  /\ write_index <= cache["read_index"] + QueueCapacity
  /\ read_index <= cache["write_index"] /\ cache["write_index"] <= write_index
  /\ (\/ emu = "claim" /\ await["read_index"] = "off"
      \/ emu \in {"payload", "publish"})
     => write_index < cache["read_index"] + QueueCapacity
  /\ (\/ gpu = "read" /\ await["write_index"] = "off"
      \/ gpu \in {"handle", "retire"})
     => read_index < cache["write_index"]

LEMMA AwaitIndex ==
  ASSUME SyncOK, IndexOK, NEW w \in Word, AwaitStep(w)
  PROVE  IndexOK'
<1>0. UNCHANGED <<shared, emu, gpu>>
  BY DEF AwaitStep, Load, Arm, Check, Wait, Disarm
<1>1. \A x \in Word \ {w} : await'[x] = await[x] /\ cache'[x] = cache[x]
  BY DEF AwaitStep, Load, Arm, Check, Wait, Disarm, SyncOK
<1>2. /\ cache'[w] \in {cache[w], shared[w]}
      /\ await'[w] = "off" => Arrived(w, cache'[w]) /\ await[w] # "off"
  <2>1. CASE Load(w)   BY <2>1 DEF Load, SyncOK
  <2>2. CASE Arm(w)    BY <2>2 DEF Arm, SyncOK
  <2>3. CASE Check(w)  BY <2>3 DEF Check, SyncOK
  <2>4. CASE Wait(w)   BY <2>4 DEF Wait, SyncOK
  <2>5. CASE Disarm(w) BY <2>5 DEF Disarm, SyncOK
  <2>. QED BY <2>1, <2>2, <2>3, <2>4, <2>5 DEF AwaitStep
<1>a. /\ shared["read_index"] \in Nat /\ shared["write_index"] \in Nat
      /\ cache["read_index"] \in Nat /\ cache["write_index"] \in Nat
  BY DEF SyncOK, Word
<1>3. CASE w = "read_index"
  BY <1>0, <1>1, <1>2, <1>3, <1>a DEF IndexOK, Arrived, read_index, write_index, Word
<1>4. CASE w = "write_index"
  BY <1>0, <1>1, <1>2, <1>4, <1>a DEF IndexOK, Arrived, read_index, write_index, Word
<1>5. CASE w = "fence"
  BY <1>0, <1>1, <1>5 DEF IndexOK, read_index, write_index, Word
<1>. QED BY <1>3, <1>4, <1>5 DEF Word

\* A step that leaves the indices and their copies alone.
LEMMA OtherIndex ==
  ASSUME IndexOK, UNCHANGED <<shared, cache>>,
         emu' \in {"payload", "publish"} => (emu = "claim" /\ await["read_index"] = "off") \/ emu = "payload",
         emu' # "claim" \/ UNCHANGED <<emu, await>>,
         gpu' = gpu, gpu = "read" => await'["write_index"] = await["write_index"]
  PROVE  IndexOK'
BY DEF IndexOK, read_index, write_index

LEMMA NextIndex == TypeOK /\ IndexOK /\ [Next]_vars => IndexOK'
<1> SUFFICES ASSUME TypeOK, IndexOK, [Next]_vars PROVE IndexOK' OBVIOUS
<1>0. SyncOK BY DEF TypeOK, SyncOK, AwaitStates
<1>a. /\ shared["read_index"] \in Nat /\ shared["write_index"] \in Nat
      /\ cache["read_index"] \in Nat /\ cache["write_index"] \in Nat
  BY <1>0 DEF SyncOK, Word
<1>1. ASSUME NEW w \in Word, AwaitStep(w) PROVE IndexOK'
  BY <1>0, <1>1, AwaitIndex
<1>b. ASSUME BeginQueue, gpu' = gpu PROVE IndexOK'
  <2>1. /\ await'["read_index"] = "off" => write_index - cache["read_index"] # QueueCapacity
        /\ await'["write_index"] = await["write_index"]
    BY <1>0, <1>b DEF BeginQueue, SyncOK, Word
  <2>. QED BY <1>a, <1>b, <2>1 DEF BeginQueue, IndexOK, read_index, write_index
<1>2. ASSUME NEW n \in PayloadSizes, QueueAsync(n) PROVE IndexOK'
  BY <1>2, <1>b DEF QueueAsync
<1>3. CASE Claim
  BY <1>3, OtherIndex DEF Claim, sync
<1>4. CASE LoadPayloadTail
  BY <1>4, OtherIndex DEF LoadPayloadTail, sync
<1>5. CASE WritePayload
  BY <1>5, OtherIndex DEF WritePayload, sync
<1>6. CASE Publish
  <2>1. write_index' = write_index + 1 /\ read_index' = read_index
    BY <1>0, <1>6 DEF Publish, SyncOK, write_index, read_index, Word
  <2>. QED BY <1>a, <1>6, <2>1 DEF Publish, IndexOK, read_index, write_index
<1>7. CASE SignalConsumer
  <2>1. gpu = "read" /\ await'["write_index"] = "off" => await["write_index"] = "off"
    BY <1>0, <1>7 DEF SignalConsumer, Signal, SyncOK, Word
  <2>. QED BY <1>7, <2>1 DEF SignalConsumer, Signal, IndexOK, read_index, write_index
<1>8. ASSUME NEW f, WaitForFence(f) PROVE IndexOK'
  <2>1. await'["write_index"] = await["write_index"] BY <1>0, <1>8 DEF WaitForFence, SyncOK, Word
  <2>. QED BY <1>8, <2>1, OtherIndex DEF WaitForFence
<1>9. CASE FenceReached
  BY <1>9, OtherIndex DEF FenceReached, sync
<1>10. CASE Destroy
  <2>1. await'["write_index"] = await["write_index"] BY <1>0, <1>10 DEF Destroy, SyncOK, Word
  <2>. QED BY <1>10, <2>1, OtherIndex DEF Destroy
<1>11. CASE QueueStop
  BY <1>11, <1>b DEF QueueStop
<1>12. CASE Join
  BY <1>12, OtherIndex DEF Join, sync
<1>13. CASE NextCommand
  <2>1. /\ await'["write_index"] = "off" => read_index # cache["write_index"]
        /\ await'["read_index"] = await["read_index"]
    BY <1>0, <1>13 DEF NextCommand, SyncOK, Word
  <2>. QED BY <1>a, <1>13, <2>1 DEF NextCommand, IndexOK, read_index, write_index
<1>14. CASE ReadSlot
  BY <1>14 DEF ReadSlot, sync, IndexOK, read_index, write_index
<1>15. CASE HandlerReturns
  BY <1>15 DEF HandlerReturns, sync, IndexOK, read_index, write_index
<1>16. CASE RetireSlot
  <2>1. write_index' = write_index /\ read_index' = read_index + 1
    BY <1>0, <1>16 DEF RetireSlot, SyncOK, write_index, read_index, Word
  <2>. QED BY <1>a, <1>16, <2>1 DEF RetireSlot, IndexOK, read_index, write_index
<1>17. CASE SignalProducer
  <2>1. emu = "claim" /\ await'["read_index"] = "off" => await["read_index"] = "off"
    BY <1>0, <1>17 DEF SignalProducer, Signal, SyncOK, Word
  <2>. QED BY <1>17, <2>1 DEF SignalProducer, Signal, IndexOK, read_index, write_index
<1>18. CASE FreePayload
  BY <1>18 DEF FreePayload, sync, IndexOK, read_index, write_index
<1>19. CASE CompleteFence
  <2>1. write_index' = write_index /\ read_index' = read_index
    BY <1>0, <1>19 DEF CompleteFence, SyncOK, write_index, read_index, Word
  <2>. QED BY <1>19, <2>1 DEF CompleteFence, IndexOK
<1>20. CASE SignalFenceWaiter
  <2>1. await'["read_index"] = await["read_index"] /\ await'["write_index"] = await["write_index"]
    BY <1>0, <1>20 DEF SignalFenceWaiter, Signal, SyncOK, Word
  <2>. QED BY <1>20, <2>1 DEF SignalFenceWaiter, Signal, IndexOK, read_index, write_index
<1>21. CASE UNCHANGED vars
  BY <1>21 DEF vars, IndexOK, read_index, write_index
<1>. QED
  BY <1>1, <1>2, <1>3, <1>4, <1>5, <1>6, <1>7, <1>8, <1>9, <1>10, <1>11, <1>12, <1>13,
     <1>14, <1>15, <1>16, <1>17, <1>18, <1>19, <1>20, <1>21
     DEF Next, EmuStep, GPUStep, Call, Word

\* The emulation thread's call, as far as it concerns the ring.
RequestOK ==
  /\ emu \in {"run", "fence"} => ~request.stop
  /\ emu \in {"drain", "join", "joined"} => request.stop
  /\ request.stop => request.size = 0
  /\ emu = "payload" => request.size # 0
  /\ emu \in {"claim", "payload", "publish"} /\ ~request.stop =>
       request.size \in PayloadSizes /\ write_index < MaxCommands

LEMMA NextRequest == TypeOK /\ RequestOK /\ [Next]_vars => RequestOK'
<1> SUFFICES ASSUME TypeOK, RequestOK, [Next]_vars PROVE RequestOK' OBVIOUS
<1>0. shared \in [Word -> Nat] /\ request \in [stop : BOOLEAN, size : 0..PayloadCapacity, target : Nat]
  BY DEF TypeOK
<1> USE DEF RequestOK
<1>1. ASSUME NEW w \in Word, AwaitStep(w) PROVE RequestOK'
  BY <1>1 DEF AwaitStep, Load, Arm, Check, Wait, Disarm, write_index
<1>2. ASSUME NEW n \in PayloadSizes, QueueAsync(n) PROVE RequestOK'
  BY <1>0, <1>2 DEF QueueAsync, BeginQueue, write_index
<1>3. CASE Claim
  BY <1>0, <1>3 DEF Claim, sync, write_index
<1>4. CASE LoadPayloadTail
  BY <1>4 DEF LoadPayloadTail, sync, write_index
<1>5. CASE WritePayload
  BY <1>5 DEF WritePayload, sync, write_index
<1>6. CASE Publish
  BY <1>6 DEF Publish
<1>7. CASE SignalConsumer
  BY <1>0, <1>7 DEF SignalConsumer, Signal
<1>8. ASSUME NEW f, WaitForFence(f) PROVE RequestOK'
  BY <1>0, <1>8 DEF WaitForFence
<1>9. CASE FenceReached
  BY <1>9 DEF FenceReached
<1>10. CASE Destroy
  BY <1>10 DEF Destroy
<1>11. CASE QueueStop
  BY <1>11 DEF QueueStop, BeginQueue
<1>12. CASE Join
  BY <1>12 DEF Join
<1>13. CASE NextCommand
  BY <1>13 DEF NextCommand, write_index
<1>14. CASE ReadSlot \/ HandlerReturns \/ FreePayload
  BY <1>14 DEF ReadSlot, HandlerReturns, FreePayload, sync, write_index
<1>15. CASE RetireSlot \/ CompleteFence
  BY <1>0, <1>15 DEF RetireSlot, CompleteFence, write_index, Word
<1>16. CASE SignalProducer \/ SignalFenceWaiter
  BY <1>16 DEF SignalProducer, SignalFenceWaiter, Signal, write_index
<1>17. CASE UNCHANGED vars
  BY <1>17 DEF vars, write_index
<1>. QED
  BY <1>1, <1>2, <1>3, <1>4, <1>5, <1>6, <1>7, <1>8, <1>9, <1>10, <1>11, <1>12, <1>13,
     <1>14, <1>15, <1>16, <1>17 DEF Next, EmuStep, GPUStep, Call, Word

SlotOf(i)  == queue[i % QueueCapacity]
Pending    == read_index..write_index - 1
StopQueued == request.stop /\ emu \in {"published", "join", "joined"}

Commands == [fence : 1..MaxCommands,
             bytes : UNION {[1..n -> 1..MaxCommands] : n \in PayloadSizes}]
CommandOf(i, size) == [fence |-> i + 1, bytes |-> [k \in 1..size |-> i + 1]]

\* The slots from the read index to the write index hold the published commands and
\* the stop, the one at the write index the command that is being queued.
PublishedOK ==
  /\ published \in Seq(Commands)
  /\ Len(published) = IF StopQueued THEN write_index - 1 ELSE write_index
SlotsOK ==
  /\ \A i \in Pending :
       /\ SlotOf(i).fence = i + 1
       /\ SlotOf(i).stop <=> i = Len(published)
       /\ i # Len(published) => published[i + 1] = CommandOf(i, SlotOf(i).size)
  /\ emu \in {"payload", "publish"} =>
       /\ SlotOf(write_index).fence = write_index + 1
       /\ SlotOf(write_index).stop = request.stop
       /\ SlotOf(write_index).size = request.size

\* The slot that is filled in is none of those that are pending.
LEMMA FreeSlot ==
  ASSUME TypeOK, IndexOK,
         (emu = "claim" /\ await["read_index"] = "off") \/ emu \in {"payload", "publish"}
  PROVE  \A i \in Pending : /\ i \in Nat /\ i % QueueCapacity # write_index % QueueCapacity
                            /\ i % QueueCapacity \in 0..QueueCapacity - 1
<1>0. shared["read_index"] \in Nat /\ shared["write_index"] \in Nat /\ cache["read_index"] \in Nat
  BY DEF TypeOK, Word
<1>1. write_index < read_index + QueueCapacity /\ read_index \in Nat /\ write_index \in Nat
  BY <1>0 DEF IndexOK, read_index, write_index
<1> SUFFICES ASSUME NEW i \in Pending
             PROVE  /\ i \in Nat /\ i % QueueCapacity # write_index % QueueCapacity
                    /\ i % QueueCapacity \in 0..QueueCapacity - 1
  OBVIOUS
<1>2. i \in Nat /\ i < write_index /\ write_index < i + QueueCapacity BY <1>1 DEF Pending
<1>3. i % QueueCapacity # write_index % QueueCapacity BY <1>1, <1>2, ModDistinct
<1>. QED BY <1>2, <1>3, ModRange

\* A step that leaves the ring alone.
LEMMA SlotsSame ==
  ASSUME TypeOK, SlotsOK, PublishedOK, UNCHANGED <<queue, published>>,
         write_index' = write_index, read_index' \in {read_index, read_index + 1},
         StopQueued' = StopQueued,
         emu' \in {"payload", "publish"} => UNCHANGED <<emu, request>>
  PROVE  SlotsOK' /\ PublishedOK'
<1>0. read_index \in Nat /\ write_index \in Nat BY DEF TypeOK, read_index, write_index, Word
<1>1. Pending' \subseteq Pending BY <1>0 DEF Pending
<1>2. \A i : SlotOf(i)' = SlotOf(i) BY DEF SlotOf
<1>3. PublishedOK' BY DEF PublishedOK
<1>4. \A i \in Pending' :
        /\ SlotOf(i)'.fence = i + 1
        /\ SlotOf(i)'.stop <=> i = Len(published')
        /\ i # Len(published') => published'[i + 1] = CommandOf(i, SlotOf(i)'.size)
  BY <1>1, <1>2 DEF SlotsOK
<1>5. emu' \in {"payload", "publish"} =>
        /\ SlotOf(write_index)'.fence = write_index' + 1
        /\ SlotOf(write_index)'.stop = request'.stop
        /\ SlotOf(write_index)'.size = request'.size
  BY DEF SlotsOK, SlotOf
<1>. QED BY <1>3, <1>4, <1>5 DEF SlotsOK, CommandOf, SlotOf

LEMMA ClaimSlots ==
  ASSUME TypeOK, IndexOK, SlotsOK, PublishedOK, Claim
  PROVE  SlotsOK' /\ PublishedOK'
<1> DEFINE k == write_index % QueueCapacity
           new == [fence |-> write_index + 1, stop |-> request.stop, size |-> request.size,
                   offset |-> queue[k].offset]
<1>0. /\ queue \in [0..QueueCapacity - 1 -> SlotType] /\ write_index \in Nat
      /\ k \in 0..QueueCapacity - 1
  BY ModRange DEF TypeOK, SlotType, write_index, Word
<1>1. queue' = [queue EXCEPT ![k] = new] BY ClaimedSlot DEF Claimed
<1>2. UNCHANGED <<published, request, shared>> /\ emu = "claim" /\ await["read_index"] = "off"
      /\ emu' \in {"publish", "payload"}
  BY DEF Claim, sync
<1>3. UNCHANGED <<write_index, read_index, Pending>>
  BY <1>2 DEF write_index, read_index, Pending
<1>4. \A i \in Pending : i % QueueCapacity # k /\ i % QueueCapacity \in 0..QueueCapacity - 1
  BY <1>2, FreeSlot
<1> HIDE DEF k, new
<1>5. \A i \in Pending : queue'[i % QueueCapacity] = queue[i % QueueCapacity]
  BY <1>0, <1>1, <1>4
<1>6. queue'[k] = new BY <1>0, <1>1
<1>7. StopQueued' = StopQueued BY <1>2 DEF StopQueued
<1>8. PublishedOK' BY <1>2, <1>3, <1>7 DEF PublishedOK
<1>9. SlotOf(write_index)' = new BY <1>3, <1>6 DEF SlotOf, k
<1>10. \A i \in Pending' :
         /\ SlotOf(i)'.fence = i + 1
         /\ SlotOf(i)'.stop <=> i = Len(published')
         /\ i # Len(published') => published'[i + 1] = CommandOf(i, SlotOf(i)'.size)
  BY <1>2, <1>3, <1>5 DEF SlotsOK, SlotOf
<1>11. /\ SlotOf(write_index)'.fence = write_index' + 1
       /\ SlotOf(write_index)'.stop = request'.stop
       /\ SlotOf(write_index)'.size = request'.size
  BY <1>9, <1>2, <1>3 DEF new
<1>. QED BY <1>8, <1>10, <1>11 DEF SlotsOK, CommandOf, SlotOf

\* Of a slot's fields WritePayload changes the offset only.
LEMMA PayloadSlot ==
  ASSUME TypeOK, WritePayload
  PROVE  /\ \A j \in 0..QueueCapacity - 1 :
              /\ queue'[j].fence = queue[j].fence /\ queue'[j].stop = queue[j].stop
              /\ queue'[j].size = queue[j].size
              /\ j # write_index % QueueCapacity => queue'[j] = queue[j]
         /\ queue'[write_index % QueueCapacity].offset = PayloadOffset
<1> DEFINE k == write_index % QueueCapacity
           new == [queue[k] EXCEPT !.offset = PayloadOffset]
<1>0. queue \in [0..QueueCapacity - 1 -> SlotType] /\ k \in 0..QueueCapacity - 1
  BY ModRange DEF TypeOK, SlotType, write_index, Word
<1>1. queue' = [queue EXCEPT ![k] = new] BY DEF WritePayload
<1>2. /\ new.fence = queue[k].fence /\ new.stop = queue[k].stop /\ new.size = queue[k].size
      /\ new.offset = PayloadOffset
  <2>1. queue[k] \in SlotType BY <1>0
  <2>2. queue[k] = [fence |-> queue[k].fence, stop |-> queue[k].stop, size |-> queue[k].size,
                    offset |-> queue[k].offset]
    BY <2>1 DEF SlotType
  <2>. QED BY <2>2
<1> HIDE DEF k, new
<1>3. queue'[k] = new /\ \A j \in 0..QueueCapacity - 1 : j # k => queue'[j] = queue[j]
  BY <1>0, <1>1
<1>4. \A j \in 0..QueueCapacity - 1 :
        /\ queue'[j].fence = queue[j].fence /\ queue'[j].stop = queue[j].stop
        /\ queue'[j].size = queue[j].size
  BY <1>2, <1>3
<1>. QED BY <1>2, <1>3, <1>4 DEF k

LEMMA PayloadSlots ==
  ASSUME TypeOK, IndexOK, SlotsOK, PublishedOK, WritePayload
  PROVE  SlotsOK' /\ PublishedOK'
<1>0. write_index \in Nat /\ write_index % QueueCapacity \in 0..QueueCapacity - 1
  BY ModRange DEF TypeOK, write_index, Word
<1>1. UNCHANGED <<published, request, shared>> /\ emu = "payload" /\ emu' = "publish"
  BY DEF WritePayload, sync
<1>2. UNCHANGED <<write_index, read_index, Pending>>
  BY <1>1 DEF write_index, read_index, Pending
<1>3. \A i \in Pending : i % QueueCapacity \in 0..QueueCapacity - 1
  BY <1>1, FreeSlot
<1>4. \A i \in Pending \cup {write_index} :
        SlotOf(i)'.fence = SlotOf(i).fence /\ SlotOf(i)'.stop = SlotOf(i).stop
        /\ SlotOf(i)'.size = SlotOf(i).size
  BY <1>0, <1>3, PayloadSlot DEF SlotOf
<1>5. StopQueued' = StopQueued BY <1>1 DEF StopQueued
<1>6. PublishedOK' BY <1>1, <1>2, <1>5 DEF PublishedOK
<1>7. \A i \in Pending' :
         /\ SlotOf(i)'.fence = i + 1
         /\ SlotOf(i)'.stop <=> i = Len(published')
         /\ i # Len(published') => published'[i + 1] = CommandOf(i, SlotOf(i)'.size)
  BY <1>1, <1>2, <1>4 DEF SlotsOK
<1>8. SlotOf(write_index)' = queue'[write_index % QueueCapacity] BY <1>2 DEF SlotOf
<1>9. /\ SlotOf(write_index)'.fence = write_index' + 1
      /\ SlotOf(write_index)'.stop = request'.stop
      /\ SlotOf(write_index)'.size = request'.size
  BY <1>0, <1>1, <1>2, <1>8, PayloadSlot DEF SlotsOK, SlotOf
<1>. QED BY <1>6, <1>7, <1>9 DEF SlotsOK, CommandOf, SlotOf

LEMMA PublishSlots ==
  ASSUME TypeOK, IndexOK, RequestOK, SlotsOK, PublishedOK, Publish
  PROVE  SlotsOK' /\ PublishedOK'
<1>0. write_index \in Nat /\ read_index \in Nat /\ request.stop \in BOOLEAN
      /\ request.size \in 0..PayloadCapacity
  BY DEF TypeOK, write_index, read_index, Word
<1>1. UNCHANGED <<queue, request>> /\ emu = "publish" /\ emu' = "published"
      /\ write_index' = write_index + 1 /\ read_index' = read_index
  BY DEF Publish, TypeOK, write_index, read_index, Word
<1>2. Pending' \subseteq Pending \cup {write_index} BY <1>0, <1>1 DEF Pending
<1>3. \A i : SlotOf(i)' = SlotOf(i) BY <1>1 DEF SlotOf
<1>4. /\ SlotOf(write_index).fence = write_index + 1
      /\ SlotOf(write_index).stop = request.stop
      /\ SlotOf(write_index).size = request.size
  BY <1>1 DEF SlotsOK
<1>5. Len(published) = write_index /\ published \in Seq(Commands)
  BY <1>1 DEF PublishedOK, StopQueued
<1>6. /\ PublishedOK'
      /\ \A i \in Pending' :
           /\ SlotOf(i).fence = i + 1
           /\ SlotOf(i).stop <=> i = Len(published')
           /\ i # Len(published') => published'[i + 1] = CommandOf(i, SlotOf(i).size)
  <2>1. CASE request.stop
    <3>1. published' = published BY <2>1 DEF Publish
    <3>2. StopQueued' BY <2>1, <1>1 DEF StopQueued
    <3>3. PublishedOK' BY <3>1, <3>2, <1>0, <1>1, <1>5 DEF PublishedOK
    <3>. QED BY <2>1, <3>1, <3>3, <1>0, <1>2, <1>4, <1>5 DEF SlotsOK
  <2>2. CASE ~request.stop
    <3> DEFINE new == CommandOf(write_index, request.size)
    <3>1. published' = Append(published, new)
      BY <2>2 DEF Publish, CommandOf, fence_enqueued
    <3>2. request.size \in PayloadSizes /\ write_index < MaxCommands
      BY <2>2, <1>1 DEF RequestOK
    <3>3. new \in Commands
      <4>1. write_index + 1 \in 1..MaxCommands BY <3>2, <1>0
      <4>2. [k \in 1..request.size |-> write_index + 1] \in [1..request.size -> 1..MaxCommands]
        BY <4>1
      <4>. QED BY <4>1, <4>2, <3>2 DEF Commands, CommandOf
    <3> HIDE DEF new
    <3>4. /\ published' \in Seq(Commands) /\ Len(published') = write_index + 1
          /\ published'[write_index + 1] = new
          /\ \A i \in 1..write_index : published'[i] = published[i]
      BY <3>1, <3>3, <1>5, <1>0
    <3>5. ~StopQueued' BY <2>2, <1>1 DEF StopQueued
    <3>6. PublishedOK' BY <3>4, <3>5, <1>0, <1>1 DEF PublishedOK
    <3>7. ASSUME NEW i \in Pending'
          PROVE  /\ SlotOf(i).fence = i + 1
                 /\ SlotOf(i).stop <=> i = Len(published')
                 /\ i # Len(published') => published'[i + 1] = CommandOf(i, SlotOf(i).size)
      <4>1. CASE i = write_index
        BY <4>1, <1>0, <1>4, <3>4, <2>2 DEF new
      <4>2. CASE i # write_index
        <5>1. i \in Pending /\ i \in Nat /\ i < write_index BY <4>2, <1>0, <1>2 DEF Pending
        <5>2. i # Len(published) /\ i # Len(published') /\ i + 1 \in 1..write_index
          BY <5>1, <1>0, <1>5, <3>4
        <5>. QED BY <5>1, <5>2, <3>4 DEF SlotsOK
      <4>. QED BY <4>1, <4>2
    <3>. QED BY <3>6, <3>7
  <2>. QED BY <2>1, <2>2, <1>0
<1>. QED BY <1>1, <1>3, <1>6 DEF SlotsOK, CommandOf, SlotOf

LEMMA NextSlots ==
  ASSUME TypeOK, IndexOK, RequestOK, SlotsOK, PublishedOK, [Next]_vars
  PROVE  SlotsOK' /\ PublishedOK'
<1>0. shared \in [Word -> Nat] BY DEF TypeOK
<1> DEFINE Same == /\ UNCHANGED <<queue, published>>
                   /\ write_index' = write_index
                   /\ read_index' \in {read_index, read_index + 1}
                   /\ StopQueued' = StopQueued
                   /\ emu' \in {"payload", "publish"} => UNCHANGED <<emu, request>>
<1>a. Same => SlotsOK' /\ PublishedOK' BY SlotsSame
<1> USE DEF read_index, write_index, StopQueued
<1>1. ASSUME NEW w \in Word, AwaitStep(w) PROVE Same
  BY <1>1 DEF AwaitStep, Load, Arm, Check, Wait, Disarm
<1>2. ASSUME NEW n \in PayloadSizes, QueueAsync(n) PROVE Same
  BY <1>2 DEF QueueAsync, BeginQueue
<1>3. CASE Claim
  BY <1>3, ClaimSlots
<1>4. ASSUME LoadPayloadTail PROVE Same
  BY <1>4 DEF LoadPayloadTail, sync
<1>5. CASE WritePayload
  BY <1>5, PayloadSlots
<1>6. CASE Publish
  BY <1>6, PublishSlots
<1>7. ASSUME SignalConsumer PROVE Same
  BY <1>7 DEF SignalConsumer, Signal
<1>8. ASSUME NEW f, WaitForFence(f) PROVE Same
  BY <1>8 DEF WaitForFence
<1>9. ASSUME FenceReached PROVE Same
  BY <1>9 DEF FenceReached, sync
<1>10. ASSUME Destroy PROVE Same
  BY <1>10 DEF Destroy
<1>11. ASSUME QueueStop PROVE Same
  BY <1>11 DEF QueueStop, BeginQueue
<1>12. ASSUME Join PROVE Same
  BY <1>12 DEF Join, sync
<1>13. ASSUME NextCommand PROVE Same
  BY <1>13 DEF NextCommand
<1>14. ASSUME ReadSlot \/ HandlerReturns \/ FreePayload PROVE Same
  BY <1>14 DEF ReadSlot, HandlerReturns, FreePayload, sync
<1>15. ASSUME RetireSlot \/ CompleteFence PROVE Same
  BY <1>0, <1>15 DEF RetireSlot, CompleteFence, Word
<1>16. ASSUME SignalProducer \/ SignalFenceWaiter PROVE Same
  BY <1>16 DEF SignalProducer, SignalFenceWaiter, Signal
<1>17. ASSUME UNCHANGED vars PROVE Same
  BY <1>17 DEF vars
<1> HIDE DEF Same
<1>. QED
  BY <1>a, <1>1, <1>2, <1>3, <1>4, <1>5, <1>6, <1>7, <1>8, <1>9, <1>10, <1>11, <1>12, <1>13,
     <1>14, <1>15, <1>16, <1>17 DEF Next, EmuStep, GPUStep, Call, Word

\* No step of either thread changes a slot between the indices.
LEMMA PendingKept ==
  ASSUME TypeOK, IndexOK, [Next]_vars
  PROVE  \A i \in Pending : SlotOf(i)' = SlotOf(i)
<1> DEFINE Kept == \A i \in Pending : SlotOf(i)' = SlotOf(i)
<1>a. queue' = queue => Kept BY DEF SlotOf
<1>1. CASE Claim
  <2>1. queue' = Claimed BY <1>1, ClaimedSlot
  <2>2. \A i \in Pending : i % QueueCapacity # write_index % QueueCapacity
                           /\ i % QueueCapacity \in 0..QueueCapacity - 1
    BY <1>1, FreeSlot DEF Claim
  <2>3. queue \in [0..QueueCapacity - 1 -> SlotType] BY DEF TypeOK, SlotType
  <2>. QED BY <2>1, <2>2, <2>3 DEF Claimed, SlotOf
<1>2. CASE WritePayload
  <2>2. \A i \in Pending : i % QueueCapacity # write_index % QueueCapacity
                           /\ i % QueueCapacity \in 0..QueueCapacity - 1
    BY <1>2, FreeSlot DEF WritePayload
  <2>. QED BY <1>2, <2>2, PayloadSlot DEF SlotOf
<1>3. Next /\ ~Claim /\ ~WritePayload => queue' = queue
  BY DEF Next, EmuStep, GPUStep, Call, AwaitStep, QueueAsync, LoadPayloadTail, Publish,
         SignalConsumer, WaitForFence, FenceReached, Destroy, QueueStop, Join, NextCommand,
         ReadSlot, HandlerReturns, RetireSlot, SignalProducer, FreePayload, CompleteFence,
         SignalFenceWaiter
<1>4. UNCHANGED vars => queue' = queue BY DEF vars
<1> HIDE DEF Kept
<1>5. Kept BY <1>a, <1>1, <1>2, <1>3, <1>4 DEF Kept
<1>. QED BY <1>5 DEF Kept

\* The command the GPU thread is at, and the fence it has completed.
CommandOK ==
  /\ gpu \in {"handle", "retire"} => command = SlotOf(read_index) /\ ~command.stop
  /\ gpu \in {"retired", "free", "complete", "completed"} => command.fence = read_index
  /\ shared["fence"] =
       IF gpu \in {"retired", "free", "complete"} THEN read_index - 1 ELSE read_index

\* While the GPU thread has a command, it is one of those between the indices.
LEMMA AtPending ==
  ASSUME TypeOK, IndexOK,
         (gpu = "read" /\ await["write_index"] = "off") \/ gpu \in {"handle", "retire"}
  PROVE  read_index \in Pending /\ read_index \in Nat
<1>0. shared["read_index"] \in Nat /\ shared["write_index"] \in Nat /\ cache["write_index"] \in Nat
  BY DEF TypeOK, Word
<1>. QED BY <1>0 DEF IndexOK, Pending, read_index, write_index

\* What the emulation thread's steps leave alone.
LEMMA EmuFrame ==
  ASSUME TypeOK, EmuStep \/ Call
  PROVE  UNCHANGED <<read_index, gpu, command, handled, payload_tail>>
         /\ shared'["fence"] = shared["fence"]
<1>0. shared \in [Word -> Nat] BY DEF TypeOK
<1> USE DEF read_index
<1>1. ASSUME NEW w \in Word, AwaitStep(w)
      PROVE  UNCHANGED <<read_index, gpu, command, handled, payload_tail, shared>>
  BY <1>1 DEF AwaitStep, Load, Arm, Check, Wait, Disarm, payload
<1>2. ASSUME NEW n \in PayloadSizes, QueueAsync(n)
      PROVE  UNCHANGED <<read_index, gpu, command, handled, payload_tail, shared>>
  BY <1>2 DEF QueueAsync, BeginQueue, payload
<1>3. Claim \/ LoadPayloadTail \/ WritePayload \/ FenceReached \/ Join =>
        UNCHANGED <<read_index, gpu, command, handled, payload_tail, shared>>
  BY DEF Claim, LoadPayloadTail, WritePayload, FenceReached, Join, sync, payload
<1>4. Publish => /\ UNCHANGED <<read_index, gpu, command, handled, payload_tail>>
                 /\ shared'["fence"] = shared["fence"]
  BY <1>0 DEF Publish, Word, payload
<1>5. SignalConsumer \/ Destroy \/ QueueStop =>
        UNCHANGED <<read_index, gpu, command, handled, payload_tail, shared>>
  BY DEF SignalConsumer, Signal, Destroy, QueueStop, BeginQueue, payload
<1>6. ASSUME NEW f, WaitForFence(f)
      PROVE  UNCHANGED <<read_index, gpu, command, handled, payload_tail, shared>>
  BY <1>6 DEF WaitForFence, payload
<1>. QED BY <1>1, <1>2, <1>3, <1>4, <1>5, <1>6 DEF EmuStep, Call, Word

LEMMA NextCommandOK ==
  ASSUME TypeOK, IndexOK, SlotsOK, CommandOK, [Next]_vars
  PROVE  CommandOK'
<1>0. /\ shared \in [Word -> Nat] /\ command \in SlotType
      /\ read_index \in Nat
  BY DEF TypeOK, SlotType, read_index, Word
<1>a. ASSUME gpu' \in {"handle", "retire"}, gpu \in {"handle", "retire"}, read_index' = read_index
      PROVE  SlotOf(read_index)' = SlotOf(read_index)
  BY <1>a, AtPending, PendingKept DEF SlotOf
<1>1. CASE EmuStep \/ Call
  BY <1>1, <1>a, EmuFrame DEF CommandOK
<1>2. CASE AwaitStep("write_index")
  BY <1>2, <1>a DEF AwaitStep, Load, Arm, Check, Wait, Disarm, CommandOK, read_index
<1>3. CASE NextCommand
  BY <1>3 DEF NextCommand, CommandOK, read_index
<1>4. CASE ReadSlot
  <2>1. read_index' = read_index /\ UNCHANGED <<shared, queue>> /\ gpu' \in {"stopped", "handle"}
        /\ gpu = "read" /\ command' = SlotOf(read_index)
        /\ (gpu' = "handle" => ~command'.stop)
    BY <1>4 DEF ReadSlot, sync, SlotOf, read_index
  <2>. QED BY <2>1 DEF CommandOK, SlotOf
<1>5. CASE HandlerReturns
  BY <1>5, <1>a DEF HandlerReturns, sync, CommandOK, read_index
<1>6. CASE RetireSlot
  <2>1. read_index' = read_index + 1 /\ shared'["fence"] = shared["fence"] /\ gpu = "retire"
        /\ gpu' = "retired" /\ command' = command
    BY <1>0, <1>6 DEF RetireSlot, read_index, Word
  <2>2. command.fence = read_index + 1
    BY <2>1, AtPending DEF CommandOK, SlotsOK
  <2>. QED BY <2>1, <2>2, <1>0 DEF CommandOK
<1>7. CASE SignalProducer
  BY <1>7 DEF SignalProducer, Signal, CommandOK, read_index
<1>8. CASE FreePayload
  BY <1>8 DEF FreePayload, sync, CommandOK, read_index
<1>9. CASE CompleteFence
  <2>1. read_index' = read_index /\ shared'["fence"] = command.fence /\ gpu = "complete"
        /\ gpu' = "completed" /\ command' = command
    BY <1>0, <1>9 DEF CompleteFence, read_index, Word
  <2>. QED BY <2>1 DEF CommandOK
<1>10. CASE SignalFenceWaiter
  BY <1>10 DEF SignalFenceWaiter, Signal, CommandOK, read_index
<1>11. CASE UNCHANGED vars
  BY <1>11 DEF vars, CommandOK, SlotOf, read_index
<1>. QED BY <1>1, <1>2, <1>3, <1>4, <1>5, <1>6, <1>7, <1>8, <1>9, <1>10, <1>11
        DEF Next, GPUStep

\* WaitForFence has seen the fence it waited for.
FenceSeen == emu \in {"fence", "drain"} /\ await["fence"] = "off" => request.target <= shared["fence"]

LEMMA NextFence ==
  ASSUME TypeOK, CommandOK, FenceSeen, [Next]_vars
  PROVE  FenceSeen'
<1>0. /\ shared \in [Word -> Nat] /\ await \in [Word -> AwaitStates] /\ request.target \in Nat
      /\ read_index \in Nat
  BY DEF TypeOK, AwaitStates, read_index, Word
<1> USE DEF FenceSeen
<1>1. CASE AwaitStep("fence")
  <2>1. UNCHANGED <<shared, emu, request>> /\ (await'["fence"] = "off" => request.target <= shared["fence"])
    BY <1>0, <1>1 DEF AwaitStep, Load, Arm, Check, Wait, Disarm, Arrived, Word
  <2>. QED BY <2>1
<1>2. ASSUME NEW w \in Word \ {"fence"}, AwaitStep(w) PROVE FenceSeen'
  BY <1>0, <1>2 DEF AwaitStep, Load, Arm, Check, Wait, Disarm, Word
<1>3. ASSUME NEW n \in PayloadSizes, QueueAsync(n) PROVE FenceSeen'
  BY <1>3 DEF QueueAsync, BeginQueue
<1>4. CASE Claim \/ LoadPayloadTail \/ WritePayload \/ FenceReached \/ Join
  BY <1>4 DEF Claim, LoadPayloadTail, WritePayload, FenceReached, Join
<1>5. CASE Publish \/ SignalConsumer
  BY <1>5 DEF Publish, SignalConsumer
<1>6. ASSUME NEW f, WaitForFence(f) PROVE FenceSeen'
  BY <1>0, <1>6 DEF WaitForFence, Word
<1>7. CASE Destroy
  BY <1>0, <1>7 DEF Destroy, Word
<1>8. CASE QueueStop
  BY <1>8 DEF QueueStop, BeginQueue
<1>9. CASE NextCommand
  BY <1>0, <1>9 DEF NextCommand, Word
<1>10. CASE ReadSlot \/ HandlerReturns \/ FreePayload
  BY <1>10 DEF ReadSlot, HandlerReturns, FreePayload, sync
<1>11. CASE RetireSlot
  BY <1>0, <1>11 DEF RetireSlot, Word
<1>12. CASE CompleteFence
  <2>1. shared'["fence"] = command.fence /\ gpu = "complete" /\ UNCHANGED <<emu, await, request>>
    BY <1>0, <1>12 DEF CompleteFence, Word
  <2>2. command.fence = read_index /\ shared["fence"] = read_index - 1 BY <2>1 DEF CommandOK
  <2>. QED BY <2>1, <2>2, <1>0
<1>13. CASE SignalProducer \/ SignalFenceWaiter
  BY <1>0, <1>13 DEF SignalProducer, SignalFenceWaiter, Signal, Word, AwaitStates
<1>14. CASE UNCHANGED vars
  BY <1>14 DEF vars
<1>. QED
  BY <1>1, <1>2, <1>3, <1>4, <1>5, <1>6, <1>7, <1>8, <1>9, <1>10, <1>11, <1>12, <1>13, <1>14
     DEF Next, EmuStep, GPUStep, Call, Word

--------------------------------------------------------------------------------
(* The payload arena. *)

\* The commands whose payload is written, and the end of what is freed already or by
\* the step under way.
Filled == read_index..(IF emu = "publish" THEN write_index ELSE write_index - 1)
Freed  == IF gpu \in {"retired", "free"} /\ command.size # 0
          THEN command.offset + command.size ELSE payload_tail

WithPayload == {i \in Filled : SlotOf(i).size # 0}
End(i)      == SlotOf(i).offset + SlotOf(i).size
Place(i)    == SlotOf(i).offset % PayloadCapacity

\* The payload of command i lies between the freed bytes and the head, does not cross
\* the end of the arena, and has its own bytes.
BlockOK(i) ==
  /\ Freed <= SlotOf(i).offset /\ End(i) <= payload_head
  /\ Place(i) + SlotOf(i).size <= PayloadCapacity
  /\ \A k \in 0..SlotOf(i).size - 1 : payload_arena[Place(i) + k] = i + 1

\* The payloads lie one after the other, and the head is at the end of the last.
ArenaOK ==
  /\ payload_tail_cache <= payload_tail /\ payload_tail <= Freed
  /\ Freed <= payload_head /\ payload_head <= payload_tail_cache + PayloadCapacity
  /\ \A i \in WithPayload : BlockOK(i)
  /\ \A i, j \in WithPayload : i < j => End(i) <= SlotOf(j).offset
  /\ payload_head = Freed \/ \E i \in WithPayload : End(i) = payload_head

LEMMA ArenaTypes ==
  ASSUME TypeOK
  PROVE  /\ Filled \subseteq Nat /\ WithPayload \subseteq Nat /\ Freed \in Nat
         /\ \A i \in Nat : /\ SlotOf(i) \in SlotType /\ SlotOf(i).size \in 0..PayloadCapacity
                           /\ SlotOf(i).offset \in Nat /\ End(i) \in Nat
                           /\ Place(i) \in 0..PayloadCapacity - 1
<1>0. /\ shared["read_index"] \in Nat /\ shared["write_index"] \in Nat /\ payload_tail \in Nat
      /\ command \in SlotType /\ queue \in [0..QueueCapacity - 1 -> SlotType]
  BY DEF TypeOK, SlotType, Word
<1>1. Filled \subseteq Nat /\ WithPayload \subseteq Nat
  BY <1>0 DEF Filled, WithPayload, read_index, write_index
<1>2. Freed \in Nat
  <2>1. command.size \in Nat /\ command.offset \in Nat BY <1>0 DEF SlotType
  <2>. QED BY <2>1, <1>0 DEF Freed
<1>3. ASSUME NEW i \in Nat
      PROVE  /\ SlotOf(i) \in SlotType /\ SlotOf(i).size \in 0..PayloadCapacity
             /\ SlotOf(i).offset \in Nat /\ End(i) \in Nat /\ Place(i) \in 0..PayloadCapacity - 1
  <2>1. i % QueueCapacity \in 0..QueueCapacity - 1 BY ModRange
  <2>2. SlotOf(i) \in SlotType BY <2>1, <1>0 DEF SlotOf
  <2>3. SlotOf(i).size \in 0..PayloadCapacity /\ SlotOf(i).offset \in Nat BY <2>2 DEF SlotType
  <2>4. End(i) \in Nat BY <2>3 DEF End
  <2>5. Place(i) \in 0..PayloadCapacity - 1 BY <2>3, ModRange, Zenon DEF Place
  <2>. QED BY <2>2, <2>3, <2>4, <2>5
<1>. QED BY <1>1, <1>2, <1>3

\* A step that leaves the written payloads alone; the copy of the tail may move.
LEMMA ArenaSame ==
  ASSUME TypeOK, ArenaOK, WithPayload' = WithPayload, Freed' = Freed,
         \A i \in WithPayload : SlotOf(i)' = SlotOf(i),
         UNCHANGED <<payload_arena, payload_head>>,
         payload_tail_cache <= payload_tail_cache', payload_tail_cache' <= payload_tail',
         payload_tail' <= Freed, payload_tail_cache' \in Nat
  PROVE  ArenaOK'
<1>0. payload_head \in Nat /\ payload_tail_cache \in Nat BY DEF TypeOK
<1>1. \A i \in WithPayload : End(i)' = End(i) /\ Place(i)' = Place(i) BY DEF End, Place
<1>2. \A i \in WithPayload : BlockOK(i)' BY <1>1 DEF ArenaOK, BlockOK
<1>3. \A i, j \in WithPayload : i < j => End(i)' <= SlotOf(j)'.offset BY <1>1 DEF ArenaOK
<1>4. payload_head' = Freed' \/ \E i \in WithPayload' : End(i)' = payload_head'
  BY <1>1 DEF ArenaOK
<1>5. payload_head' <= payload_tail_cache' + PayloadCapacity
  <2>1. payload_head <= payload_tail_cache + PayloadCapacity BY DEF ArenaOK
  <2>2. payload_head' = payload_head OBVIOUS
  <2>3. \A h, c, d \in Nat : h <= c + PayloadCapacity /\ c <= d => h <= d + PayloadCapacity
    OBVIOUS
  <2>. QED BY <2>1, <2>2, <2>3, <1>0, Zenon
<1>6. Freed' <= payload_head' BY DEF ArenaOK
<1>. QED BY <1>2, <1>3, <1>4, <1>5, <1>6 DEF ArenaOK, BlockOK, End, Place, SlotOf

LEMMA ClaimArena ==
  ASSUME TypeOK, IndexOK, ArenaOK, Claim
  PROVE  ArenaOK'
<1> DEFINE k == write_index % QueueCapacity
<1>0. /\ queue \in [0..QueueCapacity - 1 -> SlotType] /\ k \in 0..QueueCapacity - 1
      /\ read_index \in Nat /\ write_index \in Nat
      /\ payload_tail \in Nat /\ payload_tail_cache \in Nat
  BY ModRange DEF TypeOK, SlotType, write_index, read_index, Word
<1>1. queue' = Claimed BY ClaimedSlot
<1>2. UNCHANGED <<payload, request, shared, gpu, command>> /\ emu = "claim" /\ await["read_index"] = "off"
      /\ emu' = IF request.size = 0 THEN "publish" ELSE "payload"
  BY DEF Claim, sync
<1>3. UNCHANGED <<write_index, read_index, Freed>>
  BY <1>2 DEF write_index, read_index, Freed, payload
<1>4. \A i \in Pending : i % QueueCapacity # k /\ i % QueueCapacity \in 0..QueueCapacity - 1
  BY <1>2, FreeSlot
<1> HIDE DEF k
<1>5. \A i \in Pending : SlotOf(i)' = SlotOf(i)
  BY <1>0, <1>1, <1>4 DEF Claimed, SlotOf, k
<1>6. SlotOf(write_index)'.size = request.size
  BY <1>0, <1>1, <1>3 DEF Claimed, SlotOf, k
<1>7. Filled = Pending BY <1>2 DEF Filled, Pending
<1>8. WithPayload' = WithPayload
  <2>1. CASE request.size = 0
    <3>1. Filled' = Pending \cup {write_index}
      <4>1. read_index <= write_index
        <5>1. shared["read_index"] \in Nat /\ shared["write_index"] \in Nat BY DEF TypeOK, Word
        <5>. QED BY <5>1 DEF IndexOK
      <4>. QED BY <4>1, <2>1, <1>0, <1>2, <1>3 DEF Filled, Pending
    <3>2. WithPayload' = {i \in Filled' : SlotOf(i)'.size # 0} BY DEF WithPayload
    <3>. QED BY <3>1, <3>2, <1>3, <1>5, <1>6, <1>7, <2>1 DEF WithPayload, SlotOf
  <2>2. CASE request.size # 0
    <3>1. Filled' = Pending BY <2>2, <1>0, <1>2, <1>3 DEF Filled, Pending
    <3>. QED BY <3>1, <1>5, <1>7 DEF WithPayload, SlotOf
  <2>. QED BY <2>1, <2>2
<1>9. \A i \in WithPayload : SlotOf(i)' = SlotOf(i) BY <1>5, <1>7 DEF WithPayload
<1>10. UNCHANGED <<payload_arena, payload_head, payload_tail, payload_tail_cache>> BY <1>2 DEF payload
<1>11. payload_tail_cache <= payload_tail /\ payload_tail <= Freed BY DEF ArenaOK
<1>12. payload_tail_cache <= payload_tail_cache' BY <1>10, <1>0
<1>. QED BY <1>0, <1>3, <1>8, <1>9, <1>10, <1>11, <1>12, ArenaSame

\* The block that AllocatePayload returns overwrites no payload that is still pending.
LEMMA NoOverlap ==
  ASSUME NEW m \in Nat \ {0}, NEW a \in Nat, NEW n \in Nat, NEW b \in Nat, NEW l \in Nat,
         NEW low \in Nat, low <= a, a + n <= b, b + l <= low + m,
         (a % m) + n <= m, (b % m) + l <= m,
         NEW k \in 0..n - 1, NEW j \in 0..l - 1
  PROVE  (a % m) + k # (b % m) + j
<1>1. a % m \in Nat /\ b % m \in Nat BY ModRange
<1>2. (a % m) + k < m /\ (b % m) + j < m /\ k \in Nat /\ j \in Nat BY <1>1
<1>3. (a + k) % m = (a % m) + k BY <1>2, ModShift
<1>4. (b + j) % m = (b % m) + j BY <1>2, ModShift
<1>5. a + k \in Nat /\ b + j \in Nat /\ a + k < b + j /\ b + j < (a + k) + m BY <1>2
<1>6. (a + k) % m # (b + j) % m BY <1>5, ModDistinct, Zenon
<1>. QED BY <1>3, <1>4, <1>6

LEMMA WriteArena ==
  ASSUME TypeOK, IndexOK, RequestOK, SlotsOK, ArenaOK, WritePayload
  PROVE  ArenaOK'
<1> DEFINE w == write_index
           size == request.size
           offset == PayloadOffset
           place == offset % PayloadCapacity
<1>0. /\ read_index \in Nat /\ w \in Nat /\ size \in 0..PayloadCapacity
      /\ payload_tail \in Nat /\ payload_tail_cache \in Nat /\ payload_head \in Nat
  BY DEF TypeOK, write_index, read_index, Word
<1>a. payload_arena \in [0..PayloadCapacity - 1 -> Nat] BY DEF TypeOK
<1>f. Freed \in Nat /\ WithPayload \subseteq Nat BY ArenaTypes
<1>t. /\ Filled \subseteq Nat /\ WithPayload \subseteq Nat /\ Freed \in Nat
      /\ \A i \in Nat : /\ SlotOf(i).size \in 0..PayloadCapacity /\ SlotOf(i).offset \in Nat
                        /\ End(i) \in Nat /\ Place(i) \in 0..PayloadCapacity - 1
  BY ArenaTypes
<1>1. /\ UNCHANGED <<request, shared, gpu, command, payload_tail, payload_tail_cache>>
      /\ emu = "payload" /\ emu' = "publish"
      /\ payload_head' = offset + size
      /\ offset + size - payload_tail_cache <= PayloadCapacity
      /\ payload_arena' = [i \in DOMAIN payload_arena |->
                             IF i \in place..place + size - 1 THEN w + 1 ELSE payload_arena[i]]
  BY DEF WritePayload, PayloadFits, sync, fence_enqueued
<1>2. offset \in Nat /\ offset >= payload_head /\ place + size <= PayloadCapacity
  BY <1>0, PayloadOffsetOK
<1>3. place \in 0..PayloadCapacity - 1 BY <1>2, ModRange, Zenon
<1>4. UNCHANGED <<write_index, read_index, Freed>>
  BY <1>1 DEF write_index, read_index, Freed
<1>5. /\ size # 0 /\ SlotOf(w).size = size BY <1>1 DEF RequestOK, SlotsOK
<1>6. /\ \A i \in Pending : i % QueueCapacity # w % QueueCapacity
                            /\ i % QueueCapacity \in 0..QueueCapacity - 1
      /\ w % QueueCapacity \in 0..QueueCapacity - 1
  BY <1>0, <1>1, FreeSlot, ModRange
<1>7. /\ \A i \in Pending : SlotOf(i)' = SlotOf(i)
      /\ queue'[w % QueueCapacity].size = size /\ queue'[w % QueueCapacity].offset = offset
  BY <1>5, <1>6, PayloadSlot DEF SlotOf
<1>8. SlotOf(w)'.size = size /\ SlotOf(w)'.offset = offset BY <1>4, <1>7 DEF SlotOf
<1>9. Filled = Pending /\ Filled' = Pending \cup {w} /\ w \notin Pending
  <2>1. read_index <= write_index
    <3>1. shared["read_index"] \in Nat /\ shared["write_index"] \in Nat BY DEF TypeOK, Word
    <3>. QED BY <3>1 DEF IndexOK
  <2>. QED BY <2>1, <1>0, <1>1, <1>4 DEF Filled, Pending
<1> HIDE DEF w, offset, place, size
<1>10. WithPayload' = WithPayload \cup {w}
  <2>1. WithPayload' = {i \in Filled' : SlotOf(i)'.size # 0} BY DEF WithPayload
  <2>2. SlotOf(w)'.size # 0 BY <1>5, <1>8
  <2>. QED BY <2>1, <2>2, <1>4, <1>7, <1>9 DEF WithPayload, SlotOf, w
<1>11. \A i \in WithPayload : SlotOf(i)' = SlotOf(i) /\ i < w
  BY <1>0, <1>7, <1>9 DEF WithPayload, Pending, w
<1>12. \A i \in WithPayload : End(i)' = End(i) /\ Place(i)' = Place(i)
  BY <1>11 DEF End, Place
<1>13. payload_tail_cache <= payload_tail /\ payload_tail <= Freed /\ Freed <= payload_head
       /\ payload_head <= payload_tail_cache + PayloadCapacity
  BY DEF ArenaOK
<1>14. End(w)' = offset + size /\ Place(w)' = place
  BY <1>4, <1>8 DEF End, Place, SlotOf, w, place
<1>15. ASSUME NEW i \in WithPayload PROVE BlockOK(i)'
  <2>1. BlockOK(i) BY DEF ArenaOK
  <2> DEFINE a == SlotOf(i).offset
             n == SlotOf(i).size
  <2>2. a \in Nat /\ n \in Nat /\ End(i) = a + n /\ Place(i) = a % PayloadCapacity /\ i \in Nat
        /\ Place(i) \in Nat /\ n <= PayloadCapacity
    BY <1>t DEF End, Place
  <2>3. Freed <= a /\ End(i) <= payload_head /\ Place(i) + n <= PayloadCapacity
        /\ \A k \in 0..n - 1 : payload_arena[Place(i) + k] = i + 1
    BY <2>1 DEF BlockOK
  <2>3a. a + n <= offset /\ offset + size <= Freed + PayloadCapacity /\ End(i) <= payload_head'
    <3>1. payload_head' = offset + size /\ offset + size - payload_tail_cache <= PayloadCapacity
      BY <1>1
    <3> HIDE DEF a, n
    <3>. QED BY <3>1, <2>2, <2>3, <1>0, <1>2, <1>13, <1>f
  <2>4. ASSUME NEW k \in 0..n - 1 PROVE payload_arena'[Place(i) + k] = i + 1
    <3>1. Place(i) + k \in 0..PayloadCapacity - 1 BY <2>2, <2>3, <2>4
    <3>2. Place(i) + k \notin place..place + size - 1
      <4>1. SUFFICES ASSUME Place(i) + k \in place..place + size - 1 PROVE FALSE OBVIOUS
      <4> DEFINE j == (Place(i) + k) - place
      <4>2. j \in 0..size - 1 /\ Place(i) + k = place + j 
        <5>1. size \in Nat BY <1>0
        <5> DEFINE x == Place(i) + k
        <5>2. x \in Nat /\ place \in Nat /\ x \in place..place + size - 1 BY <4>1, <3>1, <1>3
        <5> HIDE DEF x
        <5>3. x - place \in 0..size - 1 /\ x = place + (x - place) BY <5>1, <5>2
        <5>. QED BY <5>3, Zenon DEF x
      <4>3. Place(i) + k # place + j
        <5> HIDE DEF j, a, n
        <5>1. size \in Nat /\ (a % PayloadCapacity) + n <= PayloadCapacity
              /\ (offset % PayloadCapacity) + size <= PayloadCapacity
          BY <1>0, <1>2, <2>2, <2>3 DEF place
        <5>2. (a % PayloadCapacity) + k # (offset % PayloadCapacity) + j
          
          <6>1. a \in Nat /\ n \in Nat /\ offset \in Nat /\ Freed \in Nat /\ Freed <= a
                /\ a + n <= offset /\ offset + size <= Freed + PayloadCapacity
                /\ j \in 0..size - 1 /\ k \in 0..n - 1
            BY <2>2, <2>3, <2>3a, <2>4, <1>2, <1>f, <4>2 DEF a, n
          <6>. QED BY <5>1, <6>1, NoOverlap
        <5>. QED BY <5>2, <2>2 DEF place
      <4>. QED BY <4>2, <4>3
    <3>. QED BY <3>1, <3>2, <2>3, <1>a, <1>1
  <2>. QED BY <2>3, <2>3a, <2>4, <1>4, <1>11, <1>12 DEF BlockOK
<1>16. BlockOK(w)'
  <2>1. Freed' <= SlotOf(w)'.offset /\ End(w)' <= payload_head'
    BY <1>0, <1>1, <1>2, <1>4, <1>8, <1>13, <1>14, <1>t
  <2>2. Place(w)' + SlotOf(w)'.size <= PayloadCapacity BY <1>2, <1>8, <1>14
  <2>3. \A k \in 0..SlotOf(w)'.size - 1 : payload_arena'[Place(w)' + k] = w + 1
    BY <1>0, <1>a, <1>1, <1>2, <1>3, <1>8, <1>14
  <2>. QED BY <2>1, <2>2, <2>3, <1>4 DEF BlockOK, w, SlotOf, End, Place
<1>17. ASSUME NEW i \in WithPayload' PROVE BlockOK(i)'
  <2>1. CASE i \in WithPayload BY <2>1, <1>15
  <2>2. CASE i = w BY <2>2, <1>16, <1>4 DEF BlockOK, SlotOf, End, Place, w
  <2>. QED BY <2>1, <2>2, <1>10
<1>18. ASSUME NEW i \in WithPayload', NEW j \in WithPayload', i < j PROVE End(i)' <= SlotOf(j)'.offset
  <2>1. CASE j = w
    <3>0. w \in Nat BY <1>0
    <3>1. i \in WithPayload /\ i \in Nat BY <3>0, <1>10, <1>18, <2>1, <1>f
    <3>2. End(i) <= payload_head BY <3>1 DEF ArenaOK, BlockOK
    <3>4. End(i) \in Nat /\ End(i)' = End(i) BY <3>1, <1>12, <1>t
    <3>3. End(i)' <= offset BY <3>2, <3>4, <1>2, <1>0
    <3>. QED BY <3>3, <2>1, <1>8, <1>4 DEF SlotOf, w
  <2>2. CASE j # w
    <3>1. j \in WithPayload /\ j < w BY <2>2, <1>10, <1>11
    <3>2. i \in WithPayload BY <3>1, <1>0, <1>10, <1>18, <1>t DEF w
    <3>. QED BY <3>1, <3>2, <1>11, <1>12, <1>18 DEF ArenaOK
  <2>. QED BY <2>1, <2>2
<1>19. w \in WithPayload' /\ End(w)' = payload_head' BY <1>1, <1>10, <1>14
<1>20. \E i \in WithPayload' : End(i)' = payload_head' BY <1>19, <1>4 DEF End, SlotOf, w
<1>21. payload_tail_cache' <= payload_tail' /\ payload_tail' <= Freed' /\ Freed' <= payload_head'
       /\ payload_head' <= payload_tail_cache' + PayloadCapacity
  BY <1>0, <1>1, <1>2, <1>4, <1>13, <1>t
<1>. QED BY <1>17, <1>18, <1>20, <1>21 DEF ArenaOK, BlockOK, SlotOf, End, Place

LEMMA RetireArena ==
  ASSUME TypeOK, IndexOK, CommandOK, ArenaOK, RetireSlot
  PROVE  ArenaOK'
<1> DEFINE r == read_index
<1>0. /\ r \in Nat /\ write_index \in Nat
      /\ payload_tail \in Nat /\ payload_tail_cache \in Nat /\ payload_head \in Nat
  BY DEF TypeOK, write_index, read_index, Word
<1>t. /\ WithPayload \subseteq Nat /\ Freed \in Nat
      /\ \A i \in Nat : /\ SlotOf(i).size \in 0..PayloadCapacity /\ SlotOf(i).offset \in Nat
                        /\ End(i) \in Nat
  BY ArenaTypes
<1>1. /\ UNCHANGED <<queue, emu, command, payload>> /\ gpu = "retire" /\ gpu' = "retired"
      /\ read_index' = r + 1 /\ write_index' = write_index
  BY DEF RetireSlot, TypeOK, write_index, read_index, Word
<1>2. command = SlotOf(r) /\ r \in Pending BY <1>1, AtPending DEF CommandOK
<1>3. Freed = payload_tail /\ Freed' = IF SlotOf(r).size # 0 THEN End(r) ELSE payload_tail
  BY <1>1, <1>2 DEF Freed, End, payload
<1>4. \A i : SlotOf(i)' = SlotOf(i) /\ End(i)' = End(i) /\ Place(i)' = Place(i)
  BY <1>1 DEF SlotOf, End, Place
<1>5. r \in Filled /\ Filled' = Filled \ {r}
  BY <1>0, <1>1, <1>2 DEF Filled, Pending, r
<1> HIDE DEF r
<1>6. WithPayload' = WithPayload \ {r}
  <2>1. WithPayload' = {i \in Filled' : SlotOf(i).size # 0} BY <1>4 DEF WithPayload
  <2>. QED BY <2>1, <1>5 DEF WithPayload
<1>7. \A i \in Filled : r <= i BY <1>0 DEF Filled, r
<1>8. payload_tail_cache <= payload_tail /\ payload_tail <= Freed /\ Freed <= payload_head
       /\ payload_head <= payload_tail_cache + PayloadCapacity
  BY DEF ArenaOK
<1>9. CASE SlotOf(r).size = 0
  <2>1. WithPayload' = WithPayload BY <1>6, <1>9 DEF WithPayload
  <2>2. Freed' = Freed BY <1>3, <1>9
  <2>. QED BY <2>1, <2>2, <1>0, <1>1, <1>4, <1>8, ArenaSame DEF payload
<1>10. CASE SlotOf(r).size # 0
  <2>1. r \in WithPayload /\ BlockOK(r) BY <1>5, <1>10 DEF WithPayload, ArenaOK
  <2>2. Freed' = End(r) /\ payload_tail <= End(r) /\ End(r) <= payload_head
        /\ Freed < End(r) /\ End(r) \in Nat
    <3>1. Freed <= SlotOf(r).offset /\ End(r) <= payload_head BY <2>1 DEF BlockOK
    <3>2. SlotOf(r).offset \in Nat /\ SlotOf(r).size \in Nat BY <1>0, <1>t DEF r
    <3>3. Freed' = End(r) /\ Freed = payload_tail BY <1>3, <1>10
    <3>4. End(r) = SlotOf(r).offset + SlotOf(r).size BY DEF End
    <3>. QED BY <3>1, <3>2, <3>3, <3>4, <1>10, <1>0
  <2>3. ASSUME NEW i \in WithPayload' PROVE BlockOK(i)'
    <3>1. i \in WithPayload /\ i # r /\ r < i
      BY <1>0, <1>6, <1>7, <1>t, SMTT(30) DEF WithPayload, r
    <3>2. BlockOK(i) /\ End(r) <= SlotOf(i).offset BY <3>1, <2>1 DEF ArenaOK
    <3>. QED BY <3>2, <2>2, <1>1, <1>4 DEF BlockOK, payload
  <2>4. \A i, j \in WithPayload' : i < j => End(i)' <= SlotOf(j)'.offset
    BY <1>4, <1>6 DEF ArenaOK
  <2>5. payload_head = Freed' \/ \E i \in WithPayload' : End(i) = payload_head
    <3>1. payload_head # Freed BY <2>2, <1>t, <1>0
    <3>2. PICK i \in WithPayload : End(i) = payload_head BY <3>1 DEF ArenaOK
    <3>. QED BY <3>2, <2>2, <1>6
  <2>6. payload_tail_cache' <= payload_tail' /\ payload_tail' <= Freed' /\ Freed' <= payload_head'
        /\ payload_head' <= payload_tail_cache' + PayloadCapacity
    BY <2>2, <1>1, <1>8 DEF payload
  <2>7. payload_head' = Freed' \/ \E i \in WithPayload' : End(i)' = payload_head'
    BY <2>5, <1>1, <1>4 DEF payload
  <2>. QED BY <2>3, <2>4, <2>6, <2>7 DEF ArenaOK, BlockOK, SlotOf, End, Place
<1>. QED BY <1>9, <1>10

LEMMA NextArena ==
  ASSUME TypeOK, IndexOK, RequestOK, SlotsOK, CommandOK, ArenaOK, [Next]_vars
  PROVE  ArenaOK'
<1>0. /\ shared \in [Word -> Nat] /\ payload_tail \in Nat /\ payload_tail_cache \in Nat
      /\ read_index \in Nat /\ write_index \in Nat
  BY DEF TypeOK, read_index, write_index, Word
<1>1. payload_tail_cache <= payload_tail /\ payload_tail <= Freed BY DEF ArenaOK
<1> DEFINE Same == UNCHANGED <<queue, payload, read_index, Filled, Freed>>
<1>2. Same => ArenaOK'
  <2>1. ASSUME Same PROVE ArenaOK'
    <3>1. WithPayload' = WithPayload BY <2>1 DEF WithPayload, SlotOf
    <3>2. \A i \in WithPayload : SlotOf(i)' = SlotOf(i) BY <2>1 DEF SlotOf
    <3>3. UNCHANGED <<payload_arena, payload_head, payload_tail, payload_tail_cache>> /\ Freed' = Freed
      BY <2>1 DEF payload
    <3>. QED BY <3>1, <3>2, <3>3, <1>0, <1>1, ArenaSame
  <2>. QED BY <2>1
<1>3. ASSUME NEW w \in Word, AwaitStep(w) PROVE Same
  BY <1>3 DEF AwaitStep, Load, Arm, Check, Wait, Disarm, Filled, Freed, payload, read_index, write_index
<1>4. ASSUME NEW n \in PayloadSizes, QueueAsync(n) PROVE Same
  BY <1>4 DEF QueueAsync, BeginQueue, Filled, Freed, payload, read_index, write_index
<1>5. CASE Claim BY <1>5, ClaimArena
<1>6. CASE LoadPayloadTail
  <2>1. /\ UNCHANGED <<queue, payload_arena, payload_head, payload_tail, read_index, Filled, Freed>>
        /\ payload_tail_cache' = payload_tail
    BY <1>6 DEF LoadPayloadTail, sync, Filled, Freed, read_index, write_index
  <2>2. WithPayload' = WithPayload BY <2>1 DEF WithPayload, SlotOf
  <2>3. \A i \in WithPayload : SlotOf(i)' = SlotOf(i) BY <2>1 DEF SlotOf
  <2>4. payload_tail_cache' <= payload_tail' BY <2>1, <1>0
  <2>. QED BY <2>1, <2>2, <2>3, <2>4, <1>0, <1>1, ArenaSame
<1>7. CASE WritePayload BY <1>7, WriteArena
<1>8. ASSUME Publish PROVE Same
  <2>1. /\ UNCHANGED <<queue, payload, gpu, command, read_index>> /\ write_index' = write_index + 1
        /\ emu = "publish" /\ emu' = "published"
    BY <1>8, <1>0 DEF Publish, read_index, write_index, Word
  <2>. QED BY <2>1, <1>0 DEF Filled, Freed, payload
<1>9. ASSUME SignalConsumer PROVE Same
  BY <1>9 DEF SignalConsumer, Signal, Filled, Freed, payload, read_index, write_index
<1>10. ASSUME NEW f, WaitForFence(f) PROVE Same
  BY <1>10 DEF WaitForFence, Filled, Freed, payload, read_index, write_index
<1>11. ASSUME FenceReached \/ Join PROVE Same
  BY <1>11 DEF FenceReached, Join, sync, Filled, Freed, payload, read_index, write_index
<1>12. ASSUME Destroy PROVE Same
  BY <1>12 DEF Destroy, Filled, Freed, payload, read_index, write_index
<1>13. ASSUME QueueStop PROVE Same
  BY <1>13 DEF QueueStop, BeginQueue, Filled, Freed, payload, read_index, write_index
<1>14. ASSUME NextCommand PROVE Same
  BY <1>14 DEF NextCommand, Filled, Freed, payload, read_index, write_index
<1>15. ASSUME ReadSlot PROVE Same
  BY <1>15 DEF ReadSlot, sync, Filled, Freed, payload, read_index, write_index
<1>16. ASSUME HandlerReturns PROVE Same
  BY <1>16 DEF HandlerReturns, sync, Filled, Freed, payload, read_index, write_index
<1>17. CASE RetireSlot BY <1>17, RetireArena
<1>18. ASSUME SignalProducer PROVE Same
  BY <1>18 DEF SignalProducer, Signal, Filled, Freed, payload, read_index, write_index
<1>19. CASE FreePayload
  <2>1. /\ UNCHANGED <<queue, payload_arena, payload_head, payload_tail_cache, read_index, Filled>>
        /\ payload_tail' = Freed /\ Freed' = payload_tail'
    BY <1>19 DEF FreePayload, sync, Filled, Freed, read_index, write_index
  <2>2. WithPayload' = WithPayload BY <2>1 DEF WithPayload, SlotOf
  <2>3. \A i \in WithPayload : SlotOf(i)' = SlotOf(i) BY <2>1 DEF SlotOf
  <2>4. Freed \in Nat BY ArenaTypes
  <2>5. payload_tail_cache' <= payload_tail' /\ payload_tail' <= Freed /\ Freed' = Freed
        /\ payload_tail_cache <= payload_tail_cache' /\ payload_tail_cache' \in Nat
    BY <2>1, <2>4, <1>0, <1>1
  <2>. QED BY <2>1, <2>2, <2>3, <2>5, ArenaSame
<1>20. ASSUME CompleteFence PROVE Same
  BY <1>20, <1>0 DEF CompleteFence, Filled, Freed, payload, read_index, write_index, Word
<1>21. ASSUME SignalFenceWaiter PROVE Same
  BY <1>21 DEF SignalFenceWaiter, Signal, Filled, Freed, payload, read_index, write_index
<1>22. ASSUME UNCHANGED vars PROVE Same
  BY <1>22 DEF vars, Filled, Freed, payload, read_index, write_index
<1> HIDE DEF Same
<1>. QED
  BY <1>2, <1>3, <1>4, <1>5, <1>6, <1>7, <1>8, <1>9, <1>10, <1>11, <1>12, <1>13, <1>14, <1>15,
     <1>16, <1>17, <1>18, <1>19, <1>20, <1>21, <1>22 DEF Next, EmuStep, GPUStep, Call, Word

--------------------------------------------------------------------------------
(* What the handler gets. *)

HandledOK == /\ handled \in Seq(Commands)
             /\ Len(handled) = IF gpu = "retire" THEN read_index + 1 ELSE read_index

\* The inductive invariant of the ring.
RingOK == /\ TypeOK /\ IndexOK /\ RequestOK /\ SlotsOK /\ PublishedOK
          /\ CommandOK /\ FenceSeen /\ ArenaOK /\ HandledOK

LEMMA HandlerGets ==
  ASSUME TypeOK, IndexOK, SlotsOK, PublishedOK, CommandOK, ArenaOK, gpu = "handle"
  PROVE  /\ read_index \in Nat /\ read_index < Len(published)
         /\ HandlerView = published[read_index + 1]
<1> DEFINE r == read_index
           size == SlotOf(r).size
<1>0. r \in Nat /\ r \in Pending /\ write_index \in Nat
  BY AtPending DEF TypeOK, write_index, Word
<1>1. command = SlotOf(r) /\ ~SlotOf(r).stop BY DEF CommandOK
<1>2. SlotOf(r).fence = r + 1 /\ r # Len(published) /\ published[r + 1] = CommandOf(r, size)
  BY <1>0, <1>1 DEF SlotsOK
<1>3. Len(published) \in Nat /\ Len(published) >= write_index - 1
  BY <1>0 DEF PublishedOK
<1>4. r < Len(published) BY <1>0, <1>2, <1>3 DEF Pending
<1>5. \A k \in 1..size : payload_arena[Place(r) + k - 1] = r + 1
  <2>1. CASE size = 0 BY <2>1
  <2>2. CASE size # 0
    <3>1. r \in Filled BY <1>0 DEF Filled, Pending
    <3>2. r \in WithPayload BY <3>1, <2>2 DEF WithPayload
    <3>3. \A k \in 0..size - 1 : payload_arena[Place(r) + k] = r + 1
      BY <3>2 DEF ArenaOK, BlockOK
    <3>4. size \in Nat /\ Place(r) \in Nat BY <1>0, ArenaTypes
    <3> HIDE DEF size
    <3>5. ASSUME NEW k \in 1..size PROVE payload_arena[Place(r) + k - 1] = r + 1
      <4>1. k - 1 \in 0..size - 1 /\ Place(r) + k - 1 = Place(r) + (k - 1) BY <3>4
      <4>. QED BY <4>1, <3>3
    <3>. QED BY <3>5
  <2>. QED BY <2>1, <2>2
<1>6. HandlerView = [fence |-> SlotOf(r).fence,
                     bytes |-> [k \in 1..size |-> payload_arena[Place(r) + k - 1]]]
  BY <1>1 DEF HandlerView, SlotOf, Place
<1> HIDE DEF size
<1>7. [k \in 1..size |-> payload_arena[Place(r) + k - 1]] = [k \in 1..size |-> r + 1]
  BY <1>5
<1>. QED BY <1>0, <1>2, <1>4, <1>6, <1>7 DEF CommandOf

LEMMA NextHandled ==
  ASSUME RingOK, [Next]_vars
  PROVE  HandledOK'
<1> USE DEF RingOK
<1>0. /\ shared \in [Word -> Nat] /\ read_index \in Nat /\ handled \in Seq(Commands)
      /\ Len(handled) = IF gpu = "retire" THEN read_index + 1 ELSE read_index
  BY DEF TypeOK, read_index, Word, HandledOK
<1>1. CASE EmuStep \/ Call
  BY <1>1, EmuFrame DEF HandledOK
<1>2. CASE HandlerReturns
  <2>1. handled' = Append(handled, HandlerView) /\ gpu = "handle" /\ gpu' = "retire"
        /\ read_index' = read_index
    BY <1>2 DEF HandlerReturns, sync, read_index
  <2>2. HandlerView \in Commands
    <3>1. read_index + 1 \in 1..Len(published) /\ HandlerView = published[read_index + 1]
      BY <2>1, HandlerGets DEF PublishedOK
    <3>. QED BY <3>1 DEF PublishedOK
  <2>3. handled' \in Seq(Commands) /\ Len(handled') = Len(handled) + 1 BY <2>1, <2>2, <1>0
  <2>. QED BY <2>1, <2>3, <1>0 DEF HandledOK
<1>3. CASE RetireSlot
  <2>1. read_index' = read_index + 1 /\ gpu = "retire" /\ gpu' = "retired" /\ handled' = handled
    BY <1>0, <1>3 DEF RetireSlot, read_index, Word
  <2>. QED BY <2>1, <1>0 DEF HandledOK
<1>4. CASE AwaitStep("write_index")
  BY <1>4, <1>0 DEF AwaitStep, Load, Arm, Check, Wait, Disarm, HandledOK, read_index
<1>5. CASE NextCommand
  BY <1>5, <1>0 DEF NextCommand, HandledOK, read_index
<1>6. CASE ReadSlot
  BY <1>6, <1>0 DEF ReadSlot, sync, HandledOK, read_index
<1>7. CASE SignalProducer
  BY <1>7, <1>0 DEF SignalProducer, Signal, HandledOK, read_index
<1>8. CASE FreePayload
  BY <1>8, <1>0 DEF FreePayload, sync, HandledOK, read_index
<1>9. CASE CompleteFence
  <2>1. read_index' = read_index /\ gpu = "complete" /\ gpu' = "completed" /\ handled' = handled
    BY <1>0, <1>9 DEF CompleteFence, read_index, Word
  <2>. QED BY <2>1, <1>0 DEF HandledOK
<1>10. CASE SignalFenceWaiter
  BY <1>10, <1>0 DEF SignalFenceWaiter, Signal, HandledOK, read_index
<1>11. CASE UNCHANGED vars
  BY <1>11, <1>0 DEF vars, HandledOK, read_index
<1>. QED BY <1>1, <1>2, <1>3, <1>4, <1>5, <1>6, <1>7, <1>8, <1>9, <1>10, <1>11
        DEF Next, GPUStep

LEMMA RingInit == Init => RingOK
<1> SUFFICES ASSUME Init PROVE RingOK OBVIOUS
<1>1. TypeOK BY TypeInit
<1>2. /\ shared["read_index"] = 0 /\ shared["write_index"] = 0 /\ shared["fence"] = 0
      /\ cache["read_index"] = 0 /\ cache["write_index"] = 0
      /\ emu = "run" /\ gpu = "next" /\ request.stop = FALSE /\ request.size = 0
      /\ published = << >> /\ handled = << >>
      /\ payload_head = 0 /\ payload_tail_cache = 0 /\ payload_tail = 0
  BY DEF Init, Word
<1>3. IndexOK BY <1>2 DEF IndexOK, read_index, write_index
<1>4. RequestOK BY <1>2 DEF RequestOK
<1>5. Pending = {} /\ WithPayload = {}
  BY <1>2 DEF Pending, WithPayload, Filled, read_index, write_index
<1>6. SlotsOK BY <1>2, <1>5 DEF SlotsOK
<1>7. PublishedOK BY <1>2 DEF PublishedOK, StopQueued, write_index
<1>8. CommandOK /\ FenceSeen /\ HandledOK BY <1>2 DEF CommandOK, FenceSeen, HandledOK, read_index
<1>9. ArenaOK BY <1>2, <1>5 DEF ArenaOK, Freed
<1>. QED BY <1>1, <1>3, <1>4, <1>6, <1>7, <1>8, <1>9 DEF RingOK

LEMMA NextRing == TypeOK' /\ RingOK /\ [Next]_vars => RingOK'
BY NextIndex, NextRequest, NextSlots, NextCommandOK, NextFence, NextArena, NextHandled DEF RingOK

LEMMA RingCorrect == Spec => []RingOK
BY TypeCorrect, RingInit, NextRing, PTL DEF Spec

\* The handler's view of a command is the published one as long as the handler runs:
\* neither the slot nor a byte of the payload is overwritten under it.
THEOREM HandlerInput == Spec => []HandlerInputIntact
<1>1. RingOK => HandlerInputIntact BY HandlerGets DEF RingOK, HandlerInputIntact
<1>. QED BY <1>1, RingCorrect, PTL

\* A fence that is completed has been handled, and whoever waited for the newest finds
\* the arena empty.
THEOREM FencesDone == Spec => []FencesAreDone
<1>1. RingOK => FencesAreDone
  <2> SUFFICES ASSUME RingOK PROVE FencesAreDone OBVIOUS
  <2> USE DEF RingOK
  <2>0. /\ read_index \in Nat /\ write_index \in Nat /\ shared["fence"] \in Nat
        /\ request.target \in Nat
    BY DEF TypeOK, read_index, write_index, Word
  <2>1. /\ shared["fence"] = IF gpu \in {"retired", "free", "complete"}
                             THEN read_index - 1 ELSE read_index
        /\ Len(handled) = IF gpu = "retire" THEN read_index + 1 ELSE read_index
    BY DEF CommandOK, HandledOK
  <2>2. shared["fence"] <= Len(handled) BY <2>0, <2>1
  <2>3. ASSUME emu = "fence", await["fence"] = "off"
        PROVE  /\ request.target <= Len(handled)
               /\ request.target = Len(published) => payload_tail = payload_head
    <3>1. request.target <= shared["fence"] BY <2>3 DEF FenceSeen
    <3>2. Len(published) = write_index BY <2>3 DEF PublishedOK, StopQueued
    <3>3. ASSUME request.target = Len(published) PROVE payload_tail = payload_head
      <4>1. read_index <= write_index
        <5>1. shared["read_index"] \in Nat /\ shared["write_index"] \in Nat BY DEF TypeOK, Word
        <5>. QED BY <5>1 DEF IndexOK
      <4>2. read_index = write_index /\ gpu \notin {"retired", "free"}
        BY <4>1, <3>1, <3>2, <3>3, <2>0, <2>1
      <4>3. WithPayload = {} BY <4>2, <2>0, <2>3 DEF WithPayload, Filled
      <4>4. payload_head = Freed BY <4>3 DEF ArenaOK
      <4>. QED BY <4>2, <4>4 DEF Freed
    <3>4. request.target <= Len(handled) BY <3>1, <2>0, <2>1
    <3>. QED BY <3>3, <3>4
  <2>. QED BY <2>2, <2>3 DEF FencesAreDone
<1>. QED BY <1>1, RingCorrect, PTL

\* The ring, the arena and the sleeping protocol implement the stream of commands:
\* each step is the publication of a command, the handling of the next one, or neither.
THEOREM RingImplementsStream == Spec => ImplementsStream
<1>1. Init => Stream!Init BY DEF Init, Stream!Init
<1>2. RingOK /\ [Next]_vars => [Stream!Next]_<<published, handled>>
  <2> SUFFICES ASSUME RingOK, [Next]_vars PROVE [Stream!Next]_<<published, handled>> OBVIOUS
  <2> USE DEF RingOK
  <2>1. CASE Publish
    <3>1. handled' = handled /\ emu = "publish" BY <2>1 DEF Publish
    <3>2. CASE request.stop BY <3>1, <3>2, <2>1 DEF Publish
    <3>3. CASE ~request.stop
      <4>1. published' = Append(published, CommandOf(write_index, request.size))
        BY <2>1, <3>3 DEF Publish, CommandOf, fence_enqueued
      <4>2. request.size \in PayloadSizes /\ write_index + 1 \in 1..MaxCommands
        <5>1. request.size \in PayloadSizes /\ write_index < MaxCommands
          BY <3>1, <3>3 DEF RequestOK
        <5>2. write_index \in Nat BY DEF TypeOK, write_index, Word
        <5>. QED BY <5>1, <5>2
      <4>3. CommandOf(write_index, request.size) \in Commands
        <5>1. [k \in 1..request.size |-> write_index + 1] \in [1..request.size -> 1..MaxCommands]
          BY <4>2
        <5>. QED BY <5>1, <4>2 DEF Commands, CommandOf
      <4>. QED BY <4>1, <4>3, <3>1 DEF Stream!Next, Stream!Publish, Commands
    <3>. QED BY <3>2, <3>3
  <2>2. CASE HandlerReturns
    <3>1. handled' = Append(handled, HandlerView) /\ published' = published /\ gpu = "handle"
      BY <2>2 DEF HandlerReturns
    <3>2. Len(handled) = read_index BY <3>1 DEF HandledOK
    <3>3. read_index < Len(published) /\ HandlerView = published[read_index + 1]
      BY <3>1, HandlerGets
    <3>. QED BY <3>1, <3>2, <3>3 DEF Stream!Next, Stream!Handle
  <2>3. CASE Next /\ ~Publish /\ ~HandlerReturns
    BY <2>3 DEF Next, EmuStep, GPUStep, Call, AwaitStep, QueueAsync, Claim, LoadPayloadTail,
         WritePayload, SignalConsumer, WaitForFence, FenceReached, Destroy, QueueStop, Join,
         NextCommand, ReadSlot, RetireSlot, SignalProducer, FreePayload, CompleteFence,
         SignalFenceWaiter
  <2>4. CASE UNCHANGED vars BY <2>4 DEF vars
  <2>. QED BY <2>1, <2>2, <2>3, <2>4
<1>. QED BY <1>1, <1>2, RingCorrect, PTL DEF Spec, ImplementsStream, Stream!Spec
================================================================================

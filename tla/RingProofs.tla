----------------------------- MODULE RingProofs -----------------------------
(***************************************************************************)
(* Theorems about Ring, for every number of slots from two up, every       *)
(* time-out and every set of inputs.                                       *)
(***************************************************************************)
EXTENDS Ring, SequenceTheorems, TLAPS

-----------------------------------------------------------------------------
(* Slots *)

LEMMA DivMod ==
  ASSUME NEW n \in Nat, NEW s \in Nat \ {0}
  PROVE  /\ n \div s \in Int /\ n % s \in 0 .. s - 1
         /\ n = s * (n \div s) + (n % s)
BY SMT

LEMMA SlotInRing ==
  ASSUME NEW n \in Nat
  PROVE  Slot(n) \in 0 .. Slots - 1
BY RingSizes, DivMod DEF Slot

\* Two pictures less than a ring apart have different slots.
LEMMA SlotsDiffer ==
  ASSUME NEW i \in Nat, NEW n \in Nat, i < n, n - i < Slots
  PROVE  Slot(i) # Slot(n)
<1>1. Slots \in Nat \ {0}
  BY RingSizes
<1> DEFINE p == i \div Slots
<1> DEFINE q == n \div Slots
<1>2. SUFFICES ASSUME i % Slots = n % Slots PROVE FALSE
  BY DEF Slot
<1>3. /\ p \in Int /\ q \in Int
      /\ i = Slots * p + (i % Slots)
      /\ n = Slots * q + (n % Slots)
      /\ i % Slots \in Int
  BY <1>1, DivMod
<1> HIDE DEF p, q
<1>4. n - i = Slots * (q - p)
  BY <1>1, <1>2, <1>3
<1>5. CASE q - p <= 0
  BY <1>1, <1>3, <1>4, <1>5
<1>6. CASE q - p >= 1
  BY <1>1, <1>3, <1>4, <1>6
<1> QED BY <1>3, <1>5, <1>6

-----------------------------------------------------------------------------
(* Type correctness *)

LEMMA Sentinels == NoDump \in Int /\ Partial \in Int
BY DEF NoDump, Partial

LEMMA SomeHeightIn == SomeHeight \in Heights
BY RingSizes DEF SomeHeight

LEMMA IdleType == Idle \in [busy : BOOLEAN, age : 0 .. Late, h : Heights]
BY SomeHeightIn, RingSizes DEF Idle

LEMMA TickType ==
  ASSUME RingTypeOK, NEW period \in BOOLEAN, NEW captured \in BOOLEAN,
         NEW h \in Heights, PipelineTick(period, captured, h)
  PROVE  RingTypeOK'
<1>1. PICK result \in IF enc.busy THEN EncodeResults(enc.age) ELSE {"none"} :
        LET wanted == IF captured THEN sig ELSE pending
            busy == result = "running"
            newHead == Published(result)
            starts == MayStart(busy, wanted) /\ ~RingFull(newHead - tail)
        IN /\ newHead <= MaxFrames
           /\ head' = newHead
           /\ pending' = IF MayStart(busy, wanted) THEN FALSE ELSE wanted
           /\ enc' = IF starts THEN [busy |-> TRUE, age |-> 0, h |-> h]
                     ELSE IF ~busy THEN Idle
                     ELSE [enc EXCEPT !.age = IF period THEN enc.age + 1 ELSE enc.age]
           /\ ring' = [s \in 0 .. Slots - 1 |->
                         IF starts /\ s = Slot(newHead) THEN Partial
                         ELSE IF result = "done" /\ s = Slot(head) THEN head
                         ELSE ring[s]]
           /\ height' = IF result = "done" THEN [height EXCEPT ![Slot(head)] = enc.h]
                        ELSE height
  BY DEF PipelineTick
<1>2. head' \in Nat
  BY <1>1 DEF RingTypeOK, Published
<1>3. pending' \in BOOLEAN
  BY <1>1 DEF RingTypeOK
<1>4. enc' \in [busy : BOOLEAN, age : 0 .. Late, h : Heights]
  <2>1. CASE enc' = [busy |-> TRUE, age |-> 0, h |-> h]
    BY <2>1, RingSizes
  <2>2. CASE enc' = Idle
    BY <2>2, IdleType
  <2>3. CASE /\ result = "running"
             /\ enc' = [enc EXCEPT !.age = IF period THEN enc.age + 1 ELSE enc.age]
    <3>1. enc.busy /\ ~(enc.age >= Late)
      BY <1>1, <2>3 DEF EncodeResults, Abandon
    <3> QED BY <2>3, <3>1, RingSizes DEF RingTypeOK
  <2> QED BY <1>1, <2>1, <2>2, <2>3
<1>5. ring' \in [0 .. Slots - 1 -> Int]
  BY <1>1 DEF RingTypeOK, Partial
<1>6. height' \in [0 .. Slots - 1 -> Heights]
  BY <1>1 DEF RingTypeOK
<1>7. UNCHANGED <<on, sig, frozen, pc, tail, dumped>>
  BY DEF PipelineTick, loopVars
<1> QED BY <1>2, <1>3, <1>4, <1>5, <1>6, <1>7 DEF RingTypeOK

LEMMA LoopType ==
  ASSUME RingTypeOK, MainLoop
  PROVE  RingTypeOK'
<1>1. CASE Console
  BY <1>1 DEF RingTypeOK, Console, ConsoleNothing, ConsoleToggle, ConsoleDump,
              producerVars
<1>2. CASE FreezeDone
  BY <1>2 DEF RingTypeOK, FreezeDone, producerVars, NoDump
<1>3. CASE DumpDone
  BY <1>3, Sentinels DEF RingTypeOK, DumpDone
<1>4. CASE Consume
  BY <1>4 DEF RingTypeOK, Consume, Deliver, Release, FramesDone, producerVars
<1>5. CASE PollDone
  BY <1>5 DEF RingTypeOK, PollDone, producerVars
<1> QED BY <1>1, <1>2, <1>3, <1>4, <1>5 DEF MainLoop

LEMMA InitType ==
  ASSUME RingInit
  PROVE  RingTypeOK
<1>1. /\ on \in BOOLEAN /\ sig \in BOOLEAN /\ pending \in BOOLEAN /\ frozen \in BOOLEAN
      /\ enc \in [busy : BOOLEAN, age : 0 .. Late, h : Heights]
  BY IdleType DEF RingInit
<1>2. ring \in [0 .. Slots - 1 -> Int]
  BY Sentinels DEF RingInit
<1>3. height \in [0 .. Slots - 1 -> Heights]
  BY SomeHeightIn DEF RingInit
<1>4. /\ head \in Nat /\ tail \in Nat /\ dumped \in Int
      /\ pc \in {"console", "freeze", "dump", "frames", "frame", "poll"}
  BY Sentinels DEF RingInit
<1> QED BY <1>1, <1>2, <1>3, <1>4 DEF RingTypeOK

(***************************************************************************)
(* The variables of pipeline.c keep their types; an encode in flight is    *)
(* never older than the time-out, whatever the signal does.                *)
(***************************************************************************)
THEOREM RingTypeCorrect == RingSpec => []RingTypeOK
<1>1. RingInit => RingTypeOK
  BY InitType
<1>2. RingTypeOK /\ [RingNext]_ringVars => RingTypeOK'
  <2> SUFFICES ASSUME RingTypeOK, [RingNext]_ringVars PROVE RingTypeOK'
    OBVIOUS
  <2>1. CASE Interrupt
    BY <2>1, TickType DEF Interrupt
  <2>2. CASE SignalChange
    BY <2>2 DEF SignalChange, RingTypeOK, loopVars
  <2>3. CASE MainLoop
    BY <2>3, LoopType
  <2>4. CASE UNCHANGED ringVars
    BY <2>4 DEF ringVars, RingTypeOK
  <2> QED BY <2>1, <2>2, <2>3, <2>4 DEF RingNext
<1> QED BY <1>1, <1>2, PTL DEF RingSpec

-----------------------------------------------------------------------------
(* What is in the ring *)

(***************************************************************************)
(* Neither DumpIntact nor SlotHeld is inductive.  An encode in flight      *)
(* needs room, or publishing it would overfill the ring; the newest        *)
(* picture stays in its slot after it was consumed, or a dump could begin  *)
(* with one that is gone; and a dump holds off every encode.               *)
(***************************************************************************)
RoomForEncode ==
  /\ tail <= head /\ head - tail <= Slots
  /\ enc.busy => head - tail < Slots

Filled == \A i \in Nat : tail <= i /\ i < head => ring[Slot(i)] = i

NewestKept == head > 0 => ring[Slot(head - 1)] = head - 1

LoopHolds ==
  /\ pc = "frame" => tail < head
  /\ pc = "freeze" => frozen
  /\ pc = "dump" => frozen /\ ~enc.busy
  /\ dumped # NoDump => pc = "dump" /\ head > 0 /\ dumped = head - 1

RingInv == RingTypeOK /\ RoomForEncode /\ Filled /\ NewestKept /\ LoopHolds

(***************************************************************************)
(* One call of pipeline_tick, cut down to what the invariant needs.        *)
(***************************************************************************)
LEMMA TickEffect ==
  ASSUME RingTypeOK, NEW period \in BOOLEAN, NEW captured \in BOOLEAN,
         NEW h \in Heights, PipelineTick(period, captured, h)
  PROVE  \E done, starts \in BOOLEAN :
           /\ done => enc.busy
           /\ head' = IF done THEN head + 1 ELSE head
           /\ starts => ~frozen /\ head' - tail < Slots
           /\ enc'.busy => starts \/ (enc.busy /\ ~done)
           /\ ring' = [s \in 0 .. Slots - 1 |->
                         IF starts /\ s = Slot(head') THEN Partial
                         ELSE IF done /\ s = Slot(head) THEN head
                         ELSE ring[s]]
<1>1. PICK result \in IF enc.busy THEN EncodeResults(enc.age) ELSE {"none"} :
        LET wanted == IF captured THEN sig ELSE pending
            busy == result = "running"
            newHead == Published(result)
            starts == MayStart(busy, wanted) /\ ~RingFull(newHead - tail)
        IN /\ head' = newHead
           /\ enc' = IF starts THEN [busy |-> TRUE, age |-> 0, h |-> h]
                     ELSE IF ~busy THEN Idle
                     ELSE [enc EXCEPT !.age = IF period THEN enc.age + 1 ELSE enc.age]
           /\ ring' = [s \in 0 .. Slots - 1 |->
                         IF starts /\ s = Slot(newHead) THEN Partial
                         ELSE IF result = "done" /\ s = Slot(head) THEN head
                         ELSE ring[s]]
  BY DEF PipelineTick
<1> DEFINE done == result = "done"
<1> DEFINE wanted == IF captured THEN sig ELSE pending
<1> DEFINE starts == /\ MayStart(result = "running", wanted)
                     /\ ~RingFull(Published(result) - tail)
<1>2. done => enc.busy
  BY <1>1
<1>3. head' = IF done THEN head + 1 ELSE head
  BY <1>1 DEF Published
<1>4. starts => ~frozen /\ head' - tail < Slots
  BY <1>1, <1>3, RingSizes DEF MayStart, RingFull, RingTypeOK
<1>5. enc'.busy => starts \/ (enc.busy /\ ~done)
  <2>1. CASE starts
    BY <2>1
  <2>2. CASE ~starts /\ result # "running"
    <3>1. enc' = Idle
      BY <1>1, <2>2
    <3> QED BY <3>1 DEF Idle
  <2>3. CASE result = "running"
    BY <1>1, <2>3
  <2> QED BY <2>1, <2>2, <2>3
<1>6. ring' = [s \in 0 .. Slots - 1 |->
                 IF starts /\ s = Slot(head') THEN Partial
                 ELSE IF done /\ s = Slot(head) THEN head
                 ELSE ring[s]]
  BY <1>1
<1>7. done \in BOOLEAN /\ starts \in BOOLEAN
  BY DEF MayStart
<1> HIDE DEF done, starts
<1> QED BY <1>2, <1>3, <1>4, <1>5, <1>6, <1>7

LEMMA TickInv ==
  ASSUME RingInv, NEW period \in BOOLEAN, NEW captured \in BOOLEAN,
         NEW h \in Heights, PipelineTick(period, captured, h)
  PROVE  RingInv'
<1>1. PICK done \in BOOLEAN, starts \in BOOLEAN :
        /\ done => enc.busy
        /\ head' = IF done THEN head + 1 ELSE head
        /\ starts => ~frozen /\ head' - tail < Slots
        /\ enc'.busy => starts \/ (enc.busy /\ ~done)
        /\ ring' = [s \in 0 .. Slots - 1 |->
                      IF starts /\ s = Slot(head') THEN Partial
                      ELSE IF done /\ s = Slot(head) THEN head
                      ELSE ring[s]]
  BY TickEffect DEF RingInv
<1>2. UNCHANGED <<on, sig, frozen, pc, tail, dumped>>
  BY DEF PipelineTick, loopVars
<1>3. head \in Nat /\ tail \in Nat /\ Slots \in Nat /\ Slots > 1
  BY RingSizes DEF RingInv, RingTypeOK
<1>4. RingTypeOK'
  BY TickType DEF RingInv
<1>5. RoomForEncode'
  BY <1>1, <1>2, <1>3 DEF RingInv, RoomForEncode
<1>6. ASSUME NEW i \in Nat, i < head', head' - i <= Slots,
             i = head \/ ring[Slot(i)] = i, starts => head' - i < Slots,
             i = head => done
      PROVE  ring'[Slot(i)] = i
  <2>1. Slot(i) \in 0 .. Slots - 1
    BY SlotInRing
  <2>2. ~(starts /\ Slot(i) = Slot(head'))
    BY <1>1, <1>3, <1>6, SlotsDiffer
  <2>3. CASE i = head
    BY <1>1, <1>6, <2>1, <2>2, <2>3
  <2>4. CASE i # head
    <3>1. done => i < head /\ head - i < Slots
      BY <1>1, <1>3, <1>6, <2>4
    <3>2. ~(done /\ Slot(i) = Slot(head))
      BY <1>3, <3>1, SlotsDiffer
    <3> QED BY <1>1, <1>6, <2>1, <2>2, <2>4, <3>2
  <2> QED BY <2>3, <2>4
<1>7. Filled'
  <2> SUFFICES ASSUME NEW i \in Nat, tail <= i, i < head'
               PROVE  ring'[Slot(i)] = i
    BY <1>2 DEF Filled
  <2>1. i = head \/ ring[Slot(i)] = i
    BY <1>1, <1>3 DEF RingInv, Filled
  <2>2. i = head => done
    BY <1>1, <1>3
  <2>3. head' - i <= Slots /\ (starts => head' - i < Slots)
    BY <1>1, <1>2, <1>3, <1>5 DEF RoomForEncode
  <2> QED BY <1>6, <2>1, <2>2, <2>3
<1>8. NewestKept'
  <2> SUFFICES ASSUME head' > 0 PROVE ring'[Slot(head' - 1)] = head' - 1
    BY DEF NewestKept
  <2> DEFINE i == head' - 1
  <2>1. i \in Nat /\ i < head' /\ head' - i <= Slots /\ head' - i < Slots
    BY <1>1, <1>3
  <2>2. (i = head \/ ring[Slot(i)] = i) /\ (i = head => done)
    BY <1>1, <1>3 DEF RingInv, NewestKept
  <2> HIDE DEF i
  <2>3. ring'[Slot(i)] = i
    BY <1>3, <1>6, <2>1, <2>2
  <2> QED BY <2>3 DEF i
<1>9. LoopHolds'
  <2>1. pc = "dump" => /\ frozen /\ ~enc.busy
                       /\ ~done /\ ~starts
    BY <1>1 DEF RingInv, LoopHolds
  <2>2. pc = "dump" => ~enc'.busy /\ head' = head
    BY <1>1, <2>1
  <2>3. pc = "frame" => tail < head'
    BY <1>1, <1>3 DEF RingInv, LoopHolds
  <2>4. dumped # NoDump => pc = "dump" /\ head > 0 /\ dumped = head - 1
    BY DEF RingInv, LoopHolds
  <2>5. pc = "freeze" => frozen
    BY DEF RingInv, LoopHolds
  <2> QED BY <1>2, <2>1, <2>2, <2>3, <2>4, <2>5 DEF LoopHolds
<1> QED BY <1>4, <1>5, <1>7, <1>8, <1>9 DEF RingInv

LEMMA LoopInv ==
  ASSUME RingInv, MainLoop
  PROVE  RingInv'
<1>1. RingTypeOK'
  BY LoopType DEF RingInv
<1>2. head \in Nat /\ tail \in Nat /\ Slots \in Nat
  BY RingSizes DEF RingInv, RingTypeOK
<1>3. UNCHANGED <<enc, head, ring>>
  BY DEF MainLoop, Console, ConsoleNothing, ConsoleToggle, ConsoleDump, FreezeDone,
         DumpDone, Consume, Deliver, Release, FramesDone, PollDone, producerVars
<1>4. (pc = "frame" /\ tail' = tail + 1) \/ tail' = tail
  BY DEF MainLoop, Console, ConsoleNothing, ConsoleToggle, ConsoleDump, FreezeDone,
         DumpDone, Consume, Deliver, Release, FramesDone, PollDone
<1>5. RoomForEncode'
  BY <1>2, <1>3, <1>4 DEF RingInv, RoomForEncode, LoopHolds
<1>6. Filled'
  BY <1>2, <1>3, <1>4 DEF RingInv, Filled
<1>7. NewestKept'
  BY <1>3 DEF RingInv, NewestKept
<1>8. LoopHolds'
  <2>1. CASE Console
    BY <2>1, <1>3 DEF RingInv, LoopHolds, Console, ConsoleNothing, ConsoleToggle,
                      ConsoleDump, producerVars
  <2>2. CASE FreezeDone
    BY <2>2, <1>2 DEF RingInv, LoopHolds, FreezeDone, producerVars
  <2>3. CASE DumpDone
    BY <2>3 DEF RingInv, LoopHolds, DumpDone
  <2>4. CASE Deliver
    BY <2>4, <1>2 DEF RingInv, LoopHolds, RoomForEncode, Deliver, HasFrame, producerVars
  <2>5. CASE Release \/ FramesDone \/ PollDone
    <3>1. pc' \notin {"frame", "freeze", "dump"} /\ dumped' = dumped /\ pc # "dump"
      BY <2>5 DEF Release, FramesDone, PollDone
    <3> QED BY <3>1 DEF RingInv, LoopHolds
  <2> QED BY <2>1, <2>2, <2>3, <2>4, <2>5 DEF MainLoop, Consume
<1> QED BY <1>1, <1>5, <1>6, <1>7, <1>8 DEF RingInv

LEMMA RingInvariant == RingSpec => []RingInv
<1>1. RingInit => RingInv
  <2> SUFFICES ASSUME RingInit PROVE RingInv
    OBVIOUS
  <2>1. RingTypeOK
    BY InitType
  <2>2. RoomForEncode
    BY RingSizes DEF RingInit, RoomForEncode, Idle
  <2>3. Filled /\ NewestKept
    BY DEF RingInit, Filled, NewestKept
  <2>4. LoopHolds
    BY DEF RingInit, LoopHolds
  <2> QED BY <2>1, <2>2, <2>3, <2>4 DEF RingInv
<1>2. RingInv /\ [RingNext]_ringVars => RingInv'
  <2> SUFFICES ASSUME RingInv, [RingNext]_ringVars PROVE RingInv'
    OBVIOUS
  <2>1. CASE Interrupt
    BY <2>1, TickInv DEF Interrupt
  <2>2. CASE SignalChange
    BY <2>2 DEF SignalChange, loopVars, RingInv, RingTypeOK, RoomForEncode, Filled,
                NewestKept, LoopHolds
  <2>3. CASE MainLoop
    BY <2>3, LoopInv
  <2>4. CASE UNCHANGED ringVars
    BY <2>4 DEF ringVars, RingInv, RingTypeOK, RoomForEncode, Filled, NewestKept,
                LoopHolds
  <2> QED BY <2>1, <2>2, <2>3, <2>4 DEF RingNext
<1> QED BY <1>1, <1>2, PTL DEF RingSpec

(***************************************************************************)
(* The slot a consumer works on holds its picture until it is released.    *)
(***************************************************************************)
THEOREM SlotStays == RingSpec => []SlotHeld
<1>1. RingInv => SlotHeld
  BY DEF RingInv, RingTypeOK, LoopHolds, Filled, SlotHeld
<1> QED BY <1>1, RingInvariant, PTL

(***************************************************************************)
(* What the console prints after pipeline_freeze is one picture.           *)
(***************************************************************************)
THEOREM DumpStays == RingSpec => []DumpIntact
<1>1. RingInv => DumpIntact
  BY DEF RingInv, LoopHolds, NewestKept, DumpIntact
<1> QED BY <1>1, RingInvariant, PTL

-----------------------------------------------------------------------------
(* The ring is a bounded queue *)

Numbers(t, h) == [k \in 1 .. h - t |-> t + k - 1]

LEMMA Positions ==
  ASSUME NEW t \in Nat, NEW h \in Nat, NEW k \in 1 .. h - t
  PROVE  t + k - 1 \in Nat /\ t <= t + k - 1 /\ t + k - 1 < h
OBVIOUS

LEMMA NumbersAppend ==
  ASSUME NEW t \in Nat, NEW h \in Nat, t <= h
  PROVE  Numbers(t, h + 1) = Append(Numbers(t, h), h) /\ Len(Numbers(t, h)) = h - t
BY DEF Numbers

LEMMA NumbersTail ==
  ASSUME NEW t \in Nat, NEW h \in Nat, t < h
  PROVE  Numbers(t, h) # << >> /\ Numbers(t + 1, h) = Tail(Numbers(t, h))
<1> DEFINE s == Numbers(t, h)
<1>1. s \in Seq(Nat) /\ Len(s) = h - t /\ h - t > 0
  BY DEF Numbers
<1>2. \A k \in 1 .. h - t : s[k] = t + k - 1
  BY DEF Numbers
<1> HIDE DEF s
<1>3. s # << >>
  BY <1>1
<1>4. /\ Tail(s) \in Seq(Nat) /\ Len(Tail(s)) = h - t - 1
      /\ \A k \in 1 .. h - t - 1 : Tail(s)[k] = s[k + 1]
  BY <1>1, <1>3, HeadTailProperties
<1>5. /\ Numbers(t + 1, h) \in Seq(Nat) /\ Len(Numbers(t + 1, h)) = h - t - 1
      /\ \A k \in 1 .. h - t - 1 : Numbers(t + 1, h)[k] = t + k
  <2>1. h - (t + 1) = h - t - 1 /\ h - t - 1 \in Nat
    OBVIOUS
  <2> QED BY <2>1 DEF Numbers
<1>6. \A k \in 1 .. h - t - 1 : Tail(s)[k] = t + k
  BY <1>2, <1>4
<1> DEFINE u == Tail(s)
<1> DEFINE v == Numbers(t + 1, h)
<1>7. /\ u \in Seq(Nat) /\ v \in Seq(Nat) /\ Len(v) = Len(u)
      /\ \A k \in 1 .. Len(v) : v[k] = u[k]
  BY <1>4, <1>5, <1>6
<1> HIDE DEF u, v
<1>8. v = u
  BY <1>7, SeqEqual
<1> QED BY <1>3, <1>8 DEF s, u, v

(***************************************************************************)
(* A call of pipeline_tick appends at most one picture, pipeline_consume    *)
(* takes the oldest, and nothing else touches what lies between.           *)
(***************************************************************************)
THEOREM RefinesQueue == RingSpec => QueueKept
<1>1. RingInit => Queue!Init
  BY DEF RingInit, Queue!Init, Occupied
<1>2. RingInv /\ RingInv' /\ [RingNext]_ringVars
        => [Queue!Put \/ Queue!Take]_<<Occupied, head>>
  <2> SUFFICES ASSUME RingInv, RingInv', [RingNext]_ringVars
               PROVE  Queue!Put \/ Queue!Take \/ UNCHANGED <<Occupied, head>>
    OBVIOUS
  <2>1. /\ Occupied = Numbers(tail, head)
        /\ Occupied' = Numbers(tail', head')
        /\ head \in Nat /\ tail \in Nat /\ tail <= head
        /\ head' \in Nat /\ head' - tail' <= Slots
    <3>1. /\ head \in Nat /\ tail \in Nat /\ tail <= head
          /\ head' \in Nat /\ tail' \in Nat /\ head' - tail' <= Slots
      BY DEF RingInv, RingTypeOK, RoomForEncode
    <3>2. Occupied = Numbers(tail, head)
      <4>1. ASSUME NEW k \in 1 .. head - tail
            PROVE  ring[Slot(tail + k - 1)] = tail + k - 1
        <5>1. /\ tail + k - 1 \in Nat
              /\ tail <= tail + k - 1 /\ tail + k - 1 < head
          BY <3>1, Positions
        <5> QED BY <5>1 DEF RingInv, Filled
      <4> QED BY <4>1 DEF Occupied, Numbers
    <3>3. Occupied' = Numbers(tail', head')
      <4>1. ASSUME NEW k \in 1 .. head' - tail'
            PROVE  ring'[Slot(tail' + k - 1)] = tail' + k - 1
        <5>1. /\ tail' + k - 1 \in Nat
              /\ tail' <= tail' + k - 1 /\ tail' + k - 1 < head'
          BY <3>1, Positions
        <5> QED BY <5>1 DEF RingInv, Filled
      <4> QED BY <4>1 DEF Occupied, Numbers
    <3> QED BY <3>1, <3>2, <3>3
  <2>2. \/ head' = head /\ tail' = tail
        \/ head' = head + 1 /\ tail' = tail
        \/ head' = head /\ tail' = tail + 1 /\ tail < head
    <3>1. CASE Interrupt
      <4>1. PICK period \in BOOLEAN, captured \in BOOLEAN, h \in Heights :
              PipelineTick(period, captured, h)
        BY <3>1 DEF Interrupt
      <4>2. head' = head + 1 \/ head' = head
        BY <4>1, TickEffect DEF RingInv
      <4>3. tail' = tail
        BY <4>1 DEF PipelineTick, loopVars
      <4> QED BY <4>2, <4>3
    <3>2. CASE MainLoop
      BY <3>2 DEF MainLoop, Console, ConsoleNothing, ConsoleToggle, ConsoleDump,
                  FreezeDone, DumpDone, Consume, Deliver, Release, FramesDone, PollDone,
                  producerVars, RingInv, LoopHolds
    <3>3. CASE SignalChange \/ UNCHANGED ringVars
      BY <3>3 DEF SignalChange, ringVars, loopVars
    <3> QED BY <3>1, <3>2, <3>3 DEF RingNext
  <2>3. CASE head' = head /\ tail' = tail
    BY <2>1, <2>3
  <2>4. CASE head' = head + 1 /\ tail' = tail
    <3>1. Len(Occupied) = head - tail /\ Occupied' = Append(Occupied, head)
      BY <2>1, <2>4, NumbersAppend
    <3>2. head - tail < Slots
      BY <2>1, <2>4, RingSizes
    <3> QED BY <2>4, <3>1, <3>2 DEF Queue!Put
  <2>5. CASE head' = head /\ tail' = tail + 1 /\ tail < head
    BY <2>1, <2>5, NumbersTail DEF Queue!Take
  <2> QED BY <2>2, <2>3, <2>4, <2>5
<1> QED BY <1>1, <1>2, RingInvariant, PTL DEF RingSpec, QueueKept, Queue!Spec
=============================================================================

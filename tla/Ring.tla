-------------------------------- MODULE Ring --------------------------------
(***************************************************************************)
(* The ring of encoded pictures of src/src/pipeline.c: one producer, the   *)
(* 1 kHz interrupt `pipeline_tick`, and one consumer, the main loop.       *)
(*                                                                         *)
(* The main loop is never interrupted by itself, the interrupt never by    *)
(* the main loop: a call of pipeline_tick is one step, and it may come     *)
(* between any two steps of the main loop.                                 *)
(*                                                                         *)
(* Simplifications:                                                        *)
(*  - a slot holds the number of the picture whose bits are in it, Partial *)
(*    from the start of an encode until it is done, for good if it fails;  *)
(*  - which capture buffer is pending is left out, only whether one is;    *)
(*  - the 32-bit head and tail are not followed to their wrap, 4.5 years   *)
(*    of uptime away: MaxFrames bounds them.                               *)
(***************************************************************************)
EXTENDS Integers

CONSTANTS
  Slots,       \* BSRING_SLOTS
  Late,        \* frame periods after which an encode is over 50 ms old
  MaxFrames,   \* bound: pictures encoded in one behaviour
  Heights,     \* heights in lines a picture may be encoded at
  Inputs       \* what may happen, out of RingInputs

RingInputs == {"signal", "toggle", "dump"}

ASSUME RingSizes ==
  /\ Slots \in Nat \ {0, 1}
  /\ Late \in Nat \ {0}
  /\ MaxFrames \in Nat
  /\ Heights # {}

NoDump == -1
Partial == -1

VARIABLES
  on,        \* pipeline.c on
  sig,       \* capture_signal_ok
  pending,   \* enc_pending >= 0
  enc,       \* the encode in flight: enc_busy, frame periods since enc_start_t, enc_h
  frozen,    \* pipeline.c frozen
  head,      \* pictures published
  tail,      \* pictures consumed
  ring,      \* the picture in each slot
  height,    \* slot_h
  pc,        \* where the main loop is
  dumped     \* the picture the console is printing, or NoDump

producerVars == <<on, sig, pending, enc, frozen, head, ring, height>>
loopVars == <<pc, tail, dumped>>
ringVars == <<on, sig, pending, enc, frozen, head, tail, ring, height,
             pc, dumped>>

SomeHeight == CHOOSE h \in Heights : TRUE
Idle == [busy |-> FALSE, age |-> 0, h |-> SomeHeight]
Slot(n) == n % Slots

RingTypeOK ==
  /\ on \in BOOLEAN /\ sig \in BOOLEAN
  /\ pending \in BOOLEAN /\ frozen \in BOOLEAN
  /\ enc \in [busy : BOOLEAN, age : 0 .. Late, h : Heights]
  /\ head \in Nat /\ tail \in Nat
  /\ ring \in [0 .. Slots - 1 -> Int]
  /\ height \in [0 .. Slots - 1 -> Heights]
  /\ pc \in {"console", "freeze", "dump", "frames", "frame", "poll"}
  /\ dumped \in Int

RingInit ==
  /\ on = TRUE
  /\ sig \in BOOLEAN
  /\ pending = FALSE
  /\ enc = Idle
  /\ frozen = FALSE
  /\ head = 0 /\ tail = 0
  /\ ring = [s \in 0 .. Slots - 1 |-> Partial]
  /\ height = [s \in 0 .. Slots - 1 |-> SomeHeight]
  /\ pc = "console"
  /\ dumped = NoDump

-----------------------------------------------------------------------------
(* The producer, in the 1 kHz interrupt *)

\* Mutant: a failed or abandoned encode is published like a good one.
Published_Always(result) ==
  IF result \in {"none", "running"} THEN head ELSE head + 1
Published(result) == IF result = "done" THEN head + 1 ELSE head

\* Mutant: an encode that hangs is never abandoned.
Abandon_Never(late) == FALSE
Abandon(late) == late

(***************************************************************************)
(* vejpeg_poll_done while an encode is in flight: it is done, it failed,   *)
(* or it still runs; one that has run too long is aborted.                 *)
(***************************************************************************)
EncodeResults(age) ==
  {"done", "failed"} \cup (IF Abandon(age >= Late) THEN {"timeout"} ELSE {"running"})

\* Mutant: one picture more than the ring holds.
RingFull_Late(depth) == depth > Slots
RingFull(depth) == depth >= Slots

\* Mutant: an encode starts although the pipeline is frozen.
MayStart_Frozen(busy, wanted) == ~busy /\ wanted
MayStart(busy, wanted) == ~busy /\ ~frozen /\ wanted

(***************************************************************************)
(* One call of pipeline_tick.  `period`: a frame period ended since the    *)
(* last call; `captured`: capture_tick completed a buffer; `h`: the height  *)
(* an encode that starts is made to.  The parts come in the order of the   *)
(* code, so that a call may publish one picture and start the next.        *)
(***************************************************************************)
PipelineTick(period, captured, h) ==
  /\ captured => period
  /\ on  \* otherwise the call returns at once
  /\ \E result \in IF enc.busy THEN EncodeResults(enc.age) ELSE {"none"} :
       LET wanted == IF captured THEN sig ELSE pending
           busy == result = "running"
           newHead == Published(result)
           starts == MayStart(busy, wanted) /\ ~RingFull(newHead - tail)
       IN /\ newHead <= MaxFrames
          /\ head' = newHead
          /\ pending' = IF MayStart(busy, wanted) THEN FALSE ELSE wanted
          /\ enc' = IF starts THEN [busy |-> TRUE, age |-> 0, h |-> h]
                    ELSE IF ~busy THEN Idle
                    ELSE [enc EXCEPT !.age = IF period THEN enc.age + 1 ELSE enc.age]
          /\ ring' = [s \in 0 .. Slots - 1 |->
                        IF starts /\ s = Slot(newHead) THEN Partial
                        ELSE IF result = "done" /\ s = Slot(head) THEN head
                        ELSE ring[s]]
          /\ height' = IF result = "done" THEN [height EXCEPT ![Slot(head)] = enc.h]
                       ELSE height
  /\ UNCHANGED <<on, sig, frozen, loopVars>>

SignalChange ==
  /\ "signal" \in Inputs
  /\ sig' = ~sig
  /\ UNCHANGED <<on, pending, enc, frozen, head, ring, height, loopVars>>

-----------------------------------------------------------------------------
(* The consumer, in the main loop *)

ConsoleNothing ==
  /\ pc = "console"
  /\ pc' = "frames"
  /\ UNCHANGED <<producerVars, tail, dumped>>

\* ':c'
ConsoleToggle ==
  /\ "toggle" \in Inputs
  /\ pc = "console"
  /\ on' = ~on
  /\ pc' = "frames"
  /\ UNCHANGED <<sig, pending, enc, frozen, head, ring, height, tail,
                 dumped>>

\* Mutant: the dump does not look whether the pipeline runs.
MayDump_Always == TRUE
MayDump == on

\* ':j' prints the newest picture: pipeline_freeze(1) first.
ConsoleDump ==
  /\ "dump" \in Inputs
  /\ pc = "console"
  /\ MayDump
  /\ frozen' = TRUE
  /\ pc' = "freeze"
  /\ UNCHANGED <<on, sig, pending, enc, head, ring, height, tail,
                 dumped>>

\* The spin of pipeline_freeze ends; pipeline_last names the newest slot.
FreezeDone ==
  /\ pc = "freeze"
  /\ ~enc.busy
  /\ pc' = "dump"
  /\ dumped' = IF head = 0 THEN NoDump ELSE head - 1
  /\ UNCHANGED <<producerVars, tail>>

DumpDone ==
  /\ pc = "dump"
  /\ frozen' = FALSE
  /\ dumped' = NoDump
  /\ pc' = "frames"
  /\ UNCHANGED <<on, sig, pending, enc, head, ring, height, tail>>

\* Mutant: the newest picture waits for the one after it.
HasFrame_KeepsOne == head - tail > 1
HasFrame == tail # head

\* pipeline_consume hands the oldest slot to its two callbacks ...
Deliver ==
  /\ pc = "frames"
  /\ HasFrame
  /\ pc' = "frame"
  /\ UNCHANGED <<producerVars, tail, dumped>>

\* ... and frees it when they have returned.
Release ==
  /\ pc = "frame"
  /\ tail' = tail + 1
  /\ pc' = "frames"
  /\ UNCHANGED <<producerVars, dumped>>

FramesDone ==
  /\ pc = "frames"
  /\ ~HasFrame
  /\ pc' = "poll"
  /\ UNCHANGED <<producerVars, tail, dumped>>

\* The rest of the pass.
PollDone ==
  /\ pc = "poll"
  /\ pc' = "console"
  /\ UNCHANGED <<producerVars, tail, dumped>>

Console == ConsoleNothing \/ ConsoleToggle \/ ConsoleDump
Consume == Deliver \/ Release \/ FramesDone
MainLoop == Console \/ FreezeDone \/ DumpDone \/ Consume \/ PollDone

Interrupt ==
  \E period, captured \in BOOLEAN, h \in Heights : PipelineTick(period, captured, h)

RingNext == Interrupt \/ SignalChange \/ MainLoop

RingSpec == RingInit /\ [][RingNext]_ringVars

(***************************************************************************)
(* The interrupt keeps coming, frame periods keep ending, and the loop     *)
(* goes on.  A bounded behaviour may run out of picture numbers; a failing *)
(* encode needs none.                                                      *)
(***************************************************************************)
FairRing ==
  /\ RingSpec
  /\ WF_ringVars(\E captured \in BOOLEAN, h \in Heights : PipelineTick(TRUE, captured, h))
  /\ WF_ringVars(ConsoleNothing \/ FreezeDone \/ DumpDone \/ Consume \/ PollDone)

-----------------------------------------------------------------------------
(***************************************************************************)
(* The pictures between tail and head are, in order, a bounded queue: no   *)
(* start of an encode touches one of them, none is lost, repeated or       *)
(* handed out before its bits are complete.                                *)
(***************************************************************************)
Occupied == [k \in 1 .. head - tail |-> ring[Slot(tail + k - 1)]]
Queue == INSTANCE FrameQueue WITH queue <- Occupied, next <- head, Capacity <- Slots
QueueKept == Queue!Spec

\* The picture on the console is the same from its first line to its last.
DumpIntact == dumped # NoDump => ring[Slot(dumped)] = dumped

\* The callbacks' slot does not change under them.
SlotHeld == pc = "frame" => tail < head /\ ring[Slot(tail)] = tail

\* Every picture that was encoded reaches the consumers.
AllConsumed == \A n \in 1 .. MaxFrames : head >= n ~> tail >= n

\* pipeline_freeze returns, though it spins on a flag only the interrupt clears.
FreezeReturns == pc = "freeze" ~> pc # "freeze"
=============================================================================

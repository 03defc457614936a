---------------------------- MODULE CameraProofs ----------------------------
(***************************************************************************)
(* Theorems about Camera, for every value of its constants and every host. *)
(***************************************************************************)
EXTENDS Camera, RingProofs

(***************************************************************************)
(* FlightAccounted is not inductive: the pump reads busy and need_flush,   *)
(* and starts its transfer two steps later.  In between the host may open  *)
(* a session, or reset the bus and configure the board again, so each      *)
(* place of the pump has to remember what it has seen.                     *)
(***************************************************************************)
Known == busy \/ need_flush

FlightInv ==
  /\ streaming /\ flight # NoFlight => Known
  /\ at = "ready" /\ flight # NoFlight => Known
  /\ at \in {"queue", "write", "giveup"} => flight = NoFlight
  /\ at = "write" /\ streaming => Known

\* What an earlier session left is there only while a flush is owed.
StaleInv == flight.stale => need_flush

LEMMA NoFlightFresh == NoFlight.stale = FALSE
BY DEF NoFlight

-----------------------------------------------------------------------------
(* Steps that leave the transfer and the session alone *)

Untouched == UNCHANGED <<streaming, busy, need_flush, flight>>

LEMMA QuietSteps ==
  ASSUME FlightInv, StaleInv, Untouched,
         at' = at \/ at' \in {"rest", "gate", "done"} \/ (at' = "ready" /\ streaming)
  PROVE  FlightInv' /\ StaleInv'
BY DEF FlightInv, StaleInv, Untouched, Known

LEMMA LoopQuiet ==
  ASSUME PassBegins \/ Dump \/ FrameBegins \/ FrameEnds \/ NoMoreFrames \/ PassEnds
         \/ Gate \/ Poll
  PROVE  /\ Untouched
         /\ at' = at \/ at' \in {"rest", "gate", "done"} \/ (at' = "ready" /\ streaming)
<1>1. CASE PassBegins \/ Dump \/ FrameBegins \/ FrameEnds \/ NoMoreFrames \/ PassEnds
  BY <1>1 DEF PassBegins, Dump, FrameBegins, FrameEnds, NoMoreFrames, PassEnds,
              Untouched, sessionVars, camVars, Goto
<1>2. CASE Gate
  BY <1>2 DEF Gate, Untouched, sessionVars, Goto
<1>3. CASE Poll
  BY <1>3 DEF Poll, Untouched, sessionVars, Goto
<1> QED BY <1>1, <1>2, <1>3

LEMMA WorldQuiet ==
  ASSUME \/ \E period, captured \in BOOLEAN : Encoder(period, captured)
         \/ TimeOff \/ InputChange \/ HostConfigures
         \/ SignalChange /\ UNCHANGED camVars
  PROVE  Untouched /\ at' = at
BY DEF Encoder, TimeOff, InputChange, HostConfigures, Untouched, sessionVars, camVars

-----------------------------------------------------------------------------
(* The host *)

LEMMA HostStep ==
  ASSUME FlightInv, StaleInv, HostOpens \/ HostCollects \/ HostResets
  PROVE  FlightInv' /\ StaleInv'
<1>1. CASE HostOpens
  <2>1. need_flush' /\ at' = at /\ (flight = NoFlight => flight' = NoFlight)
    BY <1>1 DEF HostOpens, FlushOwed
  <2> QED BY <2>1 DEF FlightInv, StaleInv, Known
<1>2. CASE HostCollects \/ HostResets
  <2>1. flight' = NoFlight /\ at' = at /\ need_flush' = need_flush
    BY <1>2 DEF HostCollects, HostResets
  <2>2. at = "write" /\ streaming' => Known'
    BY <1>2 DEF HostCollects, HostResets, FlightInv, Known
  <2> QED BY <2>1, <2>2, NoFlightFresh DEF FlightInv, StaleInv
<1> QED BY <1>1, <1>2

-----------------------------------------------------------------------------
(* The pump *)

LEMMA PumpStep ==
  ASSUME FlightInv, StaleInv, Ready \/ GiveUp \/ SendFrame \/ Write
  PROVE  FlightInv' /\ StaleInv'
<1>1. CASE Ready
  <2>1. CASE need_flush
    <3>1. flight' = NoFlight /\ at' = "queue"
      BY <1>1, <2>1 DEF Ready, Flush, Goto
    <3> QED BY <3>1, NoFlightFresh DEF FlightInv, StaleInv
  <2>2. CASE ~need_flush /\ ~busy
    <3>1. flight = NoFlight /\ flight' = flight /\ at' = "queue"
      BY <1>1, <2>2 DEF Ready, Goto, FlightInv, Known
    <3> QED BY <3>1, NoFlightFresh DEF FlightInv, StaleInv
  <2>3. CASE ~need_flush /\ busy /\ ~Stalled
    <3>1. at' = "done" /\ Untouched
      BY <1>1, <2>3 DEF Ready, Goto, Untouched
    <3> QED BY <3>1, QuietSteps
  <2>4. CASE ~need_flush /\ busy /\ Stalled
    <3>1. flight' = NoFlight /\ at' \in {"giveup", "done"}
      BY <1>1, <2>4 DEF Ready, Flush, Goto
    <3> QED BY <3>1, NoFlightFresh DEF FlightInv, StaleInv
  <2> QED BY <2>1, <2>2, <2>3, <2>4
<1>2. CASE GiveUp
  BY <1>2 DEF GiveUp, Goto, FlightInv, StaleInv
<1>3. CASE SendFrame
  BY <1>3 DEF SendFrame, Goto, FlightInv, StaleInv, Known
<1>4. CASE Write
  <2>1. flight = NoFlight /\ at = "write" /\ at' = "done" /\ need_flush' = need_flush
        /\ streaming' = streaming
    BY <1>4 DEF Write, Goto, FlightInv
  <2>2. CASE configured
    <3>1. busy' = busy /\ flight' = [NoFlight EXCEPT !.pic = last.pic,
                                                     !.repeat = pc = "poll"]
      BY <1>4, <2>1, <2>2 DEF Write
    <3>2. flight'.stale = FALSE
      BY <3>1 DEF NoFlight
    <3> QED BY <2>1, <3>1, <3>2 DEF FlightInv, StaleInv, Known
  <2>3. CASE ~configured
    <3>1. flight' = NoFlight
      BY <1>4, <2>1, <2>3 DEF Write
    <3> QED BY <2>1, <3>1, NoFlightFresh DEF FlightInv, StaleInv
  <2> QED BY <2>2, <2>3
<1> QED BY <1>1, <1>2, <1>3, <1>4

-----------------------------------------------------------------------------
LEMMA FlightInvariant == Spec => [](FlightInv /\ StaleInv)
<1>1. Init => FlightInv /\ StaleInv
  BY NoFlightFresh DEF Init, FlightInv, StaleInv
<1>2. FlightInv /\ StaleInv /\ [Next]_vars => FlightInv' /\ StaleInv'
  <2> SUFFICES ASSUME FlightInv, StaleInv, [Next]_vars
               PROVE  FlightInv' /\ StaleInv'
    OBVIOUS
  <2>1. CASE Loop
    BY <2>1, LoopQuiet, QuietSteps, PumpStep DEF Loop, Pump
  <2>2. CASE World
    <3>1. CASE HostOpens \/ HostCollects \/ HostResets
      BY <3>1, HostStep
    <3>2. CASE ~(HostOpens \/ HostCollects \/ HostResets)
      <4>1. Untouched /\ at' = at
        BY <2>2, <3>2, WorldQuiet DEF World, Host
      <4> QED BY <4>1, QuietSteps
    <3> QED BY <3>1, <3>2
  <2>3. CASE UNCHANGED vars
    BY <2>3, QuietSteps DEF vars, camVars, sessionVars, Untouched
  <2> QED BY <2>1, <2>2, <2>3 DEF Next
<1> QED BY <1>1, <1>2, PTL DEF Spec

(***************************************************************************)
(* While streaming, the pump of usbuvc.c knows of every transfer that is   *)
(* in the endpoint, whatever the host does between two of its steps.       *)
(***************************************************************************)
THEOREM FlightsKnown == Spec => []FlightAccounted
<1>1. FlightInv => FlightAccounted
  BY DEF FlightInv, Known, FlightAccounted
<1> QED BY <1>1, FlightInvariant, PTL

(***************************************************************************)
(* A host reads a picture of an earlier session only before the flush its  *)
(* own session has asked for.                                              *)
(***************************************************************************)
THEOREM StaleInWindow == Spec => StaleOnlyBeforeFlush
<1>1. StaleInv /\ [Next]_vars => [Collects /\ flight.stale => need_flush]_vars
  BY DEF StaleInv
<1> QED BY <1>1, FlightInvariant, PTL DEF Spec, StaleOnlyBeforeFlush

-----------------------------------------------------------------------------
(* The ring under the camera *)

LEMMA HeightsMade == EncodeHeight \in Heights
BY CameraSizes DEF EncodeHeight, AdvHeight, Lines

LEMMA CameraRingStep ==
  ASSUME [Next]_vars
  PROVE  \/ \E period, captured \in BOOLEAN : PipelineTick(period, captured, EncodeHeight)
         \/ SignalChange \/ MainLoop \/ UNCHANGED ringVars
<1>1. CASE Loop
  <2>1. CASE PassBegins \/ Dump \/ FrameBegins \/ FrameEnds \/ NoMoreFrames \/ PassEnds
    BY <2>1 DEF PassBegins, Dump, FrameBegins, FrameEnds, NoMoreFrames, PassEnds, MainLoop,
                Consume
  <2>2. CASE Pump
    BY <2>2 DEF Pump, Gate, Poll, Ready, GiveUp, SendFrame, Write
  <2> QED BY <1>1, <2>1, <2>2 DEF Loop
<1>2. CASE World
  <2>1. CASE \E period, captured \in BOOLEAN : Encoder(period, captured)
    BY <2>1 DEF Encoder
  <2>2. CASE TimeOff \/ InputChange \/ SignalChange
    BY <2>2 DEF TimeOff, InputChange
  <2>3. CASE Host
    BY <2>3 DEF Host, HostConfigures, HostOpens, HostCollects, HostResets
  <2> QED BY <1>2, <2>1, <2>2, <2>3 DEF World
<1>3. CASE UNCHANGED vars
  BY <1>3 DEF vars
<1> QED BY <1>1, <1>2, <1>3 DEF Next

(***************************************************************************)
(* The USB camera uses the ring as pipeline.c means it to be used, so that *)
(* everything proved of the ring holds under the camera.                   *)
(***************************************************************************)
THEOREM CameraKeepsRing == Spec => RingSpec
<1>1. Init => RingInit
  BY DEF Init
<1>2. [Next]_vars => [RingNext]_ringVars
  BY CameraRingStep, HeightsMade DEF RingNext, Interrupt
<1> QED BY <1>1, <1>2, PTL DEF Spec, RingSpec

LEMMA CameraRing == Spec => []RingInv
BY CameraKeepsRing, RingInvariant, PTL

-----------------------------------------------------------------------------
(* What the host reads *)

(***************************************************************************)
(* A picture is of the height on offer for as long as it is in its slot;   *)
(* once the slot was given to another one it never comes back.             *)
(***************************************************************************)
Good(pic) ==
  /\ pic \in Nat /\ pic < head
  /\ ring[Slot(pic)] = pic => height[Slot(pic)] = AdvHeight

(***************************************************************************)
(* HeightAsOffered is not inductive: the height is looked at once, when    *)
(* the picture comes out of the ring, and the picture goes out several     *)
(* steps later or, as a repeat, several passes later.                      *)
(***************************************************************************)
HeightInv ==
  /\ flight # NoFlight => Good(flight.pic)
  /\ last.valid \/ at = "write" => Good(last.pic)
  /\ at = "gate" => pc = "frame"
  /\ at \in {"ready", "queue"} =>
       (pc = "frame" /\ Good(tail)) \/ (pc = "poll" /\ last.valid)
  /\ at # "rest" => pc \in {"frame", "poll"}

LEMMA GoodStays ==
  ASSUME RingInv, [Next]_vars, NEW p, Good(p)
  PROVE  Good(p)'
<1>1. /\ ring \in [0 .. Slots - 1 -> Int] /\ height \in [0 .. Slots - 1 -> Heights]
      /\ head \in Nat /\ Slot(p) \in 0 .. Slots - 1 /\ p \in Nat /\ p < head
  BY SlotInRing DEF RingInv, RingTypeOK, Good
<1>2. CASE \E period, captured \in BOOLEAN : PipelineTick(period, captured, EncodeHeight)
  <2>1. PICK result :
          /\ head' = Published(result)
          /\ height' = IF result = "done" THEN [height EXCEPT ![Slot(head)] = enc.h] ELSE height
          /\ \E starts \in BOOLEAN :
               ring' = [s \in 0 .. Slots - 1 |->
                         IF starts /\ s = Slot(head') THEN Partial
                         ELSE IF result = "done" /\ s = Slot(head) THEN head
                         ELSE ring[s]]
    <3>1. PICK period \in BOOLEAN, captured \in BOOLEAN : PipelineTick(period, captured, EncodeHeight)
      BY <1>2
    <3> HIDE DEF MayStart, RingFull, Published
    <3>2. PICK result :
            LET wanted == IF captured THEN sig ELSE pending
                newHead == Published(result)
                starts == MayStart(result = "running", wanted) /\ ~RingFull(newHead - tail)
            IN  /\ head' = newHead
                /\ height' = IF result = "done" THEN [height EXCEPT ![Slot(head)] = enc.h] ELSE height
                /\ ring' = [s \in 0 .. Slots - 1 |->
                              IF starts /\ s = Slot(newHead) THEN Partial
                              ELSE IF result = "done" /\ s = Slot(head) THEN head
                              ELSE ring[s]]
      BY <3>1 DEF PipelineTick
    <3> DEFINE starts == MayStart(result = "running", IF captured THEN sig ELSE pending)
                         /\ ~RingFull(Published(result) - tail)
    <3>3. starts \in BOOLEAN
      OBVIOUS
    <3>4. /\ head' = Published(result)
          /\ ring' = [s \in 0 .. Slots - 1 |->
                        IF starts /\ s = Slot(head') THEN Partial
                        ELSE IF result = "done" /\ s = Slot(head) THEN head
                        ELSE ring[s]]
      BY <3>2
    <3> HIDE DEF starts
    <3> QED BY <3>2, <3>3, <3>4
  <2>2. head' \in Nat /\ p < head'
    BY <1>1, <2>1 DEF Published
  <2>3. ring'[Slot(p)] \in {Partial, head, ring[Slot(p)]} /\ Partial # p /\ head # p
    BY <1>1, <2>1 DEF Partial
  <2>4. result = "done" /\ Slot(head) = Slot(p) => ring'[Slot(p)] \in {Partial, head}
    BY <1>1, <2>1
  <2>5. ~(result = "done" /\ Slot(head) = Slot(p)) => height'[Slot(p)] = height[Slot(p)]
    BY <1>1, <2>1
  <2> QED BY <1>1, <2>2, <2>3, <2>4, <2>5 DEF Good
<1>3. CASE SignalChange \/ MainLoop \/ UNCHANGED ringVars
  <2>1. UNCHANGED <<head, ring, height>>
    BY <1>3 DEF SignalChange, MainLoop, Console, ConsoleNothing, ConsoleToggle, ConsoleDump,
         FreezeDone, DumpDone, Consume, Deliver, Release, FramesDone, PollDone, producerVars,
         ringVars
  <2> QED BY <2>1 DEF Good
<1> QED BY <1>2, <1>3, CameraRingStep

LEMMA LastGone == Gone => ~last'.valid
BY DEF Gone

LEMMA HeightStep ==
  ASSUME RingInv, HeightInv, [Next]_vars
  PROVE  HeightInv'
<1> USE DEF Goto
<1>1. \A p : Good(p) => Good(p)'
  BY GoodStays
<1>9. /\ Good(tail) /\ tail' = tail => Good(tail)'
      /\ Good(last.pic) /\ last' = last => Good(last.pic)'
      /\ Good(flight.pic) /\ flight' = flight => Good(flight.pic)'
      /\ Good(last.pic) /\ flight'.pic = last.pic => Good(flight.pic)'
      /\ Good(flight.pic) /\ flight'.pic = flight.pic => Good(flight.pic)'
      /\ Good(tail) /\ last'.pic = tail => Good(last.pic)'
  BY <1>1 DEF Good
<1>2. CASE \/ \E period, captured \in BOOLEAN : Encoder(period, captured)
           \/ TimeOff \/ InputChange \/ HostConfigures \/ UNCHANGED vars
           \/ SignalChange /\ UNCHANGED camVars
  <2>1. UNCHANGED <<flight, last, at, pc, tail>>
    BY <1>2 DEF Encoder, PipelineTick, TimeOff, InputChange, HostConfigures, SignalChange,
         camVars, repeatVars, loopVars, ringVars, vars
  <2> QED BY <1>9, <2>1 DEF HeightInv
<1>3. CASE HostOpens \/ HostCollects \/ HostResets
  <2>1. UNCHANGED <<last, at, pc, tail>>
    BY <1>3 DEF HostOpens, HostCollects, HostResets, repeatVars, ringVars
  <2>2. flight' # NoFlight => flight # NoFlight /\ Good(flight.pic) /\ flight'.pic = flight.pic
    <3>1. CASE HostOpens
      <4>1. PICK orphan : flight' = IF flight = NoFlight THEN flight
                                   ELSE [flight EXCEPT !.stale = TRUE, !.orphan = @ \/ orphan]
        BY <3>1 DEF HostOpens
      <4>2. flight # NoFlight => flight'.pic = flight.pic
        BY <4>1
      <4> QED BY <4>1, <4>2 DEF HeightInv
    <3>2. CASE HostCollects \/ HostResets
      BY <3>2 DEF HostCollects, HostResets
    <3> QED BY <1>3, <3>1, <3>2
  <2>3. flight' # NoFlight => Good(flight.pic)'
    BY <1>9, <2>2
  <2> QED BY <1>9, <2>1, <2>3 DEF HeightInv
<1>4. CASE PassBegins \/ Dump \/ FrameBegins \/ FrameEnds \/ NoMoreFrames \/ PassEnds
  <2>1. UNCHANGED <<flight, last>>
    BY <1>4 DEF PassBegins, Dump, FrameBegins, FrameEnds, NoMoreFrames, PassEnds, camVars,
         repeatVars
  <2>2. CASE PassBegins \/ Dump \/ NoMoreFrames
    <3>1. pc \in {"console", "freeze", "dump", "frames"} /\ at' = at
      BY <2>2 DEF PassBegins, Dump, NoMoreFrames, Console, ConsoleNothing, ConsoleToggle,
           ConsoleDump, FreezeDone, DumpDone, FramesDone, camVars
    <3>2. at' = "rest"
      BY <3>1 DEF HeightInv
    <3> QED BY <1>9, <2>1, <3>2 DEF HeightInv
  <2>3. CASE FrameBegins
    BY <1>9, <2>1, <2>3 DEF HeightInv, FrameBegins, Deliver
  <2>4. CASE FrameEnds \/ PassEnds
    <3>1. at' = "rest"
      BY <2>4 DEF FrameEnds, PassEnds
    <3> QED BY <1>9, <2>1, <3>1 DEF HeightInv
  <2> QED BY <1>4, <2>2, <2>3, <2>4
<1>5. CASE Gate \/ Poll
  <2>1. UNCHANGED <<flight, pc, tail>> /\ (last' = last \/ (~last'.valid /\ at' = "done"))
    BY <1>5, LastGone DEF Gate, Poll, ringVars, repeatVars
  <2>2. CASE Gate
    <3>1. at = "gate" /\ pc = "frame"
      BY <2>2 DEF Gate, HeightInv
    <3>2. at' = "done" \/ (at' = "ready" /\ Fits(tail))
      BY <2>2 DEF Gate
    <3>3. tail \in Nat /\ tail < head
      BY <3>1 DEF RingInv, RingTypeOK, LoopHolds
    <3>4. at' = "ready" => Good(tail)'
      <4>1. at' = "ready" => Good(tail)
        BY <3>2, <3>3 DEF Good, Fits
      <4> QED BY <1>9, <2>1, <4>1
    <3> QED BY <1>9, <2>1, <3>1, <3>2, <3>4 DEF HeightInv
  <2>3. CASE Poll
    <3>1. pc = "poll" /\ at = "rest" /\ (at' = "done" \/ (at' = "ready" /\ last.valid /\ last' = last))
      BY <2>3 DEF Poll
    <3> QED BY <1>9, <2>1, <3>1 DEF HeightInv
  <2> QED BY <1>5, <2>2, <2>3
<1>6. CASE Ready \/ GiveUp
  <2>1. UNCHANGED <<last, pc, tail>>
    BY <1>6 DEF Ready, GiveUp, ringVars, repeatVars
  <2>2. flight' = flight \/ flight' = NoFlight
    BY <1>6 DEF Ready, GiveUp, Flush
  <2>3. CASE Ready
    <3>1. at = "ready" /\ at' \in {"queue", "done", "giveup"}
      BY <2>3 DEF Ready
    <3> QED BY <1>9, <2>1, <2>2, <3>1 DEF HeightInv
  <2>4. CASE GiveUp
    <3>1. at = "giveup" /\ at' = "done"
      BY <2>4 DEF GiveUp
    <3> QED BY <1>9, <2>1, <2>2, <3>1 DEF HeightInv
  <2> QED BY <1>6, <2>3, <2>4
<1>7. CASE SendFrame
  <2>1. at = "queue" /\ at' = "write" /\ UNCHANGED <<flight, pc, tail>>
    BY <1>7 DEF SendFrame, ringVars
  <2>2. Good(last.pic)'
    <3>1. CASE pc = "frame"
      <4>1. last' = [valid |-> TRUE, pic |-> tail]
        BY <1>7, <3>1 DEF SendFrame
      <4>2. Good(tail)
        BY <2>1, <3>1 DEF HeightInv
      <4> QED BY <1>9, <4>1, <4>2
    <3>2. CASE pc # "frame"
      BY <1>9, <1>7, <2>1, <3>2 DEF HeightInv, SendFrame
    <3> QED BY <3>1, <3>2
  <2> QED BY <1>9, <2>1, <2>2 DEF HeightInv
<1>8. CASE Write
  <2>1. at = "write" /\ at' = "done" /\ UNCHANGED <<last, pc, tail>>
    BY <1>8 DEF Write, ringVars, repeatVars
  <2>2. flight' # NoFlight => Good(flight.pic)'
    <3>1. CASE flight' = flight
      BY <1>9, <3>1 DEF HeightInv
    <3>2. CASE flight' # flight
      <4>1. flight' = [NoFlight EXCEPT !.pic = last.pic, !.repeat = pc = "poll"]
        BY <1>8, <3>2 DEF Write
      <4>2. flight'.pic = last.pic
        BY <4>1 DEF NoFlight
      <4> QED BY <1>9, <2>1, <4>2 DEF HeightInv
    <3> QED BY <3>1, <3>2
  <2> QED BY <1>9, <2>1, <2>2 DEF HeightInv
<1> HIDE DEF Goto
<1> QED BY <1>2, <1>3, <1>4, <1>5, <1>6, <1>7, <1>8 DEF Next, Loop, World, Pump, Host

LEMMA HeightInvariant == Spec => [](RingInv /\ HeightInv)
<1>1. Init => HeightInv
  BY DEF Init, HeightInv
<1>2. RingInv /\ HeightInv /\ [Next]_vars => HeightInv'
  BY HeightStep
<1> QED BY <1>1, <1>2, CameraRing, PTL DEF Spec

(***************************************************************************)
(* What the host reads has the height that was offered to it, whatever the *)
(* video input is and whenever the board enters USB mode: the check of     *)
(* usbuvc_on_frame is made once and holds until the picture is gone.       *)
(***************************************************************************)
THEOREM HostReadsHeightOffered == Spec => []HeightAsOffered
<1>1. HeightInv => HeightAsOffered
  BY DEF HeightInv, Good, HeightAsOffered
<1> QED BY <1>1, HeightInvariant, PTL
=============================================================================

------------------------------- MODULE Camera -------------------------------
(***************************************************************************)
(* The USB camera of src/src/usbuvc.c on top of Ring: the pump that sends  *)
(* pictures straight out of their ring slots, driven by the main loop      *)
(* (usbuvc_on_frame, usbuvc_poll), and the sessions a host opens in the    *)
(* USB interrupt.  `at` is where the main loop is inside the pump; the     *)
(* interrupts - encoder, host, completion - come between any two steps.    *)
(*                                                                         *)
(* The endpoint and the host are external, modelled by what usbuvc.c       *)
(* relies on: a transfer stays until the host collects it or it is         *)
(* flushed, a queued one refuses another, a bus reset empties it.          *)
(*                                                                         *)
(* Simplifications:                                                        *)
(*  - one unit of time is a frame period; ages saturate where they are     *)
(*    compared;                                                            *)
(*  - frames_sent # stall_mark, the only use of the two, is one flag;      *)
(*  - payload bytes and frame ids are left out, and the negotiation, which *)
(*    has one answer.                                                      *)
(***************************************************************************)
EXTENDS Ring

CONSTANTS
  AdvPal,         \* the standard offered at enumeration is PAL
  ThinEvery,      \* of how many pictures one is left out, 29.97 into 25 (6)
  StallTicks,     \* UVC_STALL_TICKS, frame periods in 1 s
  Strikes,        \* UVC_STALL_STRIKES
  KeepAlive,      \* UVC_KEEPALIVE_TICKS, frame periods in 100 ms
  MaxAge,         \* UVC_KEEPALIVE_MAX_AGE
  FlushOutcomes,  \* whether a flush of a transfer may complete it
  MaxPass         \* bound: frame periods one pass of the main loop takes, a dump aside

CameraInputs == RingInputs \cup {"standard", "recorder", "reset", "orphan"}

ASSUME CameraSizes ==
  /\ AdvPal \in BOOLEAN
  /\ ThinEvery \in Nat \ {0}
  /\ StallTicks \in Nat /\ Strikes \in Nat \ {0}
  /\ KeepAlive \in Nat /\ MaxAge \in Nat \ {0} /\ MaxPass \in Nat \ {0}
  /\ FlushOutcomes \in (SUBSET BOOLEAN) \ {{}}
  /\ Heights = {480, 576}

VARIABLES
  usb_mode,    \* recorder.c state = REC_USB_MODE
  pal,         \* capture_standard() = VID_PAL
  configured,  \* the host has configured the board since the last bus reset
  host,        \* usbmsc.c host_present
  streaming, busy, need_flush,   \* usbuvc.c, of those names
  moved,       \* frames_sent # stall_mark
  strikes,     \* stall_strikes
  busy_age,    \* periods since busy_at, up to StallTicks + 1
  queue_age,   \* periods since last_queue_at, up to KeepAlive
  last,        \* last_valid, and the picture last_base held when it was set
  seen,        \* seen_since, up to MaxAge
  thin,        \* the counter of the 5-in-6 thinning
  flight,      \* the transfer in the endpoint
  at,          \* where the pump is
  pass         \* periods since this pass of the loop began

hostVars == <<configured, host>>
modeVars == <<usb_mode, pal>>
sessionVars == <<streaming, busy, need_flush, moved, strikes>>
repeatVars == <<last, seen, thin>>
ageVars == <<busy_age, queue_age, pass>>
camVars == <<modeVars, hostVars, sessionVars, repeatVars, ageVars, flight, at>>
vars == <<ringVars, camVars>>

NoFlight == [pic |-> -1, repeat |-> FALSE, stale |-> FALSE, orphan |-> FALSE]

Init ==
  /\ RingInit
  /\ usb_mode = FALSE
  /\ pal \in IF "standard" \in Inputs THEN BOOLEAN ELSE {AdvPal}
  /\ configured = FALSE /\ host = FALSE
  /\ streaming = FALSE /\ busy = FALSE /\ need_flush = FALSE
  /\ moved = FALSE /\ strikes = 0
  /\ busy_age = 0 /\ queue_age = 0 /\ pass = 0
  /\ last = [valid |-> FALSE, pic |-> -1]
  /\ seen = 0 /\ thin = 0
  /\ flight = NoFlight
  /\ at = "rest"

Lines(isPal) == IF isPal THEN 576 ELSE 480
AdvHeight == Lines(AdvPal)

Upto(n, cap) == IF n < cap THEN n ELSE cap

-----------------------------------------------------------------------------
(* Time and the encoder's interrupt *)

\* Mutant: pictures for the host keep the height of the input.
EncodeHeight_Input == Lines(pal)
\* While a host owns the board every picture is made to the height offered.
EncodeHeight == IF usb_mode THEN AdvHeight ELSE Lines(pal)

\* The console waits for the encoder to rest, then prints a picture, for as long as it takes.
Dumping == pc \in {"freeze", "dump"}

\* A frame period ends; an age that is not read stands still.
PeriodEnds ==
  /\ Dumping \/ pass < MaxPass
  /\ pass' = IF Dumping THEN pass ELSE pass + 1
  /\ busy_age' = IF busy THEN Upto(busy_age + 1, StallTicks + 1) ELSE busy_age
  /\ queue_age' = IF last.valid THEN Upto(queue_age + 1, KeepAlive) ELSE queue_age

Encoder(period, captured) ==
  /\ PipelineTick(period, captured, EncodeHeight)
  /\ IF period THEN PeriodEnds ELSE UNCHANGED ageVars
  /\ UNCHANGED <<modeVars, hostVars, sessionVars, repeatVars, flight, at>>

\* Time goes on while the pipeline is off.
TimeOff ==
  /\ ~on
  /\ PeriodEnds
  /\ UNCHANGED <<ringVars, modeVars, hostVars, sessionVars, repeatVars, flight, at>>

InputChange ==
  /\ "standard" \in Inputs
  /\ pal' = ~pal
  /\ UNCHANGED <<ringVars, usb_mode, hostVars, sessionVars, repeatVars, ageVars,
                 flight, at>>

-----------------------------------------------------------------------------
(* The host, in the USB interrupt *)

HostConfigures ==
  /\ ~configured
  /\ configured' = TRUE
  /\ host' = TRUE
  /\ UNCHANGED <<ringVars, modeVars, sessionVars, repeatVars, ageVars, flight, at>>

\* Mutant: a new session does not ask for a flush.
FlushOwed_Never == need_flush
FlushOwed == TRUE

(***************************************************************************)
(* A commit, or a selection of the streaming interface: a session begins.  *)
(* What is still in the endpoint belongs to the session before; when the   *)
(* host also clears the halt it may never complete.                        *)
(***************************************************************************)
HostOpens ==
  /\ configured
  /\ need_flush' = FlushOwed
  /\ busy' = FALSE
  /\ strikes' = 0
  /\ streaming' = TRUE
  /\ \E orphan \in IF "orphan" \in Inputs THEN BOOLEAN ELSE {FALSE} :
       flight' = IF flight = NoFlight THEN flight
                 ELSE [flight EXCEPT !.stale = TRUE, !.orphan = @ \/ orphan]
  /\ UNCHANGED <<ringVars, modeVars, hostVars, moved, repeatVars, ageVars, at>>

\* The host reads the transfer to its end: uvc_in_done.
HostCollects ==
  /\ configured
  /\ flight # NoFlight /\ ~flight.orphan
  /\ flight' = NoFlight
  /\ busy' = FALSE
  /\ moved' = TRUE
  /\ UNCHANGED <<ringVars, modeVars, hostVars, streaming, need_flush, strikes,
                 repeatVars, ageVars, at>>

HostResets ==
  /\ "reset" \in Inputs
  /\ configured
  /\ configured' = FALSE
  /\ streaming' = FALSE
  /\ busy' = FALSE
  /\ flight' = NoFlight
  /\ UNCHANGED <<ringVars, modeVars, host, need_flush, moved, strikes, repeatVars,
                 ageVars, at>>

-----------------------------------------------------------------------------
(* The pump, in the main loop *)

Goto(place) == at' = place

Gone == last' = [last EXCEPT !.valid = FALSE]

\* Mutant: pictures of any height go out.
Fits_Any(pic) == TRUE
Fits(pic) == height[Slot(pic)] = AdvHeight

\* A PAL stream fed from an NTSC input leaves out one picture in ThinEvery.
Thinned == AdvPal /\ ~pal

(***************************************************************************)
(* usbuvc_on_frame, up to its call of uvc_ready.  A picture that is held   *)
(* back or thinned out is not counted in seen_since.                       *)
(***************************************************************************)
Gate ==
  /\ at = "gate"
  /\ \/ /\ ~streaming
        /\ Gone
        /\ Goto("done")
        /\ UNCHANGED <<seen, thin>>
     \/ /\ streaming
        /\ ~Fits(tail)
        /\ Goto("done")
        /\ UNCHANGED repeatVars
     \/ /\ streaming
        /\ Fits(tail)
        /\ thin' = IF Thinned THEN (thin + 1) % ThinEvery ELSE thin
        /\ IF Thinned /\ thin' = 0
             THEN Goto("done") /\ UNCHANGED seen
             ELSE Goto("ready") /\ seen' = Upto(seen + 1, MaxAge)
        /\ UNCHANGED last
  /\ UNCHANGED <<ringVars, modeVars, hostVars, sessionVars, ageVars, flight>>

TooOld == seen >= MaxAge

\* usbuvc_poll, up to its call of uvc_ready.
Poll ==
  /\ pc = "poll"
  /\ at = "rest"
  /\ \/ /\ ~streaming \/ ~last.valid \/ queue_age < KeepAlive
        /\ Goto("done")
        /\ UNCHANGED last
     \/ /\ streaming /\ last.valid /\ queue_age >= KeepAlive
        /\ IF TooOld THEN Gone /\ Goto("done")
           ELSE UNCHANGED last /\ Goto("ready")
  /\ UNCHANGED <<ringVars, modeVars, hostVars, sessionVars, seen, thin, ageVars,
                 flight>>

\* Mutant: a flush leaves the packet where it is.
Flush_Kept(completed) == ~completed /\ flight' = flight

\* usbd_ep_flush; the controller may complete what it throws away.
Flush(completed) ==
  /\ completed => flight # NoFlight
  /\ completed \in FlushOutcomes \cup {FALSE}
  /\ flight # NoFlight => completed \in FlushOutcomes
  /\ flight' = NoFlight

Stalled == busy_age > StallTicks

\* frames_sent # stall_mark once a stall was dealt with.
MovedSinceStall == FALSE

(***************************************************************************)
(* uvc_ready: the flush owed to a new session, then the transfer nobody    *)
(* collected.  After such a stall the endpoint is free, but only the next  *)
(* call says so.                                                           *)
(***************************************************************************)
Ready ==
  /\ at = "ready"
  /\ \/ /\ need_flush
        /\ need_flush' = FALSE
        /\ busy' = FALSE
        /\ \E completed \in BOOLEAN : Flush(completed) /\ moved' = (moved \/ completed)
        /\ Goto("queue")
        /\ UNCHANGED strikes
     \/ /\ ~need_flush /\ ~busy
        /\ Goto("queue")
        /\ UNCHANGED <<need_flush, busy, moved, strikes, flight>>
     \/ /\ ~need_flush /\ busy /\ ~Stalled
        /\ Goto("done")
        /\ UNCHANGED <<need_flush, busy, moved, strikes, flight>>
     \/ /\ ~need_flush /\ busy /\ Stalled
        /\ busy' = FALSE
        /\ \E completed \in BOOLEAN :
             /\ Flush(completed)
             /\ moved' = MovedSinceStall
             /\ strikes' = IF moved \/ completed THEN 1 ELSE strikes + 1
             /\ Goto(IF strikes' >= Strikes /\ ~(moved \/ completed)
                       THEN "giveup" ELSE "done")
        /\ UNCHANGED need_flush
  /\ UNCHANGED <<ringVars, modeVars, hostVars, streaming, repeatVars, ageVars>>

\* Two log lines later.
GiveUp ==
  /\ at = "giveup"
  /\ streaming' = FALSE
  /\ strikes' = 0
  /\ Goto("done")
  /\ UNCHANGED <<ringVars, modeVars, hostVars, busy, need_flush, moved, repeatVars,
                 ageVars, flight>>

(***************************************************************************)
(* uvc_queue up to the endpoint: for a new picture it becomes the one to   *)
(* repeat; usbuvc_poll repeats that one.                                   *)
(***************************************************************************)
SendFrame ==
  /\ at = "queue"
  /\ IF pc = "frame"
       THEN last' = [valid |-> TRUE, pic |-> tail] /\ seen' = 0
       ELSE UNCHANGED <<last, seen>>
  /\ busy' = TRUE
  /\ busy_age' = 0
  /\ queue_age' = 0
  /\ Goto("write")
  /\ UNCHANGED <<ringVars, modeVars, hostVars, streaming, need_flush, moved, strikes,
                 thin, pass, flight>>

\* usbd_ep_start_write, refused by an endpoint in use or not enabled.
Write ==
  /\ at = "write"
  /\ IF configured /\ flight = NoFlight
       THEN /\ flight' = [NoFlight EXCEPT !.pic = last.pic, !.repeat = pc = "poll"]
            /\ UNCHANGED busy
       ELSE /\ busy' = FALSE
            /\ UNCHANGED flight
  /\ Goto("done")
  /\ UNCHANGED <<ringVars, modeVars, hostVars, streaming, need_flush, moved, strikes,
                 repeatVars, ageVars>>

-----------------------------------------------------------------------------
(* The rest of the loop *)

\* recorder_task enters USB mode for good when there is a host.
PassBegins ==
  /\ Console
  /\ usb_mode' = (usb_mode \/ host)
  /\ UNCHANGED <<pal, hostVars, sessionVars, repeatVars, ageVars, flight, at>>

Dump ==
  /\ FreezeDone \/ DumpDone
  /\ UNCHANGED camVars

FrameBegins ==
  /\ Deliver
  /\ Goto("gate")
  /\ UNCHANGED <<modeVars, hostVars, sessionVars, repeatVars, ageVars, flight>>

FrameEnds ==
  /\ at = "done"
  /\ Release
  /\ Goto("rest")
  /\ UNCHANGED <<modeVars, hostVars, sessionVars, repeatVars, ageVars, flight>>

NoMoreFrames == FramesDone /\ UNCHANGED camVars

\* A toggle in the next pass leaves USB mode until its recorder_task.
PassEnds ==
  /\ at = "done"
  /\ PollDone
  /\ Goto("rest")
  /\ pass' = 0
  /\ usb_mode' \in {usb_mode} \cup (IF "recorder" \in Inputs THEN {FALSE} ELSE {})
  /\ UNCHANGED <<pal, hostVars, sessionVars, repeatVars, busy_age, queue_age, flight>>

Pump == Gate \/ Poll \/ Ready \/ GiveUp \/ SendFrame \/ Write
Loop == PassBegins \/ Dump \/ FrameBegins \/ FrameEnds \/ NoMoreFrames \/ PassEnds \/ Pump
Host == HostConfigures \/ HostOpens \/ HostCollects \/ HostResets
World ==
  \/ \E period, captured \in BOOLEAN : Encoder(period, captured)
  \/ TimeOff \/ InputChange
  \/ SignalChange /\ UNCHANGED camVars
  \/ Host

Next == Loop \/ World

Spec == Init /\ [][Next]_vars

(***************************************************************************)
(* The main loop goes on and so does time; nothing is assumed of the host  *)
(* or of the encoder.  HostReads is a host that collects what is there.    *)
(***************************************************************************)
Proceed ==
  \/ PassBegins /\ ConsoleNothing
  \/ Dump \/ FrameBegins \/ FrameEnds \/ NoMoreFrames \/ PassEnds \/ Pump

PeriodPasses == TimeOff \/ \E captured \in BOOLEAN : Encoder(TRUE, captured)

FairSpec == Spec /\ WF_vars(Proceed) /\ WF_vars(PeriodPasses)

HostReads == WF_vars(HostCollects)

-----------------------------------------------------------------------------
(* Safety *)

(***************************************************************************)
(* "The ring holds 40; half of that leaves no doubt" (usbuvc.c:94-95) and  *)
(* "It cannot be overwritten under us" (:584): while the host reads a      *)
(* repeated picture out of its slot, the encoder does not come round to    *)
(* that slot, however long before it was first sent.                       *)
(***************************************************************************)
RepeatIntact == flight # NoFlight /\ flight.repeat => ring[Slot(flight.pic)] = flight.pic

(***************************************************************************)
(* While streaming, the pump knows of every transfer in the endpoint: one  *)
(* it has forgotten would refuse every later one without being flushed.    *)
(***************************************************************************)
FlightAccounted == streaming /\ flight # NoFlight => busy \/ need_flush

(***************************************************************************)
(* The host never reads a picture of another height than was offered to    *)
(* it, whatever the input and the recorder do meanwhile: as long as the    *)
(* slot holds the picture: see RepeatIntact.                               *)
(***************************************************************************)
HeightAsOffered ==
  flight # NoFlight /\ ring[Slot(flight.pic)] = flight.pic =>
    height[Slot(flight.pic)] = AdvHeight

Collects == flight # NoFlight /\ flight' = NoFlight /\ moved' /\ ~busy' /\ at' = at

(***************************************************************************)
(* A picture queued for an earlier session reaches the host only in the    *)
(* window between the opening and the pump's first call.                   *)
(***************************************************************************)
StaleOnlyBeforeFlush == [][Collects /\ flight.stale => need_flush]_vars

(***************************************************************************)
(* A stream is shut off only after Strikes stalls of the session it        *)
(* belongs to, or by a bus reset.                                          *)
(***************************************************************************)
OpenSticks ==
  [][streaming /\ ~streaming' => ~configured' \/ strikes >= Strikes]_vars

-----------------------------------------------------------------------------
(* Liveness *)

Trying == at = "ready"
NoOpen == <>[][~HostOpens]_vars

(***************************************************************************)
(* The pump does not wedge: as long as it has something to send, transfers *)
(* begin and end for ever, whatever was orphaned before.                   *)
(***************************************************************************)
PumpGoesOn ==
  HostReads /\ NoOpen /\ <>[]streaming /\ []<>Trying =>
    []<>(flight # NoFlight) /\ []<>(flight = NoFlight)

(***************************************************************************)
(* A host that stopped reading without a word is noticed: after three      *)
(* stalls "the stream is declared dead" (usbuvc.c:140-143), since frames   *)
(* sent between them "means the host is reading" (:555-557).               *)
(***************************************************************************)
HostGoneNoticed ==
  NoOpen /\ <>[][~HostCollects]_vars => <>[](~streaming \/ ~Trying)
=============================================================================

------------------------------ MODULE Recorder ------------------------------
(***************************************************************************)
(* The recorder of src/src/recorder.c: its state machine, the life of one  *)
(* clip, and the part of its surroundings it reads - the card behind       *)
(* FatFs, the video signal, the USB host, the command sources and the ring *)
(* of encoded frames.                                                      *)
(*                                                                         *)
(* One pass of the main loop of src/src/main.c is four phases, `pc`:       *)
(* console_poll, fclink_poll, recorder_task, pipeline_consume.  Interrupts *)
(* and the outside world act between any two steps.                        *)
(*                                                                         *)
(* Simplifications:                                                        *)
(*  - one tick is one video frame period; a TIM0 stamp is the number of    *)
(*    ticks since it was taken, modulo TimerWrap, because the hardware     *)
(*    timer is 32 bits wide and the subtraction wraps;                     *)
(*  - a clip's bytes are counts of frames (AviClip has the bytes), its     *)
(*    name is left out (Dcf has the names);                                *)
(*  - frame counters saturate at the limit they are compared with.         *)
(***************************************************************************)
EXTENDS Integers

CONSTANTS
  SegFrames,     \* REC_SEG_FRAMES, frames before a clip rolls over
  RefreshEvery,  \* frames between two header refreshes (30)
  StartStable,   \* ticks of signal before auto-record starts (1 s)
  LossClose,     \* ticks of lost signal before the clip is closed (5 s)
  MountRetry,    \* ticks between two mount attempts (2 s)
  ErrorPause,    \* ticks spent in ERROR (5 s)
  TimerWrap,     \* ticks after which TIM0 comes round (179 s)
  MaxStall,      \* bound: ticks one loop pass may take (the 6 s watchdog)
  BootAge,       \* ticks from the start of TIM0 to the main loop (> 2.5 s)
  Slots,         \* BSRING_SLOTS, encoded frames the ring holds
  Commands,      \* console commands in use, out of ConsoleCommands
  Events         \* what the surroundings may do, out of EnvEvents

ConsoleCommands == {"R", "A", "M", "W", "c"}
FcEvents == {"TOGGLE", "START", "STOP"}
EnvEvents == FcEvents \cup {"signal", "card", "flaky", "host"}

ASSUME CountsPositive ==
  /\ SegFrames \in Nat \ {0}
  /\ RefreshEvery \in Nat \ {0}
  /\ Slots \in Nat \ {0}

ASSUME TimesOrdered ==
  /\ StartStable \in Nat /\ LossClose \in Nat
  /\ MountRetry \in Nat /\ ErrorPause \in Nat
  /\ MaxStall \in Nat \ {0}
  /\ TimerWrap \in Nat
  /\ \A t \in {StartStable, LossClose, MountRetry, ErrorPause} :
       t + MaxStall + 1 < TimerWrap
  /\ BootAge \in 0 .. TimerWrap - 1

ASSUME InputsKnown ==
  /\ Commands \subseteq ConsoleCommands
  /\ Events \subseteq EnvEvents

States == {"NO_CARD", "WAIT_SIGNAL", "RECORDING", "MANUAL_STOP", "ERROR",
           "USB_MODE"}
Phases == {"console", "fclink", "task", "frames"}
Timers == {"state", "mount", "last", "edge"}
CardStates == {"none", "cold", "live"}

VARIABLES
  pc,            \* phase of the main loop
  stall,         \* ticks since recorder_task last ran
  state,         \* recorder.c state
  auto_record,   \* recorder.c auto_record
  clip,          \* the open clip: recorder.c counters and avi_t.error
  age,           \* ticks since t_state, t_mount_try, t_last_frame, t_signal_edge
  mounted,       \* sdtest.c mounted
  host_present,  \* usbmsc.c host_present
  card_present,  \* usbmsc.c card_present
  card_ready,    \* usbmsc.c card_ready
  card,          \* the slot: empty, a card not initialised, one that answers
  flaky,         \* the card may fail a command (worn, full, names used up)
  sig,           \* capture_signal_ok
  pipe,          \* pipeline_active
  queued         \* head - tail of the ring: frames not consumed yet

loopVars == <<pc, stall>>
usbVars == <<host_present, card_present, card_ready>>
worldVars == <<flaky, sig, pipe>>
vars == <<pc, stall, state, auto_record, clip, age, mounted, host_present,
          card_present, card_ready, card, flaky, sig, pipe, queued>>

NoClip == [open |-> FALSE, frames |-> 0, unrefreshed |-> 0, exposed |-> 0,
           error |-> FALSE, valid |-> FALSE]

(***************************************************************************)
(* clip.frames is frames_written, clip.unrefreshed is frames_written minus *)
(* last_refresh_frame, clip.exposed counts the pictures added since the    *)
(* header on the card was last brought up to date, clip.error is the       *)
(* sticky avi_t.error, clip.valid says that the FIL still belongs to the   *)
(* mounted volume (f_mount invalidates every open file).                   *)
(***************************************************************************)
Clips == [open : BOOLEAN, frames : 0 .. SegFrames,
          unrefreshed : 0 .. RefreshEvery, exposed : Nat,
          error : BOOLEAN, valid : BOOLEAN]

TypeOK ==
  /\ pc \in Phases
  /\ stall \in 0 .. MaxStall
  /\ state \in States
  /\ auto_record \in BOOLEAN
  /\ clip \in Clips
  /\ age \in [Timers -> 0 .. TimerWrap - 1]
  /\ mounted \in BOOLEAN
  /\ host_present \in BOOLEAN
  /\ card_present \in BOOLEAN
  /\ card_ready \in BOOLEAN
  /\ card \in CardStates
  /\ flaky \in BOOLEAN
  /\ sig \in BOOLEAN
  /\ pipe \in BOOLEAN
  /\ queued \in 0 .. Slots

(***************************************************************************)
(* The state main() has built when it enters its loop: the pipeline runs,  *)
(* usbmsc_init has looked for a card once, nothing is mounted, and a host  *)
(* may already have configured the board.  The static stamps are zero, so  *)
(* their age is the age of TIM0.                                           *)
(***************************************************************************)
Init ==
  /\ pc = "console"
  /\ stall = 0
  /\ state = "NO_CARD"
  /\ auto_record = TRUE
  /\ clip = NoClip
  /\ age = [t \in Timers |-> IF t \in {"mount", "edge"} THEN BootAge ELSE 0]
  /\ mounted = FALSE
  /\ host_present \in IF "host" \in Events THEN BOOLEAN ELSE {FALSE}
  /\ card \in IF "card" \in Events THEN CardStates ELSE {"live"}
  /\ card_present = (card = "live")
  /\ card_ready = FALSE
  /\ flaky = FALSE
  /\ sig \in BOOLEAN
  /\ pipe = TRUE
  /\ queued = 0

-----------------------------------------------------------------------------
(* Helpers *)

Saturate(n, cap) == IF n < cap THEN n ELSE cap

\* Taking the stamps in `ts`: their age becomes zero.
Stamp(ts) == [t \in Timers |-> IF t \in ts THEN 0 ELSE age[t]]

\* enter(): t_state is stamped with the new state.
Enter(s) == state' = s /\ age' = Stamp({"state"})

\* A command that has to reach the card may succeed, and may fail.
CanSucceed == card = "live"
CanFail == card # "live" \/ flaky
CardResult(ok) == IF ok THEN CanSucceed ELSE CanFail

Fresh == [NoClip EXCEPT !.open = TRUE, !.valid = TRUE]

\* Mutant: a failure after the create leaves the file open.
ClipStart_LeftOpen(ok) == CardResult(ok) /\ clip' = Fresh

(***************************************************************************)
(* clip_start: scan or pick a name, create, preallocate, sync, write the   *)
(* AVI header.  Every path that returns -1 leaves no clip open.            *)
(***************************************************************************)
ClipStart(ok) ==
  /\ CardResult(ok)
  /\ clip' = IF ok THEN Fresh ELSE NoClip

\* Its callers: record on success, go to ERROR on failure.  t_last_frame is
\* read only while a clip is open, so its age is kept at zero otherwise.
StartOrError ==
  \E ok \in BOOLEAN :
    /\ ClipStart(ok)
    /\ state' = IF ok THEN "RECORDING" ELSE "ERROR"
    /\ age' = Stamp({"state", "last"})

\* Mutant: the user's stop leaves the recorder armed.
UserStopState_Armed == "WAIT_SIGNAL"
UserStopState == "MANUAL_STOP"

(***************************************************************************)
(* recorder_toggle: stops a running clip, otherwise starts one if a card   *)
(* is mounted.  Called from the console and from the FC link.              *)
(***************************************************************************)
RecorderToggle ==
  \/ /\ state = "RECORDING"
     /\ clip' = NoClip
     /\ state' = UserStopState
     /\ age' = Stamp({"state", "last"})
  \/ /\ state # "RECORDING"
     /\ ~mounted
     /\ Enter("NO_CARD")
     /\ UNCHANGED clip
  \/ /\ state # "RECORDING"
     /\ mounted
     /\ StartOrError

(***************************************************************************)
(* sdtest_mount: detect the card and attach the file system.  Whatever     *)
(* file was open belongs to the previous mount and is no longer valid.     *)
(***************************************************************************)
Mount(ok) ==
  /\ IF ok THEN card # "none" ELSE card = "none" \/ flaky
  /\ mounted' = ok
  /\ \/ ok /\ card' = "live"
     \/ ~ok /\ card' \in (IF card = "none" THEN {"none"} ELSE {"cold", "live"})
  /\ clip' = [clip EXCEPT !.valid = FALSE]

-----------------------------------------------------------------------------
(* recorder_task, the state machine *)

\* Mutant: nothing to hand over while no card is in use.
HostTakesOver_OnlyFromCard == host_present /\ state \notin {"USB_MODE", "NO_CARD"}
HostTakesOver == host_present /\ state # "USB_MODE"

(***************************************************************************)
(* A configured host: the clip is finalised, the volume detached and the   *)
(* card released.  Only a card that was mounted is initialised afresh.     *)
(***************************************************************************)
HandOver ==
  /\ HostTakesOver
  /\ clip' = NoClip
  /\ mounted' = FALSE
  /\ \/ ~card_present /\ UNCHANGED <<card_ready, card>>
     \/ card_present /\ ~mounted /\ card_ready' = TRUE /\ UNCHANGED card
     \/ /\ card_present /\ mounted
        /\ \E ok \in BOOLEAN :
             /\ IF ok THEN card # "none" ELSE card = "none" \/ flaky
             /\ card_ready' = ok
             /\ card' = IF ok THEN "live" ELSE IF card = "none" THEN card ELSE "cold"
  /\ state' = "USB_MODE"
  /\ age' = Stamp({"state", "last"})

TaskNoCard ==
  /\ state = "NO_CARD"
  /\ \/ /\ mounted
        /\ Enter("WAIT_SIGNAL")
        /\ UNCHANGED <<clip, mounted, card>>
     \/ /\ ~mounted
        /\ age["mount"] <= MountRetry
        /\ UNCHANGED <<state, age, clip, mounted, card>>
     \/ /\ ~mounted
        /\ age["mount"] > MountRetry
        /\ \E ok \in BOOLEAN :
             /\ Mount(ok)
             /\ state' = IF ok THEN "WAIT_SIGNAL" ELSE state
             /\ age' = Stamp(IF ok THEN {"mount", "state"} ELSE {"mount"})
  /\ UNCHANGED card_ready

TaskWaitSignal ==
  /\ state = "WAIT_SIGNAL"
  /\ \/ /\ ~auto_record
        /\ UNCHANGED <<state, age, clip>>
     \/ /\ auto_record
        /\ ~pipe \/ ~sig
        /\ age' = Stamp({"edge"})
        /\ UNCHANGED <<state, clip>>
     \/ /\ auto_record /\ pipe /\ sig
        /\ age["edge"] <= StartStable
        /\ UNCHANGED <<state, age, clip>>
     \/ /\ auto_record /\ pipe /\ sig
        /\ age["edge"] > StartStable
        /\ StartOrError
  /\ UNCHANGED <<mounted, card, card_ready>>

\* Empty frames due: one for every frame period since t_last_frame.
Owed == IF age["last"] > 1 THEN age["last"] - 1 ELSE 0

(***************************************************************************)
(* The while loop over avi_add_empty_frame: `frames_written` advances for  *)
(* every owed frame, even when the write path died on the way.  An 8-byte  *)
(* empty chunk usually lands in FatFs' sector buffer, so it may succeed    *)
(* with the card gone.                                                     *)
(***************************************************************************)
AddEmpties ==
  /\ \E failed \in BOOLEAN :
       /\ failed => Owed > 0 /\ (CanFail \/ ~clip.valid)
       /\ ~failed /\ Owed > 0 => clip.valid
       /\ clip' = [clip EXCEPT
                     !.frames = Saturate(clip.frames + Owed, SegFrames),
                     !.unrefreshed = Saturate(clip.unrefreshed + Owed, RefreshEvery),
                     !.error = clip.error \/ failed]
  /\ age' = [age EXCEPT !["last"] = age["last"] - Owed]

\* Mutant: a dead write path is noticed only when the signal is gone too.
WritePathDied_IfNoSignal == clip.error /\ ~sig
WritePathDied == clip.error

\* Mutant: the stamp follows the lost signal.
SignalSeen_Inverted == ~sig
SignalSeen == sig

TaskRecording ==
  /\ state = "RECORDING"
  /\ \/ /\ WritePathDied
        /\ clip' = NoClip
        /\ mounted' = FALSE
        /\ state' = "NO_CARD"
        /\ age' = Stamp({"state", "last"})
     \/ /\ ~WritePathDied
        /\ ~SignalSeen
        /\ age["edge"] <= LossClose
        /\ AddEmpties
        /\ UNCHANGED <<state, mounted>>
     \/ /\ ~WritePathDied
        /\ ~SignalSeen
        /\ age["edge"] > LossClose
        /\ clip' = NoClip
        /\ state' = "WAIT_SIGNAL"
        /\ age' = Stamp({"state", "last"})
        /\ UNCHANGED mounted
     \/ /\ ~WritePathDied
        /\ SignalSeen
        /\ age' = Stamp({"edge"})
        /\ UNCHANGED <<state, clip, mounted>>
  /\ UNCHANGED <<card, card_ready>>

\* Mutant: the pause ends in NO_CARD with the old volume still attached.
MountedAfterError_Kept == mounted
MountedAfterError == FALSE

TaskError ==
  /\ state = "ERROR"
  /\ \/ /\ age["state"] <= ErrorPause
        /\ UNCHANGED <<state, age, mounted>>
     \/ /\ age["state"] > ErrorPause
        /\ mounted' = MountedAfterError
        /\ Enter("NO_CARD")
  /\ UNCHANGED <<clip, card, card_ready>>

\* MANUAL_STOP and USB_MODE: only a command or a host leads out.
TaskIdle ==
  /\ state \in {"MANUAL_STOP", "USB_MODE"}
  /\ UNCHANGED <<state, age, clip, mounted, card, card_ready>>

RecorderTask ==
  /\ pc = "task"
  /\ pc' = "frames"
  /\ stall' = 0
  /\ \/ HandOver
     \/ /\ ~HostTakesOver
        /\ TaskNoCard \/ TaskWaitSignal \/ TaskRecording \/ TaskError \/ TaskIdle
  /\ UNCHANGED <<auto_record, host_present, card_present, worldVars, queued>>

-----------------------------------------------------------------------------
(* pipeline_consume and recorder_on_frame *)

\* Mutant: the header lags one frame more.
RefreshDue_Late(n) == n > RefreshEvery
RefreshDue(n) == n >= RefreshEvery

(***************************************************************************)
(* avi_add_raw and, every RefreshEvery frames, avi_refresh_header, on clip *)
(* `c` when the stamps are `a`.  A failed write leaves the sticky error    *)
(* and drops the frame; a frame that was written stamps t_last_frame; the  *)
(* refresh moves last_refresh_frame before it is known to have worked.     *)
(***************************************************************************)
AddFrame(c, a) ==
  \/ \* the frame is dropped
     /\ c.error \/ CanFail \/ ~c.valid
     /\ clip' = [c EXCEPT !.error = TRUE]
     /\ age' = a
  \/ /\ ~c.error /\ CanSucceed /\ c.valid
     /\ \E ok \in BOOLEAN :
          LET due == RefreshDue(c.unrefreshed + 1)
          IN  /\ ~ok => due /\ CanFail
              /\ clip' = [c EXCEPT
                   !.frames = Saturate(c.frames + 1, SegFrames),
                   !.unrefreshed = IF due THEN 0 ELSE c.unrefreshed + 1,
                   !.exposed = IF due /\ ok THEN 0 ELSE c.exposed + 1,
                   !.error = ~ok]
     /\ age' = Stamp({"last"})

OnFrame ==
  /\ pc = "frames"
  /\ queued > 0
  /\ queued' = queued - 1
  /\ \/ /\ ~(state = "RECORDING" /\ clip.open)
        /\ UNCHANGED <<state, age, clip>>
     \/ /\ state = "RECORDING" /\ clip.open
        /\ clip.frames < SegFrames
        /\ AddFrame(clip, age)
        /\ UNCHANGED state
     \/ \* segment rollover: the next clip takes the frame
        /\ state = "RECORDING" /\ clip.open
        /\ clip.frames >= SegFrames
        /\ \/ /\ CardResult(TRUE)
              /\ AddFrame(Fresh, Stamp({"last"}))
              /\ UNCHANGED state
           \/ /\ CardResult(FALSE)
              /\ clip' = NoClip
              /\ state' = "ERROR"
              /\ age' = Stamp({"state", "last"})
  /\ UNCHANGED <<loopVars, auto_record, mounted, usbVars, card, worldVars>>

FramesDone ==
  /\ pc = "frames"
  /\ queued = 0
  /\ pc' = "console"
  /\ UNCHANGED <<stall, state, auto_record, clip, age, mounted, usbVars, card,
                 worldVars, queued>>

-----------------------------------------------------------------------------
(* Commands *)

\* The console takes at most one command in a pass.
ConsolePoll ==
  /\ pc = "console"
  /\ pc' = "fclink"
  /\ \/ UNCHANGED <<state, auto_record, clip, age, mounted, card, pipe>>
     \/ /\ "R" \in Commands
        /\ RecorderToggle
        /\ UNCHANGED <<auto_record, mounted, card, pipe>>
     \/ /\ "A" \in Commands
        /\ auto_record' = ~auto_record
        /\ UNCHANGED <<state, clip, age, mounted, card, pipe>>
     \/ /\ "M" \in Commands
        /\ \E ok \in BOOLEAN : Mount(ok)
        /\ UNCHANGED <<state, auto_record, age, pipe>>
     \/ \* sdtest_toggle_width: the next command needs a new detect
        /\ "W" \in Commands
        /\ mounted' = FALSE
        /\ card' = IF card = "live" THEN "cold" ELSE card
        /\ UNCHANGED <<state, auto_record, clip, age, pipe>>
     \/ /\ "c" \in Commands
        /\ pipe' = ~pipe
        /\ UNCHANGED <<state, auto_record, clip, age, mounted, card>>
  /\ UNCHANGED <<stall, usbVars, flaky, sig, queued>>

FcToggles(e) ==
  CASE e = "TOGGLE" -> TRUE
    [] e = "START" -> state # "RECORDING"
    [] e = "STOP" -> state = "RECORDING"

\* One event out of the bytes the flight controller sent.
FcEvent ==
  /\ pc = "fclink"
  /\ \E e \in Events \cap FcEvents : FcToggles(e)
  /\ RecorderToggle
  /\ UNCHANGED <<loopVars, auto_record, mounted, usbVars, card, worldVars, queued>>

FcDone ==
  /\ pc = "fclink"
  /\ pc' = "task"
  /\ UNCHANGED <<stall, state, auto_record, clip, age, mounted, usbVars, card,
                 worldVars, queued>>

-----------------------------------------------------------------------------
(* The surroundings *)

\* Mutant: a stamp that never comes round.
Later_NoWrap(n) == n + 1
Later(n) == (n + 1) % TimerWrap

Counting(t) ==
  CASE t = "state" -> state = "ERROR"
    [] t = "last" -> clip.open
    [] t \in {"mount", "edge"} -> state # "USB_MODE"

(***************************************************************************)
(* One frame period passes.  With a signal and the pipeline on, the        *)
(* interrupt may have finished one more frame; a full ring skips it.  A    *)
(* stamp that is not read in the present state stands still.               *)
(***************************************************************************)
Tick ==
  /\ stall < MaxStall
  /\ stall' = stall + 1
  /\ age' = [t \in Timers |-> IF Counting(t) THEN Later(age[t]) ELSE age[t]]
  /\ queued' \in IF sig /\ pipe THEN {queued, Saturate(queued + 1, Slots)}
                 ELSE {queued}
  /\ UNCHANGED <<pc, state, auto_record, clip, mounted, usbVars, card, worldVars>>

SignalChange ==
  /\ "signal" \in Events
  /\ sig' = ~sig
  /\ UNCHANGED <<loopVars, state, auto_record, clip, age, mounted, usbVars, card,
                 flaky, pipe, queued>>

CardChange ==
  /\ "card" \in Events
  /\ card' = IF card = "none" THEN "cold" ELSE "none"
  /\ UNCHANGED <<loopVars, state, auto_record, clip, age, mounted, usbVars,
                 worldVars, queued>>

FlakyChange ==
  /\ "flaky" \in Events
  /\ flaky' = ~flaky
  /\ UNCHANGED <<loopVars, state, auto_record, clip, age, mounted, usbVars, card,
                 sig, pipe, queued>>

\* USBD_EVENT_CONFIGURED, in the USB interrupt; nothing clears the flag.
HostConfigures ==
  /\ "host" \in Events
  /\ ~host_present
  /\ host_present' = TRUE
  /\ UNCHANGED <<loopVars, state, auto_record, clip, age, mounted, card_present,
                 card_ready, card, worldVars, queued>>

Loop == ConsolePoll \/ FcEvent \/ FcDone \/ RecorderTask \/ OnFrame \/ FramesDone

Surroundings ==
  Tick \/ SignalChange \/ CardChange \/ FlakyChange \/ HostConfigures

Next == Loop \/ Surroundings

Spec == Init /\ [][Next]_vars

(***************************************************************************)
(* The main loop goes on - it has no exit and every wait in it is bounded  *)
(* - and so does time.  Signal, card, host and pilot owe nothing.          *)
(***************************************************************************)
ConsoleSilent ==
  /\ ConsolePoll
  /\ UNCHANGED <<state, auto_record, clip, age, mounted, card, pipe>>

Proceed == ConsoleSilent \/ FcDone \/ RecorderTask \/ OnFrame \/ FramesDone

FairSpec == Spec /\ WF_vars(Proceed) /\ WF_vars(Tick)

-----------------------------------------------------------------------------
(* Safety *)

\* No console command that detaches or re-attaches the volume by hand.
BenchOff == Commands \cap {"M", "W"} = {}

(***************************************************************************)
(* A clip is open exactly while the state machine says RECORDING, and then *)
(* the volume it lives on is attached, as it is when the next clip is      *)
(* awaited: no path of recorder_task, of the toggle or of the rollover     *)
(* forgets an open file, unmounts under it or starts one on no card.       *)
(***************************************************************************)
ClipOnMountedCard ==
  /\ clip.open <=> state = "RECORDING"
  /\ state \in {"RECORDING", "WAIT_SIGNAL"} => mounted

(***************************************************************************)
(* FatFs is off a card that was released to the host, from the takeover    *)
(* on, through every later toggle that leaves and re-enters USB_MODE.      *)
(***************************************************************************)
FirmwareOffHostCard ==
  card_ready => ~mounted /\ ~clip.open /\ host_present

(***************************************************************************)
(* Clip, volume and card are in step: the two together are inductive.      *)
(***************************************************************************)
CardInv == ClipOnMountedCard /\ FirmwareOffHostCard

(***************************************************************************)
(* Pulling the battery costs at most RefreshEvery - 1 pictures of a clip   *)
(* whose write path works, and never more than RefreshEvery of a clip      *)
(* whose last refresh failed; empty frames and rollovers do not stretch it.*)
(***************************************************************************)
ExposureBound ==
  /\ clip.exposed <= RefreshEvery
  /\ ~clip.error => clip.exposed < RefreshEvery

\* recorder.c keeps the promise of CardOwnership.
Owner == IF card_ready THEN "host" ELSE IF mounted THEN "firmware" ELSE "nobody"
Ownership == INSTANCE CardOwnership WITH owner <- Owner, writing <- clip.open

\* Card, clip and host go through the steps of CardOwnership and no others.
OwnershipKept == Ownership!Spec

(***************************************************************************)
(* A stop the user asked for sticks: the clip closes into MANUAL_STOP, and *)
(* from there nothing but a command or a USB host moves the recorder.      *)
(***************************************************************************)
UserStopSticks ==
  [][/\ pc \in {"console", "fclink"} /\ clip.open /\ ~clip'.open
          => state' = "MANUAL_STOP"
     /\ state = "MANUAL_STOP" /\ pc \notin {"console", "fclink"}
          => state' \in {"MANUAL_STOP", "USB_MODE"}]_vars

-----------------------------------------------------------------------------
(* Liveness *)

\* All that recording needs is there for good.
Ready ==
  /\ card # "none" /\ ~flaky
  /\ sig /\ pipe /\ auto_record
  /\ ~host_present
  /\ state # "MANUAL_STOP"

\* Nobody commands anything any more.
NoCommands == <>[][~FcEvent /\ (ConsolePoll => ConsoleSilent)]_vars

(***************************************************************************)
(* Whatever went wrong before - a card pulled out mid-clip, a failed       *)
(* start, a signal lost for long, a stop - once card and signal are there  *)
(* to stay and the pilot's switch is left alone, the recorder records and  *)
(* keeps recording.  (A pilot who toggles again and again keeps it in      *)
(* ERROR: every failed start begins the pause anew.)                       *)
(***************************************************************************)
RecordsInTheEnd ==
  <>[]Ready /\ NoCommands => <>[](state = "RECORDING")

\* A host that configured the board gets USB mode, from every state.
HostIsServed == host_present ~> [](host_present /\ pc = "frames" => state = "USB_MODE")

\* A clip whose signal never comes back does not stay open.
LossClosesClip == <>[]~sig => []<>~clip.open

(***************************************************************************)
(* A dead write path is always let go of: the clip is closed by the next   *)
(* recorder_task, or replaced by a rollover that comes first.              *)
(***************************************************************************)
DeadPathReleased == clip.error ~> ~clip.error
=============================================================================

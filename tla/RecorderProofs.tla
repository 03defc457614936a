--------------------------- MODULE RecorderProofs ---------------------------
(***************************************************************************)
(* Theorems about Recorder, for every value of its constants.              *)
(***************************************************************************)
EXTENDS Recorder, TLAPS

-----------------------------------------------------------------------------
(* Type correctness *)

LEMMA SaturateType ==
  ASSUME NEW cap \in Nat, NEW n \in Nat
  PROVE  /\ Saturate(n, cap) \in 0 .. cap
         /\ n <= cap => Saturate(n, cap) >= n
         /\ n <= cap => Saturate(n, cap) = n
BY DEF Saturate

LEMMA StampType ==
  ASSUME TypeOK, NEW ts
  PROVE  Stamp(ts) \in [Timers -> 0 .. TimerWrap - 1]
BY TimesOrdered DEF Stamp, TypeOK

LEMMA ClipValues == NoClip \in Clips /\ Fresh \in Clips
<1>1. NoClip \in Clips
  BY CountsPositive DEF NoClip, Clips
<1> QED BY <1>1 DEF Fresh, Clips

LEMMA ToggleType ==
  ASSUME TypeOK, RecorderToggle
  PROVE  state' \in States /\ clip' \in Clips /\ age' \in [Timers -> 0 .. TimerWrap - 1]
BY ClipValues, StampType
   DEF TypeOK, RecorderToggle, StartOrError, ClipStart, Enter, UserStopState, States

LEMMA MountType ==
  ASSUME TypeOK, NEW ok \in BOOLEAN, Mount(ok)
  PROVE  mounted' \in BOOLEAN /\ card' \in CardStates /\ clip' \in Clips
BY DEF TypeOK, Mount, CardStates, Clips

LEMMA AddFrameType ==
  ASSUME TypeOK, NEW c \in Clips, NEW a \in [Timers -> 0 .. TimerWrap - 1],
         AddFrame(c, a)
  PROVE  clip' \in Clips /\ age' \in [Timers -> 0 .. TimerWrap - 1]
<1>1. CASE clip' = [c EXCEPT !.error = TRUE] /\ age' = a
  BY <1>1 DEF Clips
<1>2. ASSUME NEW ok \in BOOLEAN,
             LET due == RefreshDue(c.unrefreshed + 1)
             IN  clip' = [c EXCEPT
                   !.frames = Saturate(c.frames + 1, SegFrames),
                   !.unrefreshed = IF due THEN 0 ELSE c.unrefreshed + 1,
                   !.exposed = IF due /\ ok THEN 0 ELSE c.exposed + 1,
                   !.error = ~ok],
             age' = Stamp({"last"})
      PROVE  clip' \in Clips /\ age' \in [Timers -> 0 .. TimerWrap - 1]
  <2>1. Saturate(c.frames + 1, SegFrames) \in 0 .. SegFrames
    <3>1. c.frames + 1 \in Nat /\ SegFrames \in Nat
      BY CountsPositive DEF Clips
    <3> QED BY <3>1, SaturateType
  <2>2. (IF RefreshDue(c.unrefreshed + 1) THEN 0 ELSE c.unrefreshed + 1)
          \in 0 .. RefreshEvery
    BY CountsPositive DEF Clips, RefreshDue
  <2>3. (IF RefreshDue(c.unrefreshed + 1) /\ ok THEN 0 ELSE c.exposed + 1) \in Nat
    BY DEF Clips
  <2>4. clip' \in Clips
    BY <1>2, <2>1, <2>2, <2>3 DEF Clips
  <2> QED BY <1>2, <2>4, StampType
<1> QED BY <1>1, <1>2 DEF AddFrame

LEMMA TaskType ==
  ASSUME TypeOK, RecorderTask
  PROVE  TypeOK'
<1> DEFINE Ages == [Timers -> 0 .. TimerWrap - 1]
<1>1. /\ pc' \in Phases /\ stall' \in 0 .. MaxStall
      /\ auto_record' \in BOOLEAN /\ host_present' \in BOOLEAN
      /\ card_present' \in BOOLEAN /\ flaky' \in BOOLEAN /\ sig' \in BOOLEAN
      /\ pipe' \in BOOLEAN /\ queued' \in 0 .. Slots
  BY TimesOrdered DEF TypeOK, RecorderTask, worldVars, Phases
<1> SUFFICES /\ state' \in States /\ clip' \in Clips /\ age' \in Ages
             /\ mounted' \in BOOLEAN /\ card' \in CardStates /\ card_ready' \in BOOLEAN
  BY <1>1 DEF TypeOK
<1>2. CASE HandOver
  BY <1>2, ClipValues, StampType DEF TypeOK, HandOver, States, CardStates
<1>3. CASE TaskNoCard
  BY <1>3, MountType, StampType DEF TypeOK, TaskNoCard, Enter, States
<1>4. CASE TaskWaitSignal
  BY <1>4, ClipValues, StampType
     DEF TypeOK, TaskWaitSignal, StartOrError, ClipStart, States
<1>5. CASE TaskRecording
  <2>1. CASE AddEmpties /\ UNCHANGED <<state, mounted, card, card_ready>>
    <3>1. Owed \in 0 .. age["last"] /\ age["last"] - Owed \in 0 .. TimerWrap - 1
      BY TimesOrdered DEF Owed, TypeOK, Timers
    <3>2. age' \in Ages
      BY <2>1, <3>1 DEF AddEmpties, TypeOK
    <3>3. /\ Saturate(clip.frames + Owed, SegFrames) \in 0 .. SegFrames
          /\ Saturate(clip.unrefreshed + Owed, RefreshEvery) \in 0 .. RefreshEvery
      <4>1. /\ clip.frames + Owed \in Nat /\ SegFrames \in Nat
            /\ clip.unrefreshed + Owed \in Nat /\ RefreshEvery \in Nat
        BY <3>1, CountsPositive, TimesOrdered DEF TypeOK, Clips, Timers
      <4> QED BY <4>1, SaturateType
    <3>4. clip' \in Clips
      BY <2>1, <3>3 DEF AddEmpties, TypeOK, Clips
    <3> QED BY <2>1, <3>2, <3>4 DEF TypeOK
  <2>2. CASE ~AddEmpties
    BY <1>5, <2>2, ClipValues, StampType DEF TypeOK, TaskRecording, States
  <2> QED BY <1>5, <2>1, <2>2, ClipValues, StampType DEF TypeOK, TaskRecording, States
<1>6. CASE TaskError
  BY <1>6, StampType DEF TypeOK, TaskError, Enter, MountedAfterError, States
<1>7. CASE TaskIdle
  BY <1>7 DEF TypeOK, TaskIdle
<1> QED BY <1>2, <1>3, <1>4, <1>5, <1>6, <1>7 DEF RecorderTask

(***************************************************************************)
(* The recorder's variables keep their types: the saturating counters, the *)
(* wrapping stamps and the ring depth stay in range along every path.      *)
(***************************************************************************)
THEOREM TypeCorrect == Spec => []TypeOK
<1>1. Init => TypeOK
  <2> SUFFICES ASSUME Init PROVE TypeOK
    OBVIOUS
  <2>1. pc \in Phases /\ state \in States /\ clip \in Clips
    BY ClipValues DEF Init, Phases, States
  <2>2. age \in [Timers -> 0 .. TimerWrap - 1]
    BY TimesOrdered DEF Init
  <2>3. host_present \in BOOLEAN /\ card \in CardStates
    BY DEF Init, CardStates
  <2>4. card_present \in BOOLEAN
    BY DEF Init
  <2>5. stall \in 0 .. MaxStall /\ queued \in 0 .. Slots
    BY TimesOrdered, CountsPositive DEF Init
  <2> QED BY <2>1, <2>2, <2>3, <2>4, <2>5 DEF Init, TypeOK
<1>2. TypeOK /\ [Next]_vars => TypeOK'
  <2> SUFFICES ASSUME TypeOK, [Next]_vars PROVE TypeOK'
    OBVIOUS
  <2>1. CASE ConsolePoll
    <3>1. /\ pc' = "fclink" /\ UNCHANGED <<stall, usbVars, flaky, sig, queued>>
      BY <2>1 DEF ConsolePoll
    <3>2. CASE RecorderToggle /\ UNCHANGED <<auto_record, mounted, card, pipe>>
      BY <3>1, <3>2, ToggleType DEF TypeOK, usbVars, Phases
    <3>3. CASE /\ \E ok \in BOOLEAN : Mount(ok)
               /\ UNCHANGED <<state, auto_record, age, pipe>>
      BY <3>1, <3>3, MountType DEF TypeOK, usbVars, Phases
    <3>4. CASE /\ mounted' = FALSE
               /\ card' = IF card = "live" THEN "cold" ELSE card
               /\ UNCHANGED <<state, auto_record, clip, age, pipe>>
      BY <3>1, <3>4 DEF TypeOK, usbVars, Phases, CardStates
    <3>5. CASE /\ auto_record' \in {auto_record, ~auto_record}
               /\ pipe' \in {pipe, ~pipe}
               /\ UNCHANGED <<state, clip, age, mounted, card>>
      <4>1. auto_record' \in BOOLEAN /\ pipe' \in BOOLEAN
        BY <3>5 DEF TypeOK
      <4> QED BY <3>1, <3>5, <4>1 DEF TypeOK, usbVars, Phases
    <3> QED BY <2>1, <3>2, <3>3, <3>4, <3>5 DEF ConsolePoll
  <2>2. CASE FcEvent
    BY <2>2, ToggleType DEF FcEvent, TypeOK, loopVars, usbVars, worldVars
  <2>3. CASE FcDone
    BY <2>3 DEF FcDone, TypeOK, usbVars, worldVars, Phases
  <2>4. CASE RecorderTask
    BY <2>4, TaskType
  <2>5. CASE OnFrame
    <3>1. queued' \in 0 .. Slots
      <4>1. queued' = queued - 1 /\ queued > 0
        BY <2>5 DEF OnFrame
      <4> QED BY <4>1, CountsPositive DEF TypeOK
    <3>2. state' \in States /\ clip' \in Clips /\ age' \in [Timers -> 0 .. TimerWrap - 1]
      <4>1. clip \in Clips /\ age \in [Timers -> 0 .. TimerWrap - 1]
        BY DEF TypeOK
      <4>2. Stamp({"last"}) \in [Timers -> 0 .. TimerWrap - 1]
        BY StampType
      <4>3. Stamp({"state", "last"}) \in [Timers -> 0 .. TimerWrap - 1]
        BY StampType
      <4> QED
        BY <2>5, <4>1, <4>2, <4>3, AddFrameType, ClipValues
           DEF OnFrame, TypeOK, States
    <3> QED BY <2>5, <3>1, <3>2 DEF OnFrame, TypeOK, loopVars, usbVars, worldVars
  <2>6. CASE FramesDone
    BY <2>6 DEF FramesDone, TypeOK, usbVars, worldVars, Phases
  <2>7. CASE Tick
    <3>1. stall' \in 0 .. MaxStall
      BY <2>7, TimesOrdered DEF Tick, TypeOK
    <3>2. age' \in [Timers -> 0 .. TimerWrap - 1]
      <4>1. ASSUME NEW n \in 0 .. TimerWrap - 1 PROVE Later(n) \in 0 .. TimerWrap - 1
        BY TimesOrdered DEF Later
      <4> QED BY <2>7, <4>1 DEF Tick, TypeOK
    <3>3. queued' \in 0 .. Slots
      BY <2>7, CountsPositive DEF Tick, TypeOK, Saturate
    <3> QED BY <2>7, <3>1, <3>2, <3>3 DEF Tick, TypeOK, usbVars, worldVars
  <2>8. CASE SignalChange \/ FlakyChange
    <3>1. sig' \in BOOLEAN /\ flaky' \in BOOLEAN
      BY <2>8 DEF SignalChange, FlakyChange, TypeOK
    <3> QED BY <2>8, <3>1 DEF SignalChange, FlakyChange, TypeOK, loopVars, usbVars
  <2>9. CASE CardChange
    BY <2>9 DEF CardChange, TypeOK, loopVars, usbVars, worldVars, CardStates
  <2>10. CASE HostConfigures
    BY <2>10 DEF HostConfigures, TypeOK, loopVars, worldVars
  <2>11. CASE UNCHANGED vars
    BY <2>11 DEF vars, TypeOK
  <2> QED
    BY <2>1, <2>2, <2>3, <2>4, <2>5, <2>6, <2>7, <2>8, <2>9, <2>10, <2>11
       DEF Next, Loop, Surroundings
<1> QED BY <1>1, <1>2, PTL DEF Spec

-----------------------------------------------------------------------------
(* Who owns the card.  The two parts of CardInv are inductive together once *)
(* the types are known; the steps of the abstract card need them both.     *)

CardStep == Ownership!Next \/ UNCHANGED <<Owner, clip.open>>

LEMMA ClipOpens == Fresh.open = TRUE /\ NoClip.open = FALSE
BY DEF Fresh, NoClip

\* A frame never opens or closes a clip.
LEMMA AddFrameOpen ==
  ASSUME NEW c \in Clips, NEW a, AddFrame(c, a)
  PROVE  clip'.open = c.open
BY DEF AddFrame, Clips

(* The steps of the abstract card, by what becomes of owner and clip. *)
LEMMA OwnerSteps ==
  /\ ~card_ready /\ ~card_ready' /\ mounted /\ mounted' /\ clip'.open = TRUE
       => CardStep
  /\ clip.open /\ clip'.open = FALSE /\ Owner' = Owner => CardStep
  /\ ~card_ready /\ ~card_ready' /\ mounted /\ ~mounted' /\ clip'.open = FALSE
       => CardStep
  /\ ~card_ready /\ card_ready' /\ clip'.open = FALSE => CardStep
  /\ ~card_ready /\ ~card_ready' /\ ~mounted /\ mounted' /\ clip'.open = clip.open
       => CardStep
  /\ Owner' = Owner /\ clip'.open = clip.open => CardStep
<1> USE DEF CardStep, Ownership!Next, Owner
<1>1. /\ ~card_ready /\ ~card_ready' /\ mounted /\ mounted' /\ clip'.open = TRUE
        => Ownership!Open
  BY DEF Ownership!Open
<1>2. clip.open /\ clip'.open = FALSE /\ Owner' = Owner => Ownership!Close
  BY DEF Ownership!Close
<1>3. /\ ~card_ready /\ ~card_ready' /\ mounted /\ ~mounted' /\ clip'.open = FALSE
        => Ownership!GiveUp
  BY DEF Ownership!GiveUp
<1>4. ~card_ready /\ card_ready' /\ clip'.open = FALSE => Ownership!Release
  BY DEF Ownership!Release
<1>5. /\ ~card_ready /\ ~card_ready' /\ ~mounted /\ mounted' /\ clip'.open = clip.open
        => Ownership!Mount
  BY DEF Ownership!Mount
<1> QED BY <1>1, <1>2, <1>3, <1>4, <1>5

LEMMA ToggleCard ==
  ASSUME TypeOK, CardInv, RecorderToggle, UNCHANGED <<mounted, usbVars>>
  PROVE  CardInv' /\ CardStep
<1> USE DEF CardInv, ClipOnMountedCard, FirmwareOffHostCard
<1>1. UNCHANGED <<mounted, card_ready, host_present, Owner>>
  BY DEF usbVars, Owner
<1>2. CASE state = "RECORDING" /\ clip' = NoClip /\ state' = UserStopState
  BY <1>1, <1>2, ClipOpens, OwnerSteps DEF UserStopState
<1>3. CASE state # "RECORDING" /\ ~mounted /\ Enter("NO_CARD") /\ UNCHANGED clip
  BY <1>1, <1>3, OwnerSteps DEF Enter
<1>4. CASE state # "RECORDING" /\ mounted /\ StartOrError
  <2>1. clip.open = FALSE /\ ~card_ready
    BY <1>4 DEF TypeOK, Clips
  <2>2. CASE clip' = Fresh /\ state' = "RECORDING"
    BY <1>1, <1>4, <2>1, <2>2, ClipOpens, OwnerSteps
  <2>3. CASE clip' = NoClip /\ state' = "ERROR"
    BY <1>1, <2>1, <2>3, ClipOpens, OwnerSteps
  <2> QED BY <1>4, <2>2, <2>3 DEF StartOrError, ClipStart
<1> QED BY <1>2, <1>3, <1>4 DEF RecorderToggle

LEMMA HandOverCard ==
  ASSUME TypeOK, CardInv, HandOver, UNCHANGED <<host_present, card_present>>
  PROVE  CardInv' /\ CardStep
<1> USE DEF CardInv, ClipOnMountedCard, FirmwareOffHostCard
<1>1. ~mounted' /\ clip'.open = FALSE /\ state' = "USB_MODE" /\ host_present'
  BY ClipOpens DEF HandOver, HostTakesOver
<1>2. card_ready => card_ready'
  BY DEF HandOver
<1>3. CardInv'
  BY <1>1
<1>4. CASE ~card_ready /\ card_ready'
  BY <1>1, <1>4, OwnerSteps
<1>5. CASE ~card_ready' /\ mounted
  BY <1>1, <1>2, <1>5, OwnerSteps
<1>6. CASE (card_ready <=> card_ready') /\ ~mounted
  <2>1. Owner' = Owner /\ clip.open = FALSE
    BY <1>1, <1>6 DEF Owner, TypeOK, Clips
  <2> QED BY <1>1, <1>3, <2>1, OwnerSteps
<1>7. CASE card_ready
  <2>1. Owner' = Owner /\ clip.open = FALSE
    BY <1>2, <1>7 DEF Owner, TypeOK, Clips
  <2> QED BY <1>1, <1>3, <2>1, OwnerSteps
<1> QED BY <1>2, <1>3, <1>4, <1>5, <1>6, <1>7

LEMMA TaskCard ==
  ASSUME TypeOK, CardInv, RecorderTask
  PROVE  CardInv' /\ CardStep
<1>1. UNCHANGED <<host_present, card_present>>
  BY DEF RecorderTask
<1>2. CASE HandOver
  BY <1>1, <1>2, HandOverCard
<1>3. CASE ~HostTakesOver /\ TaskNoCard
  <2> USE DEF TypeOK, CardInv, ClipOnMountedCard, FirmwareOffHostCard
  <2>1. CASE /\ UNCHANGED <<clip, mounted, card>>
             /\ state' = "NO_CARD" \/ (state' = "WAIT_SIGNAL" /\ mounted)
    <3>1. state = "NO_CARD" /\ UNCHANGED card_ready
      BY <1>3 DEF TaskNoCard
    <3> QED BY <1>1, <2>1, <3>1, OwnerSteps DEF Owner
  <2>2. CASE /\ ~mounted
             /\ \E ok \in BOOLEAN : /\ Mount(ok)
                                   /\ state' = IF ok THEN "WAIT_SIGNAL" ELSE state
    <3>1. state = "NO_CARD" /\ UNCHANGED card_ready
      BY <1>3 DEF TaskNoCard
    <3>2. ~host_present /\ ~card_ready /\ ~card_ready' /\ ~clip.open
      BY <1>3, <3>1 DEF HostTakesOver
    <3>3. /\ clip' = [clip EXCEPT !.valid = FALSE]
          /\ state' = "NO_CARD" \/ (state' = "WAIT_SIGNAL" /\ mounted')
      BY <2>2, <3>1 DEF Mount
    <3>4. clip'.open = clip.open
      BY <3>3 DEF Clips
    <3>5. CardInv'
      BY <3>2, <3>3, <3>4
    <3>6. CardStep
      BY <2>2, <3>2, <3>4, OwnerSteps DEF Mount, Owner
    <3> QED BY <3>5, <3>6
  <2>3. state = "NO_CARD"
    BY <1>3 DEF TaskNoCard
  <2> QED BY <1>3, <2>1, <2>2, <2>3 DEF TaskNoCard, Enter
<1>4. CASE TaskWaitSignal
  <2> USE DEF CardInv, ClipOnMountedCard, FirmwareOffHostCard
  <2>1. /\ state = "WAIT_SIGNAL" /\ clip.open = FALSE
        /\ UNCHANGED <<mounted, card_ready, host_present, Owner>>
    BY <1>1, <1>4 DEF TaskWaitSignal, TypeOK, Clips, Owner
  <2>2. CASE UNCHANGED <<state, clip>>
    BY <2>1, <2>2, OwnerSteps
  <2>3. CASE clip' = Fresh /\ state' = "RECORDING"
    BY <2>1, <2>3, ClipOpens, OwnerSteps
  <2>4. CASE clip' = NoClip /\ state' = "ERROR"
    BY <2>1, <2>4, ClipOpens, OwnerSteps
  <2> QED BY <1>4, <2>2, <2>3, <2>4 DEF TaskWaitSignal, StartOrError, ClipStart
<1>5. CASE TaskRecording
  <2> USE DEF CardInv, ClipOnMountedCard, FirmwareOffHostCard
  <2>1. /\ clip.open = TRUE /\ mounted /\ ~card_ready /\ ~card_ready'
        /\ state = "RECORDING"
    BY <1>5 DEF TaskRecording, TypeOK, Clips
  <2>2. CASE /\ clip' = NoClip
             /\ state' = "NO_CARD" \/ (state' = "WAIT_SIGNAL" /\ mounted')
    <3>1. clip'.open = FALSE /\ CardInv'
      BY <2>1, <2>2, ClipOpens
    <3>2. CASE mounted'
      BY <2>1, <3>1, <3>2, OwnerSteps DEF Owner
    <3>3. CASE ~mounted'
      BY <2>1, <3>1, <3>3, OwnerSteps
    <3> QED BY <3>1, <3>2, <3>3
  <2>3. CASE clip'.open = TRUE /\ UNCHANGED <<state, mounted>>
    BY <2>1, <2>3, OwnerSteps
  <2>4. AddEmpties => clip'.open = TRUE
    BY <2>1 DEF AddEmpties, TypeOK, Clips
  <2>5. UNCHANGED clip => clip'.open = TRUE
    BY <2>1
  <2> QED BY <1>5, <2>1, <2>2, <2>3, <2>4, <2>5 DEF TaskRecording
<1>6. CASE TaskError
  <2> USE DEF CardInv, ClipOnMountedCard, FirmwareOffHostCard
  <2>1. /\ state = "ERROR" /\ state' \in {"ERROR", "NO_CARD"}
        /\ clip.open = FALSE /\ clip'.open = FALSE
        /\ UNCHANGED <<card_ready, host_present>>
    BY <1>1, <1>6 DEF TaskError, Enter, TypeOK, Clips
  <2>2. CASE UNCHANGED mounted
    BY <2>1, <2>2, OwnerSteps DEF Owner
  <2>3. CASE mounted' = FALSE
    BY <2>1, <2>3, OwnerSteps DEF Owner, TypeOK
  <2> QED BY <1>6, <2>2, <2>3 DEF TaskError, MountedAfterError
<1>7. CASE TaskIdle
  BY <1>1, <1>7, OwnerSteps
     DEF TypeOK, CardInv, ClipOnMountedCard, FirmwareOffHostCard, TaskIdle, Owner
<1> QED BY <1>2, <1>3, <1>4, <1>5, <1>6, <1>7 DEF RecorderTask

LEMMA FrameCard ==
  ASSUME TypeOK, CardInv, OnFrame
  PROVE  CardInv' /\ CardStep
<1> USE DEF TypeOK, CardInv, ClipOnMountedCard, FirmwareOffHostCard, usbVars
<1>1. UNCHANGED <<mounted, card_ready, host_present>>
  BY DEF OnFrame
<1>2. CASE UNCHANGED state /\ clip'.open = clip.open
  BY <1>1, <1>2, OwnerSteps DEF Owner
<1>3. CASE clip.open /\ clip' = NoClip /\ state' = "ERROR"
  BY <1>1, <1>3, ClipOpens, OwnerSteps DEF Owner
<1> QED BY <1>2, <1>3, AddFrameOpen, ClipOpens, ClipValues DEF OnFrame

(* With no bench command every step keeps CardInv and is one of the card's. *)
LEMMA NextCard ==
  ASSUME BenchOff, TypeOK, CardInv, [Next]_vars
  PROVE  CardInv' /\ CardStep
<1>1. CASE ConsolePoll
  <2>1. UNCHANGED usbVars
    BY <1>1 DEF ConsolePoll
  <2>2. CASE RecorderToggle /\ UNCHANGED mounted
    BY <2>1, <2>2, ToggleCard
  <2>3. CASE UNCHANGED <<state, clip, mounted>>
    BY <2>1, <2>3
       DEF CardInv, ClipOnMountedCard, FirmwareOffHostCard, CardStep, Owner, usbVars
  <2>4. "M" \notin Commands /\ "W" \notin Commands
    BY DEF BenchOff
  <2> QED BY <1>1, <2>2, <2>3, <2>4 DEF ConsolePoll
<1>2. CASE FcEvent
  BY <1>2, ToggleCard DEF FcEvent
<1>3. CASE RecorderTask
  BY <1>3, TaskCard
<1>4. CASE OnFrame
  BY <1>4, FrameCard
<1>5. CASE HostConfigures
  BY <1>5 DEF HostConfigures, loopVars, CardInv, ClipOnMountedCard,
              FirmwareOffHostCard, CardStep, Owner
<1>6. CASE \/ FcDone \/ FramesDone \/ Tick \/ SignalChange \/ CardChange
           \/ FlakyChange \/ UNCHANGED vars
  <2>1. UNCHANGED <<state, clip, mounted, usbVars>>
    BY <1>6 DEF FcDone, FramesDone, Tick, SignalChange, CardChange, FlakyChange,
                vars, usbVars
  <2> QED BY <2>1 DEF CardInv, ClipOnMountedCard, FirmwareOffHostCard, CardStep,
                      Owner, usbVars
<1> QED BY <1>1, <1>2, <1>3, <1>4, <1>5, <1>6 DEF Next, Loop, Surroundings

LEMMA InitCard == Init => CardInv /\ Ownership!Init
BY ClipOpens DEF Init, CardInv, ClipOnMountedCard, FirmwareOffHostCard, Owner,
                 Ownership!Init

(***************************************************************************)
(* Without the bench commands a clip is open exactly while RECORDING, on a *)
(* mounted volume, and FatFs is off a card released to the host: for every *)
(* timing, ring size, segment length and interleaving of the surroundings. *)
(***************************************************************************)
THEOREM CardSafe ==
  ASSUME BenchOff
  PROVE  Spec => []CardInv
<1>1. Init => CardInv
  BY InitCard
<1>2. TypeOK /\ CardInv /\ [Next]_vars => CardInv'
  BY NextCard
<1> QED BY <1>1, <1>2, TypeCorrect, PTL DEF Spec

(***************************************************************************)
(* Without the bench commands the recorder implements CardOwnership: every *)
(* step of it mounts, opens, closes, gives up or releases the card as the  *)
(* abstract specification allows, or leaves owner and clip alone.          *)
(***************************************************************************)
THEOREM RefinesOwnership ==
  ASSUME BenchOff
  PROVE  Spec => OwnershipKept
<1>1. Init => Ownership!Init /\ CardInv
  BY InitCard
<1>2. TypeOK /\ CardInv /\ [Next]_vars
        => CardInv' /\ [Ownership!Next]_(Ownership!vars)
  BY NextCard DEF CardStep, Ownership!vars
<1> QED BY <1>1, <1>2, TypeCorrect, PTL DEF Spec, OwnershipKept, Ownership!Spec

-----------------------------------------------------------------------------
(* How much of a clip a power cut may cost.  What keeps the bound is that  *)
(* empty frames count towards the next refresh and never towards the       *)
(* pictures at risk, so those never overtake the counter that triggers it. *)

Covered(c) ==
  /\ c.exposed <= RefreshEvery
  /\ ~c.error => c.exposed < RefreshEvery /\ c.exposed <= c.unrefreshed

LEMMA FreshCovered == Covered(NoClip) /\ Covered(Fresh)
<1>1. NoClip.exposed = 0 /\ NoClip.unrefreshed = 0
  BY DEF NoClip
<1>2. Fresh.exposed = 0 /\ Fresh.unrefreshed = 0
  BY DEF NoClip, Fresh
<1> QED BY <1>1, <1>2, CountsPositive DEF Covered

LEMMA AddFrameCovered ==
  ASSUME NEW c \in Clips, NEW a, Covered(c), AddFrame(c, a)
  PROVE  Covered(clip')
<1>1. CASE clip' = [c EXCEPT !.error = TRUE]
  <2>1. clip'.error /\ clip'.exposed = c.exposed
    BY <1>1 DEF Clips
  <2> QED BY <2>1 DEF Covered
<1>2. ASSUME ~c.error,
             NEW ok \in BOOLEAN,
             ~ok => RefreshDue(c.unrefreshed + 1),
             LET due == RefreshDue(c.unrefreshed + 1)
             IN  clip' = [c EXCEPT
                   !.frames = Saturate(c.frames + 1, SegFrames),
                   !.unrefreshed = IF due THEN 0 ELSE c.unrefreshed + 1,
                   !.exposed = IF due /\ ok THEN 0 ELSE c.exposed + 1,
                   !.error = ~ok]
      PROVE  Covered(clip')
  <2> DEFINE due == RefreshDue(c.unrefreshed + 1)
  <2>1. /\ clip'.unrefreshed = IF due THEN 0 ELSE c.unrefreshed + 1
        /\ clip'.exposed = IF due /\ ok THEN 0 ELSE c.exposed + 1
        /\ clip'.error = ~ok
    BY <1>2 DEF Clips
  <2>2. /\ c.exposed \in Nat /\ c.unrefreshed \in Nat /\ RefreshEvery \in Nat \ {0}
        /\ c.exposed < RefreshEvery /\ c.exposed <= c.unrefreshed
    BY <1>2, CountsPositive DEF Clips, Covered
  <2>3. CASE due
    <3>1. ok => clip'.exposed = 0 /\ clip'.unrefreshed = 0
      BY <2>1, <2>3
    <3>2. ~ok => clip'.exposed = c.exposed + 1 /\ clip'.error
      BY <2>1, <2>3
    <3> QED BY <2>2, <3>1, <3>2 DEF Covered
  <2>4. CASE ~due
    <3>1. ok /\ c.unrefreshed + 1 < RefreshEvery
      BY <1>2, <2>2, <2>4 DEF RefreshDue
    <3> QED BY <2>1, <2>2, <2>4, <3>1 DEF Covered
  <2> QED BY <2>3, <2>4
<1> QED BY <1>1, <1>2 DEF AddFrame

LEMMA EmptiesCovered ==
  ASSUME TypeOK, Covered(clip), AddEmpties
  PROVE  Covered(clip')
<1>1. /\ clip.unrefreshed \in 0 .. RefreshEvery /\ clip.exposed \in Nat
      /\ RefreshEvery \in Nat /\ clip \in Clips
  BY CountsPositive DEF TypeOK, Clips
<1>2. Owed \in Nat
  <2>1. age["last"] \in Nat
    BY TimesOrdered DEF TypeOK, Timers
  <2> QED BY <2>1 DEF Owed
<1>3. PICK failed \in BOOLEAN :
        clip' = [clip EXCEPT
                   !.frames = Saturate(clip.frames + Owed, SegFrames),
                   !.unrefreshed = Saturate(clip.unrefreshed + Owed, RefreshEvery),
                   !.error = clip.error \/ failed]
  BY DEF AddEmpties
<1>4. /\ clip'.exposed = clip.exposed
      /\ clip'.unrefreshed = Saturate(clip.unrefreshed + Owed, RefreshEvery)
      /\ clip'.error = (clip.error \/ failed)
  BY <1>1, <1>3 DEF Clips
<1>5. clip'.unrefreshed >= clip.unrefreshed /\ clip'.unrefreshed \in Nat
  BY <1>1, <1>2, <1>4 DEF Saturate
<1>6. ~clip'.error => ~clip.error
  BY <1>4
<1> QED BY <1>1, <1>4, <1>5, <1>6 DEF Covered

(***************************************************************************)
(* A power cut costs fewer than RefreshEvery pictures of a clip whose      *)
(* write path works, and at most RefreshEvery of one whose last refresh    *)
(* failed: whatever the console, the pilot, the card and the host do.      *)
(***************************************************************************)
THEOREM ExposureBounded == Spec => []ExposureBound
<1>1. Init => Covered(clip)
  BY FreshCovered DEF Init
<1>2. TypeOK /\ Covered(clip) /\ [Next]_vars => Covered(clip)'
  <2> SUFFICES ASSUME TypeOK, Covered(clip), [Next]_vars PROVE Covered(clip')
    OBVIOUS
  <2>1. CASE clip' \in {clip, NoClip, Fresh}
    BY <2>1, FreshCovered
  <2>2. RecorderToggle => clip' \in {clip, NoClip, Fresh}
    BY DEF RecorderToggle, StartOrError, ClipStart
  <2>3. ASSUME NEW ok \in BOOLEAN, Mount(ok) PROVE Covered(clip')
    BY <2>3 DEF Mount, Covered, TypeOK, Clips
  <2>4. CASE ConsolePoll
    BY <2>1, <2>2, <2>3, <2>4 DEF ConsolePoll
  <2>5. CASE RecorderTask
    <3>1. TaskNoCard => Covered(clip')
      BY <2>1, <2>3 DEF TaskNoCard
    <3>2. TaskRecording => Covered(clip')
      BY <2>1, EmptiesCovered DEF TaskRecording
    <3>3. HandOver \/ TaskWaitSignal \/ TaskError \/ TaskIdle
            => clip' \in {clip, NoClip, Fresh}
      BY DEF HandOver, TaskWaitSignal, StartOrError, ClipStart, TaskError, TaskIdle
    <3> QED BY <2>1, <2>5, <3>1, <3>2, <3>3 DEF RecorderTask
  <2>6. CASE OnFrame
    <3>1. clip \in Clips /\ Fresh \in Clips
      BY ClipValues DEF TypeOK
    <3> QED BY <2>1, <2>6, <3>1, AddFrameCovered, FreshCovered DEF OnFrame
  <2>7. CASE FcEvent
    BY <2>1, <2>2, <2>7 DEF FcEvent
  <2>8. CASE \/ FcDone \/ FramesDone \/ Surroundings \/ UNCHANGED vars
    BY <2>1, <2>8 DEF FcDone, FramesDone, Surroundings, Tick, SignalChange,
                      CardChange, FlakyChange, HostConfigures, vars
  <2> QED BY <2>4, <2>5, <2>6, <2>7, <2>8 DEF Next, Loop
<1>3. Covered(clip) => ExposureBound
  BY DEF Covered, ExposureBound
<1> QED BY <1>1, <1>2, <1>3, TypeCorrect, PTL DEF Spec

-----------------------------------------------------------------------------
(***************************************************************************)
(* A stop the user asked for sticks: a command that closes the clip leaves *)
(* MANUAL_STOP behind, and from there no task, no frame and no change of   *)
(* the surroundings moves the recorder on, except into USB_MODE.           *)
(***************************************************************************)
THEOREM StopSticks ==
  ASSUME BenchOff
  PROVE  Spec => UserStopSticks
<1> DEFINE Sticks ==
      /\ pc \in {"console", "fclink"} /\ clip.open /\ ~clip'.open
           => state' = "MANUAL_STOP"
      /\ state = "MANUAL_STOP" /\ pc \notin {"console", "fclink"}
           => state' \in {"MANUAL_STOP", "USB_MODE"}
<1>1. TypeOK /\ ClipOnMountedCard /\ [Next]_vars => [Sticks]_vars
  <2> SUFFICES ASSUME TypeOK, ClipOnMountedCard, [Next]_vars PROVE Sticks
    OBVIOUS
  <2>1. CASE UNCHANGED <<state, clip>>
    BY <2>1
  <2>2. CASE pc \in {"console", "fclink"} /\ RecorderToggle
    BY <2>2 DEF RecorderToggle, UserStopState, ClipOnMountedCard, Enter
  <2>3. CASE ConsolePoll
    <3>1. "M" \notin Commands /\ pc = "console"
      BY <2>3 DEF BenchOff, ConsolePoll
    <3> QED BY <2>1, <2>2, <2>3, <3>1 DEF ConsolePoll
  <2>4. CASE FcEvent
    BY <2>2, <2>4 DEF FcEvent
  <2>5. CASE RecorderTask
    BY <2>5 DEF RecorderTask, HandOver, TaskNoCard, TaskWaitSignal, TaskRecording,
                TaskError, TaskIdle
  <2>6. CASE OnFrame
    BY <2>6 DEF OnFrame
  <2>7. CASE FcDone \/ FramesDone \/ Surroundings \/ UNCHANGED vars
    BY <2>1, <2>7 DEF FcDone, FramesDone, Surroundings, Tick, SignalChange,
                      CardChange, FlakyChange, HostConfigures, vars
  <2> QED BY <2>3, <2>4, <2>5, <2>6, <2>7 DEF Next, Loop
<1>2. CardInv => ClipOnMountedCard
  BY DEF CardInv
<1> QED BY <1>1, <1>2, TypeCorrect, CardSafe, PTL DEF Spec, UserStopSticks
=============================================================================

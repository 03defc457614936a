-------------------------------- MODULE RunCam --------------------------------
(***************************************************************************)
(* The flight controller's link: the byte framer of the RunCam protocol    *)
(* (runcam.c) and what its frames ask of the recorder (fclink.c).  The     *)
(* frames carry no length and no end mark, so a byte that is lost, added   *)
(* or spoilt leaves the framer to find the next header by itself.          *)
(***************************************************************************)
EXTENDS Integers, Sequences, FiniteSetsExt, SequencesExt

CONSTANTS
  Wire      \* bytes the line may carry

ASSUME RunCamConstants == Wire \subseteq 0..255

VARIABLES
  framer,   \* buf of rcam_t
  fc,       \* the recorder as the link sees it: active
  line      \* history: the last four bytes since the last frame or gap, and the frame if the
            \* last of them completed one

runCamVars == <<framer, fc, line>>

HDR == 204                       \* 0xCC
CONTROL == 1
NoFrame == << >>

FramerInit ==
  /\ framer = << >>
  /\ fc = FALSE
  /\ line = [heard |-> << >>, told |-> NoFrame]

-----------------------------------------------------------------------------
(* rcam_crc8_dvb_s2 *)

BitOf(a, i) == (a \div 2^i) % 2
XorByte(a, b) == MapThenSumSet(LAMBDA i : IF BitOf(a, i) # BitOf(b, i) THEN 2^i ELSE 0, 0..7)
ShiftOut(c) == IF c >= 128 THEN XorByte((2 * c) % 256, 213) ELSE 2 * c

\* What eight shifts make of each byte.
EightShifts ==
  [c \in 0..255 |->
     ShiftOut(ShiftOut(ShiftOut(ShiftOut(ShiftOut(ShiftOut(ShiftOut(ShiftOut(c))))))))]

rcam_crc8_dvb_s2(crc, byte) == EightShifts[XorByte(crc, byte)]
Crc(bytes) == FoldLeft(rcam_crc8_dvb_s2, 0, bytes)

FrameLens == [cmd \in 0..4 |-> IF cmd \in {0, 3} THEN 3 ELSE 4]
Known(cmd) == cmd \in DOMAIN FrameLens

Valid(bytes) ==
  /\ Len(bytes) >= 3 /\ bytes[1] = HDR
  /\ Known(bytes[2]) /\ Len(bytes) = FrameLens[bytes[2]]
  /\ Crc(Front(bytes)) = Last(bytes)

-----------------------------------------------------------------------------
(* The framer *)

\* One byte is dropped, and what comes before the next header after it.
rcam_resync_DropsAll(buf) == << >>
rcam_resync(buf) ==
  LET headers == {i \in 2..Len(buf) : buf[i] = HDR}
  IN  IF headers = {} THEN << >> ELSE SubSeq(buf, Min(headers), Len(buf))

Misframed(buf) ==
  Len(buf) >= 2 /\ (~Known(buf[2]) \/ (Len(buf) = FrameLens[buf[2]] /\ ~Valid(buf)))

\* rcam_scan goes round at most once for each of the four bytes.
Resynced(buf) == IF Misframed(buf) THEN rcam_resync(buf) ELSE buf
rcam_scan(buf) == Resynced(Resynced(Resynced(Resynced(buf))))

\* rcam_feed: noise before a header is dropped, a frame that is whole leaves the buffer.
Fed(byte) ==
  IF framer = << >> THEN (IF byte = HDR THEN <<HDR>> ELSE << >>)
                    ELSE rcam_scan(Append(framer, byte))

Asks(frame, action) == Valid(frame) /\ frame[2] = CONTROL /\ frame[3] = action

-----------------------------------------------------------------------------
(* fclink_poll *)

\* recorder_toggle: a start may fail.
RecorderToggle == fc' \in (IF fc THEN {FALSE} ELSE BOOLEAN)

LastFour(bytes) == IF Len(bytes) > 4 THEN Tail(bytes) ELSE bytes

FcByte(byte) ==
  LET buf == Fed(byte)
      heard == Append(IF line.told = NoFrame THEN line.heard ELSE << >>, byte)
  IN  /\ framer' = IF Valid(buf) THEN << >> ELSE buf
      /\ line' = [heard |-> LastFour(heard), told |-> IF Valid(buf) THEN buf ELSE NoFrame]
      /\ \/ Asks(buf, 1) /\ RecorderToggle                  \* TOGGLE
         \/ Asks(buf, 3) /\ ~fc /\ RecorderToggle           \* START
         \/ Asks(buf, 4) /\ fc /\ RecorderToggle            \* STOP
         \/ /\ ~Asks(buf, 1) /\ ~(Asks(buf, 3) /\ ~fc) /\ ~(Asks(buf, 4) /\ fc)
            /\ UNCHANGED fc

\* A gap of more than 20 ms with part of a frame in the buffer: rcam_idle.
FcGap ==
  /\ framer # << >>
  /\ framer' = << >>
  /\ line' = [heard |-> << >>, told |-> NoFrame]
  /\ UNCHANGED fc

\* The recorder's other command sources, and clips that end by themselves.
RecorderTurns ==
  /\ fc' = ~fc
  /\ UNCHANGED <<framer, line>>

RunCamNext == (\E byte \in Wire : FcByte(byte)) \/ FcGap \/ RecorderTurns

RunCamSpec == FramerInit /\ [][RunCamNext]_runCamVars

-----------------------------------------------------------------------------

FramerTypeOK ==
  /\ framer \in Seq(Wire) /\ Len(framer) <= 3 /\ fc \in BOOLEAN
  /\ framer # << >> => Head(framer) = HDR

Endings(bytes) == {SubSeq(bytes, i, Len(bytes)) : i \in 1..Len(bytes)}

\* Whatever the line mangled before it, a frame that arrives whole after the last one that was
\* dispatched is dispatched with its last byte, and nothing else ever is.
FramesAsSent ==
  {bytes \in Endings(line.heard) : Valid(bytes)} =
    IF line.told = NoFrame THEN {} ELSE {line.told}
=============================================================================

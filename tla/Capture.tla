------------------------------- MODULE Capture -------------------------------
(***************************************************************************)
(* The capture ring (capture.c) and the encoder's use of it (pipeline.c):  *)
(* the decoder's DMA fills one of three buffers row by row and takes the   *)
(* next address when a frame ends; the 1 kHz tick learns from two stamped  *)
(* rows how far it has come, hands over the next address at the ARM row    *)
(* and rotates the ring at the DONE row.  Time passes row by row, with at  *)
(* most one tick to a row: the USB interrupt waits for the card and holds  *)
(* the ticks off for any number of rows and frames.  Every tick samples    *)
(* the standard of the input, where the code takes one of twenty.          *)
(***************************************************************************)
EXTENDS Integers, FiniteSets

CONSTANTS
  Rows,         \* rows of a frame; the last one is the DONE row
  Margin,       \* rows from the ARM row to the end of the frame
  Wedge,        \* ticks with lock and without a frame before a restart (200)
  Escalate,     \* restarts in a row before the decoder is reprogrammed (3)
  Hysteresis,   \* samples that contradict the standard before it is changed (30)
  MaxEncode,    \* rows the encoder may take for a picture
  MaxFaults     \* bound: decoder faults and bench commands in a behaviour

\* An encode takes 3 ms at most; the ARM row, 80 % down a frame of 33 ms, leaves 4 ms and more.
ASSUME CaptureConstants ==
  /\ {Rows, Margin, Wedge, Escalate, Hysteresis, MaxEncode} \subseteq Nat \ {0}
  /\ MaxFaults \in Nat
  /\ MaxEncode <= Margin /\ 2 * Margin < Rows /\ Wedge > 2 * Rows /\ Escalate >= 2

VARIABLES
  ring,    \* wr, done, safe, armed, idle, kick_streak and agree of capture.c; vid_std is PAL
  tvd,     \* the decoder: its lock, whether the input contradicts vid_std, the buffer and row
           \* it writes, the address it holds
  marks,   \* the rows stamped last that nobody has overwritten, as <<buffer, row>>
  enc,     \* the encoder: source, rows still to read, enc_pending; fresh: no restart since
  world    \* a tick is due, the console's step, faults left; history: restarts by the watchdog
           \* since the last picture, or since the console or a fault last touched the decoder,
           \* and whether the input contradicted vid_std since

captureVars == <<ring, tvd, marks, enc, world>>

Buffers == 0..2
None    == -1
ARM     == Rows - 1 - Margin
DONE    == Rows - 1
Stamps(b) == {b} \X {ARM, DONE}
NextBuf(b) == (b + 1) % 3

ResetRing_KeepsSafe(r) == [r EXCEPT !.wr = 0, !.done = None, !.armed = FALSE]

ResetRing(r) == [r EXCEPT !.wr = 0, !.done = None, !.safe = None, !.armed = FALSE]

CaptureInit ==
  /\ ring = [wr |-> 0, done |-> None, safe |-> None, armed |-> FALSE,
             idle |-> 0, streak |-> 0, agree |-> 0, pal |-> FALSE]
  /\ tvd = [locked |-> FALSE, other |-> FALSE, running |-> TRUE, stuck |-> FALSE,
            buf |-> 0, row |-> 0, out |-> 0]
  /\ marks = Stamps(0)
  /\ enc = [src |-> None, left |-> 0, pending |-> None, fresh |-> TRUE]
  /\ world = [due |-> FALSE, bench |-> "no", faults |-> MaxFaults, kicks |-> 0, odd |-> FALSE]

-----------------------------------------------------------------------------
(* The decoder and the input *)

\* A picture of 525 lines leaves the rows below 480 of a PAL buffer alone, the DONE row too.
LastRow == IF tvd.other /\ ring.pal THEN ARM ELSE DONE

RowWritten ==
  /\ marks' = marks \ {<<tvd.buf, tvd.row>>}
  /\ tvd' = IF tvd.row >= LastRow THEN [tvd EXCEPT !.row = 0, !.buf = tvd.out]
                                  ELSE [tvd EXCEPT !.row = @ + 1]

\* One row: a decoder without a signal may run free or stand still.
Row ==
  /\ world' = [world EXCEPT !.due = TRUE]
  /\ enc' = IF enc.left = 0 THEN enc ELSE [enc EXCEPT !.left = @ - 1]
  /\ \/ tvd.running /\ ~tvd.stuck /\ RowWritten
     \/ ~(tvd.running /\ ~tvd.stuck /\ tvd.locked) /\ UNCHANGED <<tvd, marks>>
  /\ UNCHANGED ring

SignalDrops ==
  /\ tvd.locked
  /\ tvd' = [tvd EXCEPT !.locked = FALSE, !.other = FALSE]
  /\ world' = [world EXCEPT !.kicks = 0, !.odd = FALSE]
  /\ UNCHANGED <<ring, marks, enc>>

\* A decoder that locks again starts at row 0 of whatever address it holds.  It takes longer
\* to find its lock than an encode does to end.
Relock(other) ==
  /\ ~tvd.locked /\ enc.left = 0
  /\ tvd' = [tvd EXCEPT !.locked = TRUE, !.other = other, !.buf = tvd.out, !.row = 0]
  /\ UNCHANGED <<ring, marks, enc, world>>

\* A decoder state that only programming it anew clears.
DecoderSticks ==
  /\ world.faults > 0 /\ ~tvd.stuck
  /\ tvd' = [tvd EXCEPT !.stuck = TRUE]
  /\ world' = [world EXCEPT !.faults = @ - 1, !.kicks = 0, !.odd = FALSE]
  /\ UNCHANGED <<ring, marks, enc>>

-----------------------------------------------------------------------------
(* The tick; v is a record of the ring, the decoder, the marks and the encoder *)

View == [ring |-> ring, tvd |-> tvd, marks |-> marks, enc |-> enc]

ring_restart_KeepsArmed(v) ==
  [v EXCEPT !.ring.wr = 0, !.ring.done = None, !.ring.safe = None,
            !.tvd.buf = 0, !.tvd.row = 0, !.tvd.out = 0, !.tvd.running = TRUE,
            !.marks = Stamps(0), !.enc.fresh = FALSE]

ring_restart(v) ==
  [v EXCEPT !.ring = ResetRing(@),
            !.tvd.buf = 0, !.tvd.row = 0, !.tvd.out = 0, !.tvd.running = TRUE,
            !.marks = Stamps(0), !.enc.fresh = FALSE]

\* The ring is reset as in a restart, and the decoder programmed.
capture_set_standard(v) == [ring_restart(v) EXCEPT !.tvd.stuck = FALSE]

capture_signal_ok(v) == v.tvd.locked

Contradicts(v) == v.tvd.locked /\ v.tvd.other

Wedged(v) == capture_signal_ok(v) /\ v.ring.idle + 1 >= Wedge

ring_watchdog(v) ==
  CASE ~capture_signal_ok(v) -> [v EXCEPT !.ring.idle = 0]
    [] capture_signal_ok(v) /\ ~Wedged(v) -> [v EXCEPT !.ring.idle = @ + 1]
    [] Wedged(v) ->
         IF v.ring.streak + 1 >= Escalate
           THEN [capture_set_standard(v) EXCEPT !.ring.idle = 0, !.ring.streak = 0]
           ELSE [ring_restart(v) EXCEPT !.ring.idle = 0, !.ring.streak = @ + 1]

row_erased(v, row) == <<v.ring.wr, row>> \notin v.marks

ArmNext(v) ==
  IF ~v.ring.armed /\ row_erased(v, ARM)
    THEN [v EXCEPT !.tvd.out = NextBuf(v.ring.wr), !.ring.armed = TRUE] ELSE v

FrameDone(v) == v.ring.armed /\ row_erased(v, DONE)

Rotate(v) ==
  IF FrameDone(v)
    THEN [v EXCEPT !.ring.safe = v.ring.done, !.ring.done = v.ring.wr,
                   !.ring.wr = NextBuf(@), !.ring.armed = FALSE,
                   !.ring.idle = 0, !.ring.streak = 0,
                   !.marks = Stamps(NextBuf(v.ring.wr))]
    ELSE v

\* capture_prev
capture_prev_JustDone(v) == v.ring.done
capture_prev(v) == v.ring.safe

\* What capture_tick returns.
HandsOver(v) == FrameDone(v) /\ v.ring.done # None

\* pipeline_tick: a completed frame is remembered, without a signal forgotten.
Remember(before, v) ==
  IF HandsOver(before)
    THEN [v EXCEPT !.enc.pending = IF capture_signal_ok(v) THEN capture_prev(v) ELSE None,
                   !.enc.fresh = TRUE]
    ELSE v

\* A finished encode is published, and the next one started; the full ring, the freeze and
\* the encoder's time-out are in the module Ring.
Encode(v, rows) ==
  LET free == IF v.enc.left = 0 THEN [v EXCEPT !.enc.src = None] ELSE v
  IN  IF free.enc.src = None /\ free.enc.pending # None
        THEN [free EXCEPT !.enc.src = free.enc.pending, !.enc.pending = None, !.enc.left = rows]
        ELSE free

\* capture_follow_input: the count of contradicting samples leaks, it is not reset.  The stamps
\* of the other height are not those that are looked at from then on.
capture_follow_input(v, noSignal) ==
  CASE noSignal -> [v EXCEPT !.ring.agree = 0]
    [] ~noSignal /\ ~Contradicts(v) -> [v EXCEPT !.ring.agree = IF @ > 0 THEN @ - 1 ELSE 0]
    [] ~noSignal /\ Contradicts(v) /\ v.ring.agree + 1 < Hysteresis ->
         [v EXCEPT !.ring.agree = @ + 1]
    [] OTHER -> [capture_set_standard(v) EXCEPT !.ring.agree = 0, !.ring.pal = ~@,
                                                !.tvd.other = FALSE, !.marks = Stamps(0)]

\* Without V_LOCK there may or may not be a signal; the encoder takes its time.
Tick ==
  /\ world.due
  /\ \E rows \in 1..MaxEncode, noSignal \in BOOLEAN :
       /\ noSignal => ~tvd.locked
       /\ LET armed   == ArmNext(ring_watchdog(View))
              ticked  == Remember(armed, Rotate(armed))
              v       == capture_follow_input(Encode(ticked, rows), noSignal)
          IN  /\ ring' = v.ring /\ tvd' = v.tvd /\ marks' = v.marks /\ enc' = v.enc
              /\ world' = IF HandsOver(armed) \/ ~tvd.locked
                            THEN [world EXCEPT !.due = FALSE, !.kicks = 0, !.odd = FALSE]
                            ELSE [world EXCEPT !.due = FALSE, !.odd = @ \/ Contradicts(View),
                                               !.kicks = IF Wedged(View) THEN @ + 1 ELSE @]

-----------------------------------------------------------------------------
(* The console's capture_set_standard runs in the main loop: ticks come in between *)

\* The other standard, or the same one for another format.
BenchResets(other) ==
  /\ world.bench = "no" /\ world.faults > 0
  /\ world' = [world EXCEPT !.bench = "off", !.faults = @ - 1, !.kicks = 0, !.odd = FALSE]
  /\ ring' = [ResetRing(ring) EXCEPT !.pal = @ # other]
  /\ tvd' = [tvd EXCEPT !.running = FALSE, !.other = tvd.locked /\ @ # other]
  /\ enc' = [enc EXCEPT !.fresh = FALSE]
  /\ marks' = IF other THEN {} ELSE marks

\* capture_stop: nothing keeps the watchdog from starting the ring again.
BenchStops ==
  /\ world.bench = "no" /\ world.faults > 0
  /\ world' = [world EXCEPT !.faults = @ - 1, !.kicks = 0, !.odd = FALSE]
  /\ ring' = [ring EXCEPT !.done = None, !.safe = None]
  /\ tvd' = [tvd EXCEPT !.running = FALSE]
  /\ UNCHANGED <<marks, enc>>

BenchStarts ==
  /\ world.bench = "off"
  /\ world' = [world EXCEPT !.bench = "unstamped", !.kicks = 0, !.odd = FALSE]
  /\ tvd' = [tvd EXCEPT !.running = TRUE, !.stuck = FALSE,
                        !.out = ring.wr, !.buf = ring.wr, !.row = 0]
  /\ enc' = [enc EXCEPT !.fresh = FALSE]
  /\ UNCHANGED <<ring, marks>>

BenchStamps ==
  /\ world.bench = "unstamped"
  /\ world' = [world EXCEPT !.bench = "no", !.kicks = 0, !.odd = FALSE]
  /\ marks' = Stamps(ring.wr)
  /\ UNCHANGED <<ring, tvd, enc>>

CaptureNext ==
  \/ Row
  \/ Tick
  \/ SignalDrops
  \/ \E other \in BOOLEAN : Relock(other)
  \/ DecoderSticks
  \/ \E other \in BOOLEAN : BenchResets(other)
  \/ BenchStops
  \/ BenchStarts
  \/ BenchStamps

CaptureSpec == CaptureInit /\ [][CaptureNext]_captureVars

-----------------------------------------------------------------------------

\* The three roles of the ring never fall on one buffer.
CaptureTypeOK ==
  /\ ring.wr \in Buffers /\ {ring.done, ring.safe} \subseteq Buffers \union {None}
  /\ ring.done # ring.wr /\ ring.safe # ring.wr
  /\ ring.safe # None => ring.done # None /\ ring.safe # ring.done
  /\ ring.idle \in 0..Wedge-1 /\ ring.streak \in 0..Escalate-1 /\ ring.agree \in 0..Hysteresis-1
  /\ tvd.buf \in Buffers /\ tvd.row \in 0..Rows-1 /\ tvd.out \in Buffers

\* The encoder never reads the buffer the DMA is writing, for however many frames ticks were held
\* off and the DMA went round a buffer again, unless the ring was restarted under it.
SourceLeftAlone ==
  enc.left > 0 /\ enc.fresh => tvd.buf # enc.src

\* While the signal stays, pictures come again: every tick without one counts towards the next
\* restart, and one restart is enough to get out of the wedge a lost lock leaves, Escalate out
\* of a decoder that only programming brings back.  525 lines under PAL come to no end, whatever
\* the watchdog does, until the standard is changed: it restarts once out of what was left from
\* before, once more for every Wedge of the samples that takes, and once after the change.
PicturesReturn ==
  \/ world.kicks <= IF world.faults = MaxFaults THEN 1 ELSE Escalate
  \/ world.odd /\ (world.kicks - 2) * Wedge < Hysteresis
=============================================================================

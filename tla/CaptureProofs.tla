---------------------------- MODULE CaptureProofs ----------------------------
(***************************************************************************)
(* The roles of the capture ring never fall on one buffer, for every       *)
(* length of a frame, every deadline of the watchdog and every time the    *)
(* encoder takes: the picture handed to the encoder, the one just complete *)
(* and the one being written stay three, because done always trails wr and *)
(* safe trails done by one place.  The DMA leaves the encoder's picture    *)
(* alone, and pictures come back in time: the second and the third part.   *)
(***************************************************************************)
EXTENDS Capture, TLAPS

Roles == Buffers \union {None}

RingRecords ==
  [wr : Buffers, done : Roles, safe : Roles, armed : BOOLEAN,
   idle : 0..Wedge-1, streak : 0..Escalate-1, agree : 0..Hysteresis-1, pal : BOOLEAN]

TvdRecords ==
  [locked : BOOLEAN, other : BOOLEAN, running : BOOLEAN, stuck : BOOLEAN,
   buf : Buffers, row : 0..Rows-1, out : Buffers]

EncRecords == [src : Roles, left : Nat, pending : Roles, fresh : BOOLEAN]

(* done is one place behind wr, safe one behind done. *)
Trails(r) ==
  /\ r.done # None => NextBuf(r.done) = r.wr
  /\ r.safe # None => r.done # None /\ NextBuf(r.safe) = r.done

Rings == {r \in RingRecords : Trails(r)}
Views == [ring : Rings, tvd : TvdRecords, marks : SUBSET (Buffers \X Nat), enc : EncRecords]

CaptureInv == View \in Views

-----------------------------------------------------------------------------
(* Three places *)

(* The next place of the ring is another one, and three steps lead back. *)
LEMMA NextBufIs ==
  \A b \in Buffers : NextBuf(b) \in Buffers /\ NextBuf(b) # b /\ NextBuf(NextBuf(b)) # b
<1> TAKE b \in Buffers
<1>1. b = 0 \/ b = 1 \/ b = 2
  BY DEF Buffers
<1>2. 1 % 3 = 1 /\ 2 % 3 = 2 /\ 3 % 3 = 0
  OBVIOUS
<1> QED BY <1>1, <1>2 DEF NextBuf, Buffers

(* What trails is apart. *)
LEMMA TrailsApart ==
  ASSUME NEW r \in Rings
  PROVE  /\ r.done # r.wr /\ r.safe # r.wr
         /\ r.safe # None => r.done # None /\ r.safe # r.done
<1>1. r.wr \in Buffers /\ r.done \in Buffers \union {None} /\ r.safe \in Buffers \union {None}
  BY DEF Rings, RingRecords, Roles
<1>2. None \notin Buffers
  BY DEF None, Buffers
<1> QED BY <1>1, <1>2, NextBufIs DEF Rings, Trails

(* Every count starts at zero. *)
LEMMA ZeroFits ==
  /\ Rows \in Nat /\ Wedge \in Nat /\ Escalate \in Nat /\ Hysteresis \in Nat /\ MaxEncode \in Nat
  /\ 0 \in 0..Rows-1 /\ 0 \in 0..Wedge-1 /\ 0 \in 0..Escalate-1 /\ 0 \in 0..Hysteresis-1
  /\ 0 \in Buffers
<1>1. /\ Rows \in Nat \ {0} /\ Wedge \in Nat \ {0} /\ Escalate \in Nat \ {0}
      /\ Hysteresis \in Nat \ {0} /\ MaxEncode \in Nat \ {0}
  BY CaptureConstants
<1> QED BY <1>1 DEF Buffers

(* Records made and changed stay records of their kind. *)
LEMMA ResetRingIs == ASSUME NEW r \in Rings PROVE ResetRing(r) \in Rings
<1>1. ResetRing(r) \in RingRecords
  <2>1. r \in RingRecords /\ 0 \in Buffers /\ None \in Roles
    BY ZeroFits DEF Rings, Roles
  <2> QED BY <2>1 DEF ResetRing, RingRecords
<1>2. ResetRing(r).done = None /\ ResetRing(r).safe = None
  BY DEF ResetRing, Rings, RingRecords
<1> QED BY <1>1, <1>2 DEF Rings, Trails

(* The counters take no part in the order of the roles. *)
LEMMA CountersAreFree ==
  ASSUME NEW r \in Rings, NEW i \in 0..Wedge-1, NEW s \in 0..Escalate-1, NEW a \in 0..Hysteresis-1
  PROVE  /\ [r EXCEPT !.idle = i] \in Rings
         /\ [r EXCEPT !.streak = s] \in Rings
         /\ [r EXCEPT !.agree = a] \in Rings
         /\ [r EXCEPT !.armed = TRUE] \in Rings
BY DEF Rings, RingRecords, Trails

(* The stamps of a buffer. *)
LEMMA StampsAre == \A b \in Buffers : Stamps(b) \in SUBSET (Buffers \X Nat)
BY CaptureConstants DEF Stamps, ARM, DONE

-----------------------------------------------------------------------------
(* The parts of the tick *)

(* A restart, field by field. *)
LEMMA RestartFields ==
  \A v \in Views :
    ring_restart(v) =
      [v EXCEPT !.ring  = ResetRing(v.ring),
                !.tvd   = [v.tvd EXCEPT !.buf = 0, !.row = 0, !.out = 0, !.running = TRUE],
                !.marks = Stamps(0),
                !.enc   = [v.enc EXCEPT !.fresh = FALSE]]
<1> TAKE v \in Views
<1> QED BY DEF ring_restart, Views

LEMMA RestartIs == \A v \in Views : ring_restart(v) \in Views
<1> TAKE v \in Views
<1> DEFINE t == [v.tvd EXCEPT !.buf = 0, !.row = 0, !.out = 0, !.running = TRUE]
           e == [v.enc EXCEPT !.fresh = FALSE]
<1>1. t \in TvdRecords
  BY ZeroFits DEF TvdRecords, Views
<1>2. Stamps(0) \in SUBSET (Buffers \X Nat)
  BY StampsAre, ZeroFits
<1>3. e \in EncRecords
  BY DEF EncRecords, Views
<1>4. ResetRing(v.ring) \in Rings
  BY ResetRingIs DEF Views
<1>5. ring_restart(v) = [v EXCEPT !.ring = ResetRing(v.ring), !.tvd = t, !.marks = Stamps(0), !.enc = e]
  BY RestartFields
<1> HIDE DEF t, e
<1> QED BY <1>1, <1>2, <1>3, <1>4, <1>5 DEF Views

LEMMA SetStandardIs == \A v \in Views : capture_set_standard(v) \in Views
<1> SUFFICES ASSUME NEW v \in Views PROVE capture_set_standard(v) \in Views
  OBVIOUS
<1> DEFINE w == ring_restart(v)
<1>1. w \in Views
  BY RestartIs
<1> HIDE DEF w
<1>2. [w EXCEPT !.tvd.stuck = FALSE] = [w EXCEPT !.tvd = [w.tvd EXCEPT !.stuck = FALSE]]
  OBVIOUS
<1>3. [w.tvd EXCEPT !.stuck = FALSE] \in TvdRecords
  BY <1>1 DEF Views, TvdRecords
<1>4. [w EXCEPT !.tvd.stuck = FALSE] \in Views
  BY <1>1, <1>2, <1>3 DEF Views
<1> QED BY <1>4 DEF w, capture_set_standard

(* Counters of the ring of a view. *)
LEMMA ViewCounters ==
  \A v \in Views, i \in 0..Wedge-1, s \in 0..Escalate-1, a \in 0..Hysteresis-1 :
    /\ [v EXCEPT !.ring.idle = i] \in Views
    /\ [v EXCEPT !.ring.idle = i, !.ring.streak = s] \in Views
    /\ [v EXCEPT !.ring.agree = a] \in Views
<1> TAKE v \in Views, i \in 0..Wedge-1, s \in 0..Escalate-1, a \in 0..Hysteresis-1
<1>1. v.ring \in Rings
  BY DEF Views
<1>2. [v.ring EXCEPT !.idle = i] \in Rings /\ [v.ring EXCEPT !.agree = a] \in Rings
  BY <1>1, CountersAreFree
<1>3. [v.ring EXCEPT !.idle = i, !.streak = s] \in Rings
  BY <1>1 DEF Rings, RingRecords, Trails
<1> QED BY <1>2, <1>3 DEF Views

LEMMA WatchdogIs == \A v \in Views : ring_watchdog(v) \in Views
<1> SUFFICES ASSUME NEW v \in Views PROVE ring_watchdog(v) \in Views
  OBVIOUS
<1>1. /\ v.ring.idle \in 0..Wedge-1 /\ v.ring.streak \in 0..Escalate-1
      /\ v.tvd.locked \in BOOLEAN
      /\ 0 \in 0..Wedge-1 /\ 0 \in 0..Escalate-1 /\ 0 \in 0..Hysteresis-1
  BY CaptureConstants DEF Views, Rings, RingRecords, TvdRecords
<1>2. CASE ~capture_signal_ok(v)
  BY <1>1, <1>2, ViewCounters DEF ring_watchdog, Wedged
<1>3. CASE capture_signal_ok(v) /\ ~Wedged(v)
  <2>1. v.ring.idle + 1 \in 0..Wedge-1
    BY <1>1, <1>3, CaptureConstants DEF Wedged
  <2>2. ring_watchdog(v) = [v EXCEPT !.ring.idle = v.ring.idle + 1]
    BY <1>3 DEF ring_watchdog, Wedged
  <2> QED BY <2>1, <2>2, <1>1, ViewCounters
<1>4. CASE Wedged(v)
  <2>1. CASE v.ring.streak + 1 >= Escalate
    <3>1. ring_watchdog(v) = [capture_set_standard(v) EXCEPT !.ring.idle = 0, !.ring.streak = 0]
      BY <1>4, <2>1 DEF ring_watchdog, Wedged
    <3> DEFINE w == capture_set_standard(v)
    <3>2. w \in Views
      BY SetStandardIs
    <3> HIDE DEF w
    <3>3. [w EXCEPT !.ring.idle = 0, !.ring.streak = 0] \in Views
      BY <3>2, ZeroFits, ViewCounters
    <3> QED BY <3>1, <3>3 DEF w
  <2>2. CASE ~(v.ring.streak + 1 >= Escalate)
    <3> DEFINE w == ring_restart(v)
    <3>1. w \in Views
      BY RestartIs
    <3>2. w.ring.streak = v.ring.streak
      BY DEF ring_restart, ResetRing, Views, Rings, RingRecords
    <3>3. ring_watchdog(v) = [w EXCEPT !.ring.idle = 0, !.ring.streak = @ + 1]
      BY <1>4, <2>2 DEF ring_watchdog, Wedged
    <3> HIDE DEF w
    <3>4. [w EXCEPT !.ring.idle = 0, !.ring.streak = @ + 1]
            = [w EXCEPT !.ring.idle = 0, !.ring.streak = w.ring.streak + 1]
      BY <3>1 DEF Views, Rings, RingRecords
    <3>5. w.ring.streak + 1 \in 0..Escalate-1
      BY <3>2, <2>2, <1>1, CaptureConstants
    <3>6. [w EXCEPT !.ring.idle = 0, !.ring.streak = w.ring.streak + 1] \in Views
      BY <3>1, <3>5, ZeroFits, ViewCounters
    <3> QED BY <3>3, <3>4, <3>6
  <2> QED BY <2>1, <2>2
<1> QED BY <1>2, <1>3, <1>4

LEMMA ArmNextIs == \A v \in Views : ArmNext(v) \in Views
<1> SUFFICES ASSUME NEW v \in Views PROVE ArmNext(v) \in Views
  OBVIOUS
<1>1. NextBuf(v.ring.wr) \in Buffers
  BY NextBufIs DEF Views, Rings, RingRecords
<1>2. [v.tvd EXCEPT !.out = NextBuf(v.ring.wr)] \in TvdRecords
  BY <1>1 DEF Views, TvdRecords
<1>3. [v.ring EXCEPT !.armed = TRUE] \in Rings
  BY DEF Views, Rings, RingRecords, Trails
<1>4. [v EXCEPT !.tvd.out = NextBuf(v.ring.wr), !.ring.armed = TRUE] \in Views
  BY <1>2, <1>3 DEF Views
<1> QED BY <1>4 DEF ArmNext

(* The ring turns by one place, and what trails goes on trailing. *)
LEMMA RotateIs == \A v \in Views : Rotate(v) \in Views
<1> SUFFICES ASSUME NEW v \in Views PROVE Rotate(v) \in Views
  OBVIOUS
<1> DEFINE n == NextBuf(v.ring.wr)
           r == [v.ring EXCEPT !.safe = v.ring.done, !.done = v.ring.wr, !.wr = n,
                               !.armed = FALSE, !.idle = 0, !.streak = 0]
           m == Stamps(n)
<1>1. v.ring \in RingRecords /\ Trails(v.ring)
  BY DEF Views, Rings
<1>2. n \in Buffers
  BY <1>1, NextBufIs DEF RingRecords
<1>3. r \in RingRecords
  <2>1. v.ring.done \in Roles /\ v.ring.wr \in Roles
    BY <1>1 DEF RingRecords, Roles
  <2> QED BY <1>1, <1>2, <2>1, ZeroFits DEF RingRecords
<1>4. r.wr = n /\ r.done = v.ring.wr /\ r.safe = v.ring.done
  BY <1>1 DEF RingRecords
<1>5. v.ring.wr # None
  BY <1>1 DEF RingRecords, Buffers, None
<1>6. Trails(r)
  BY <1>1, <1>4, <1>5 DEF Trails
<1>7. m \in SUBSET (Buffers \X Nat)
  BY <1>2, StampsAre DEF Views
<1>8. [v EXCEPT !.ring = r, !.marks = m] \in Views
  BY <1>3, <1>6, <1>7 DEF Views, Rings
<1>9. FrameDone(v) => Rotate(v) = [v EXCEPT !.ring = r, !.marks = m]
  BY <1>1 DEF Rotate, Views, RingRecords
<1> QED BY <1>8, <1>9 DEF Rotate

LEMMA RememberIs == \A b \in Views, v \in Views : Remember(b, v) \in Views
<1> SUFFICES ASSUME NEW b \in Views, NEW v \in Views PROVE Remember(b, v) \in Views
  OBVIOUS
<1> DEFINE p == IF capture_signal_ok(v) THEN capture_prev(v) ELSE None
           e == [v.enc EXCEPT !.pending = p, !.fresh = TRUE]
<1>1. p \in Roles
  BY DEF Views, Rings, RingRecords, capture_prev, Roles
<1> HIDE DEF p
<1>2. e \in EncRecords
  BY <1>1 DEF Views, EncRecords
<1>3. [v EXCEPT !.enc.pending = p, !.enc.fresh = TRUE] \in Views
  BY <1>2 DEF Views
<1> QED BY <1>3 DEF Remember, p

LEMMA EncodeIs == \A v \in Views, rows \in 1..MaxEncode : Encode(v, rows) \in Views
<1> SUFFICES ASSUME NEW v \in Views, NEW rows \in 1..MaxEncode PROVE Encode(v, rows) \in Views
  OBVIOUS
<1> DEFINE free == IF v.enc.left = 0 THEN [v EXCEPT !.enc.src = None] ELSE v
<1>1. [v.enc EXCEPT !.src = None] \in EncRecords
  BY DEF Views, EncRecords, Roles
<1>2. free \in Views
  BY <1>1 DEF Views
<1> HIDE DEF free
<1>3. rows \in Nat
  BY CaptureConstants
<1>4. [free.enc EXCEPT !.src = free.enc.pending, !.pending = None, !.left = rows] \in EncRecords
  BY <1>2, <1>3 DEF Views, EncRecords, Roles
<1>5. [free EXCEPT !.enc.src = free.enc.pending, !.enc.pending = None, !.enc.left = rows] \in Views
  BY <1>2, <1>4 DEF Views
<1> QED BY <1>2, <1>5 DEF Encode, free

LEMMA FollowIs == \A v \in Views, quiet \in BOOLEAN : capture_follow_input(v, quiet) \in Views
<1> SUFFICES ASSUME NEW v \in Views, NEW quiet \in BOOLEAN
             PROVE  capture_follow_input(v, quiet) \in Views
  OBVIOUS
<1>1. /\ v.ring.agree \in 0..Hysteresis-1 /\ v.tvd.locked \in BOOLEAN /\ v.tvd.other \in BOOLEAN
      /\ 0 \in 0..Wedge-1 /\ 0 \in 0..Escalate-1 /\ 0 \in 0..Hysteresis-1
  BY CaptureConstants DEF Views, Rings, RingRecords, TvdRecords
<1>2. CASE quiet
  BY <1>1, <1>2, ViewCounters DEF capture_follow_input
<1>3. CASE ~quiet /\ ~Contradicts(v)
  <2>1. capture_follow_input(v, quiet)
          = [v EXCEPT !.ring.agree = IF v.ring.agree > 0 THEN v.ring.agree - 1 ELSE 0]
    BY <1>3 DEF capture_follow_input
  <2>2. (IF v.ring.agree > 0 THEN v.ring.agree - 1 ELSE 0) \in 0..Hysteresis-1
    BY <1>1, CaptureConstants
  <2> QED BY <2>1, <2>2, <1>1, ViewCounters
<1>4. CASE ~quiet /\ Contradicts(v) /\ v.ring.agree + 1 < Hysteresis
  <2>1. capture_follow_input(v, quiet) = [v EXCEPT !.ring.agree = v.ring.agree + 1]
    BY <1>4 DEF capture_follow_input
  <2>2. v.ring.agree + 1 \in 0..Hysteresis-1
    BY <1>1, <1>4, CaptureConstants
  <2> QED BY <2>1, <2>2, <1>1, ViewCounters
<1>5. CASE ~quiet /\ Contradicts(v) /\ ~(v.ring.agree + 1 < Hysteresis)
  <2> DEFINE w == capture_set_standard(v)
  <2>1. w \in Views
    BY SetStandardIs
  <2>2. capture_follow_input(v, quiet)
          = [w EXCEPT !.ring.agree = 0, !.ring.pal = ~@, !.tvd.other = FALSE, !.marks = Stamps(0)]
    BY <1>5 DEF capture_follow_input
  <2> HIDE DEF w
  <2>3. [w.ring EXCEPT !.agree = 0, !.pal = ~@] \in Rings
    BY <2>1, <1>1 DEF Views, Rings, RingRecords, Trails
  <2>4. [w.tvd EXCEPT !.other = FALSE] \in TvdRecords
    BY <2>1 DEF Views, TvdRecords
  <2>5. Stamps(0) \in SUBSET (Buffers \X Nat)
    BY StampsAre, ZeroFits
  <2> QED BY <2>1, <2>2, <2>3, <2>4, <2>5 DEF Views
<1> QED BY <1>2, <1>3, <1>4, <1>5 DEF Contradicts

-----------------------------------------------------------------------------
(* The steps *)

LEMMA CaptureInitInv == CaptureInit => CaptureInv
BY CaptureConstants, StampsAre
   DEF CaptureInit, CaptureInv, View, Views, Rings, RingRecords, TvdRecords, EncRecords, Trails,
       Roles, Buffers, None

(* Taken apart, the invariant is one part for each variable. *)
LEMMA InvIs ==
  CaptureInv <=> /\ ring \in Rings /\ tvd \in TvdRecords
                 /\ marks \in SUBSET (Buffers \X Nat) /\ enc \in EncRecords
BY DEF CaptureInv, View, Views

LEMMA InvIsThen ==
  CaptureInv' <=> /\ ring' \in Rings /\ tvd' \in TvdRecords
                  /\ marks' \in SUBSET (Buffers \X Nat) /\ enc' \in EncRecords
BY DEF CaptureInv, View, Views

LEMMA RowKeeps == ASSUME CaptureInv, Row PROVE CaptureInv'
<1>1. enc' \in EncRecords
  BY InvIs DEF Row, EncRecords
<1>2. ASSUME RowWritten PROVE tvd' \in TvdRecords /\ marks' \in SUBSET (Buffers \X Nat)
  <2>1. tvd \in TvdRecords /\ marks \in SUBSET (Buffers \X Nat)
    BY InvIs
  <2>2. tvd.row < LastRow => tvd.row + 1 \in 0..Rows-1
    BY <2>1, CaptureConstants DEF TvdRecords, LastRow, ARM, DONE
  <2>3. tvd.row \in Nat /\ LastRow \in Int
    BY <2>1, CaptureConstants DEF TvdRecords, LastRow, ARM, DONE
  <2>4. CASE tvd.row >= LastRow
    BY <1>2, <2>1, <2>4, ZeroFits DEF RowWritten, TvdRecords
  <2>5. CASE ~(tvd.row >= LastRow)
    <3>1. tvd' = [tvd EXCEPT !.row = tvd.row + 1] /\ tvd.row + 1 \in 0..Rows-1
      BY <1>2, <2>2, <2>3, <2>5 DEF RowWritten
    <3> QED BY <1>2, <2>1, <3>1 DEF RowWritten, TvdRecords
  <2> QED BY <2>4, <2>5
<1> QED BY <1>1, <1>2, InvIs, InvIsThen DEF Row

LEMMA TickKeeps == ASSUME CaptureInv, Tick PROVE CaptureInv'
<1> PICK rows \in 1..MaxEncode, noSignal \in BOOLEAN :
      LET armed   == ArmNext(ring_watchdog(View))
          ticked  == Remember(armed, Rotate(armed))
          v       == capture_follow_input(Encode(ticked, rows), noSignal)
      IN  ring' = v.ring /\ tvd' = v.tvd /\ marks' = v.marks /\ enc' = v.enc
  BY DEF Tick
<1> DEFINE armed   == ArmNext(ring_watchdog(View))
           ticked  == Remember(armed, Rotate(armed))
           v       == capture_follow_input(Encode(ticked, rows), noSignal)
<1>1. armed \in Views
  BY WatchdogIs, ArmNextIs DEF CaptureInv
<1>2. ticked \in Views
  BY <1>1, RotateIs, RememberIs
<1>3. v \in Views
  BY <1>2, EncodeIs, FollowIs
<1>4. ring' = v.ring /\ tvd' = v.tvd /\ marks' = v.marks /\ enc' = v.enc
  OBVIOUS
<1> HIDE DEF v
<1> QED BY <1>3, <1>4, InvIsThen DEF Views

LEMMA InputKeeps ==
  ASSUME CaptureInv, SignalDrops \/ (\E other \in BOOLEAN : Relock(other)) \/ DecoderSticks
  PROVE  CaptureInv'
<1>1. tvd' \in TvdRecords
  <2>1. tvd \in TvdRecords
    BY InvIs
  <2>2. CASE SignalDrops
    BY <2>1, <2>2 DEF SignalDrops, TvdRecords
  <2>3. ASSUME NEW other \in BOOLEAN, Relock(other) PROVE tvd' \in TvdRecords
    BY <2>1, <2>3, ZeroFits DEF Relock, TvdRecords
  <2>4. CASE DecoderSticks
    BY <2>1, <2>4 DEF DecoderSticks, TvdRecords
  <2> QED BY <2>2, <2>3, <2>4
<1>2. UNCHANGED <<ring, marks, enc>>
  BY DEF SignalDrops, Relock, DecoderSticks
<1> QED BY <1>1, <1>2, InvIs, InvIsThen

(* Any of the console's steps. *)
Bench ==
  (\E other \in BOOLEAN : BenchResets(other)) \/ BenchStops \/ BenchStarts \/ BenchStamps

LEMMA BenchKeeps ==
  ASSUME CaptureInv, Bench PROVE CaptureInv'
<1>1. ring' \in Rings
  <2>1. [ring EXCEPT !.done = None, !.safe = None] \in Rings
    BY InvIs DEF Rings, RingRecords, Trails, Roles
  <2>2. ASSUME NEW other \in BOOLEAN, BenchResets(other) PROVE ring' \in Rings
    <3>1. ResetRing(ring) \in Rings /\ ring \in RingRecords
      BY InvIs, ResetRingIs DEF Rings
    <3>2. ring' = [ResetRing(ring) EXCEPT !.pal = (ring.pal # other)]
      BY <2>2, <3>1 DEF BenchResets, ResetRing, RingRecords
    <3> QED BY <3>1, <3>2 DEF Rings, RingRecords, Trails
  <2> QED BY <2>1, <2>2, InvIs DEF Bench, BenchStops, BenchStarts, BenchStamps
<1>2. tvd' \in TvdRecords
  <2>1. ring.wr \in Buffers /\ 0 \in 0..Rows-1
    BY InvIs, CaptureConstants DEF Rings, RingRecords
  <2> QED BY <2>1, InvIs DEF Bench, BenchResets, BenchStops, BenchStarts, BenchStamps, TvdRecords
<1>3. marks' \in SUBSET (Buffers \X Nat)
  <2>1. Stamps(ring.wr) \in SUBSET (Buffers \X Nat)
    BY InvIs, StampsAre DEF Rings, RingRecords
  <2> QED BY <2>1, InvIs DEF Bench, BenchResets, BenchStops, BenchStarts, BenchStamps
<1>4. enc' \in EncRecords
  BY InvIs DEF Bench, BenchResets, BenchStops, BenchStarts, BenchStamps, EncRecords
<1> QED BY <1>1, <1>2, <1>3, <1>4, InvIsThen

LEMMA CaptureStepKeeps == ASSUME CaptureInv, [CaptureNext]_captureVars PROVE CaptureInv'
<1>1. CASE UNCHANGED captureVars
  BY <1>1, InvIs, InvIsThen DEF captureVars
<1>2. CASE CaptureNext
  BY <1>2, RowKeeps, TickKeeps, InputKeeps, BenchKeeps DEF CaptureNext, Bench
<1> QED BY <1>1, <1>2

-----------------------------------------------------------------------------

(* capture_tick, its watchdog and its change of standard, and the bench's  *)
(* reset, which the ticks come in between: the buffer being written, the   *)
(* one just completed and the one the encoder is given are never the same, *)
(* and every counter stays below its deadline.                             *)
THEOREM RolesApart == CaptureSpec => []CaptureTypeOK
<1>1. CaptureInv => CaptureTypeOK
  <2> SUFFICES ASSUME CaptureInv PROVE CaptureTypeOK
    OBVIOUS
  <2>1. ring \in Rings /\ ring \in RingRecords /\ tvd \in TvdRecords
    BY InvIs DEF Rings
  <2>2. /\ ring.done # ring.wr /\ ring.safe # ring.wr
        /\ ring.safe # None => ring.done # None /\ ring.safe # ring.done
    BY <2>1, TrailsApart
  <2>3. ring.wr \in Buffers /\ {ring.done, ring.safe} \subseteq Buffers \union {None}
    BY <2>1 DEF RingRecords, Roles
  <2>4. ring.idle \in 0..Wedge-1 /\ ring.streak \in 0..Escalate-1 /\ ring.agree \in 0..Hysteresis-1
    BY <2>1 DEF RingRecords
  <2>5. tvd.buf \in Buffers /\ tvd.row \in 0..Rows-1 /\ tvd.out \in Buffers
    BY <2>1 DEF TvdRecords
  <2> QED BY <2>2, <2>3, <2>4, <2>5 DEF CaptureTypeOK
<1> QED BY <1>1, CaptureInitInv, CaptureStepKeeps, PTL DEF CaptureSpec
-----------------------------------------------------------------------------
(* The encoder's source *)

WorldRecords ==
  [due : BOOLEAN, bench : {"no", "off", "unstamped"}, faults : Nat, kicks : Nat, odd : BOOLEAN]

(* The console has stopped the decoder and reset the ring. *)
Halted(v, off) == off /\ ~v.tvd.running

(* The frame being written is not near its end. *)
Clear(v) == ~v.ring.armed /\ <<v.ring.wr, ARM>> \in v.marks

(* Nor has one ended in the buffer since it was stamped. *)
Stamped(v) == Clear(v) /\ <<v.ring.wr, DONE>> \in v.marks

(* The picture ends above the DONE row, and so do the rows written. *)
Short(v) == v.tvd.other /\ v.ring.pal
RowsFit(v) == v.tvd.running /\ Short(v) => v.tvd.row <= ARM

(***************************************************************************)
(* Where the DMA may be: in the buffer wr, where it stays until the next   *)
(* is armed; still in the one before; or, armed, already in the next one.  *)
(***************************************************************************)
Aimed(v) ==
  \/ v.tvd.buf = v.ring.wr /\ v.tvd.out = v.ring.wr
  \/ NextBuf(v.tvd.buf) = v.ring.wr /\ v.tvd.out \in {v.tvd.buf, v.ring.wr} /\ Stamped(v)
  \/ v.ring.armed /\ v.tvd.out = NextBuf(v.ring.wr) /\ v.tvd.buf \in {v.ring.wr, v.tvd.out}

(***************************************************************************)
(* The encoder is done before the next buffer, which is the one it reads,  *)
(* is armed, or, if that is late, before the frame ends; with the ticks    *)
(* held off the DMA may go round wr again, and nothing is armed.           *)
(***************************************************************************)
ToEnd(v) == IF Short(v) THEN ARM + 1 - v.tvd.row ELSE Rows - v.tvd.row
Reads(v) == v.enc.left > 0 /\ (v.enc.fresh \/ v.ring.done # None)

Early(v) ==
  /\ Clear(v) /\ <<v.ring.wr, DONE>> \notin v.marks
  /\ v.tvd.buf = v.ring.wr /\ v.enc.left + v.tvd.row <= MaxEncode

Late(v) ==
  /\ ~Clear(v) /\ <<v.ring.wr, DONE>> \in v.marks
  /\ v.tvd.buf = v.ring.wr /\ v.enc.left <= ToEnd(v)

InTime(v) == Reads(v) => Stamped(v) \/ Early(v) \/ Late(v)

Good(v, off) ==
  /\ v.enc.pending = None /\ v.enc.left <= MaxEncode
  /\ Halted(v, off) => ~v.enc.fresh /\ (v.ring.done # None => Stamped(v))
  /\ ~Halted(v, off) => Aimed(v)
  /\ RowsFit(v) /\ InTime(v)
  /\ v.enc.fresh /\ v.enc.left > 0 => v.enc.src = NextBuf(v.ring.wr)

SourceInv ==
  /\ CaptureInv /\ world \in WorldRecords
  /\ Good(View, world.bench = "off")

(* Three steps lead back, two do not. *)
LEMMA ThreePlaces ==
  \A b \in Buffers : NextBuf(NextBuf(NextBuf(b))) = b /\ b # None
<1> TAKE b \in Buffers
<1>1. b = 0 \/ b = 1 \/ b = 2
  BY DEF Buffers
<1>2. 1 % 3 = 1 /\ 2 % 3 = 2 /\ 3 % 3 = 0
  OBVIOUS
<1> QED BY <1>1, <1>2 DEF NextBuf, None

(* The two rows, and the encode between them. *)
LEMMA RowsAre ==
  /\ ARM \in Nat /\ DONE \in Nat /\ Rows \in Nat /\ MaxEncode \in Nat
  /\ 0 <= ARM /\ ARM < DONE /\ DONE = Rows - 1
  /\ MaxEncode <= ARM /\ MaxEncode <= Rows - (ARM + 1)
BY CaptureConstants DEF ARM, DONE

(* What two views have in common when only counters differ. *)
Same(v, w) ==
  /\ w.ring.wr = v.ring.wr /\ w.ring.done = v.ring.done /\ w.ring.armed = v.ring.armed
  /\ w.ring.pal = v.ring.pal
  /\ w.tvd.buf = v.tvd.buf /\ w.tvd.out = v.tvd.out /\ w.tvd.row = v.tvd.row
  /\ w.tvd.running = v.tvd.running /\ w.tvd.other = v.tvd.other
  /\ w.marks = v.marks /\ w.enc = v.enc

(* What a restart leaves, whoever does it. *)
Restarted(v, w) ==
  /\ w.ring.wr = 0 /\ w.ring.done = None /\ w.ring.armed = FALSE
  /\ w.tvd.buf = 0 /\ w.tvd.out = 0 /\ w.tvd.row = 0 /\ w.tvd.running = TRUE
  /\ w.marks = Stamps(0)
  /\ w.enc.pending = v.enc.pending /\ w.enc.left = v.enc.left /\ w.enc.fresh = FALSE

(* Counters and a restart keep what is good. *)
LEMMA SameIsGood ==
  ASSUME NEW v, NEW w, NEW off \in BOOLEAN, Same(v, w), Good(v, off)
  PROVE  Good(w, off)
<1>1. Halted(w, off) = Halted(v, off) /\ Stamped(w) = Stamped(v) /\ RowsFit(w) = RowsFit(v)
  BY DEF Same, Halted, Clear, Stamped, RowsFit, Short
<1>2. Early(w) = Early(v) /\ Late(w) = Late(v) /\ Reads(w) = Reads(v)
  BY DEF Same, Clear, Early, Late, Reads, ToEnd, Short
<1>3. Aimed(w) = Aimed(v)
  BY <1>1 DEF Same, Aimed
<1> QED BY <1>1, <1>2, <1>3 DEF Good, InTime, Same

LEMMA RestartedIsGood ==
  ASSUME NEW v, NEW w, NEW off \in BOOLEAN, Restarted(v, w), Good(v, off)
  PROVE  Good(w, off)
BY RowsAre DEF Restarted, Good, Halted, Aimed, InTime, Reads, RowsFit

(* Which of the two the parts of the tick do. *)
LEMMA RestartDoes == \A v \in Views : Restarted(v, ring_restart(v))
<1> SUFFICES ASSUME NEW v \in Views PROVE Restarted(v, ring_restart(v))
  OBVIOUS
<1> DEFINE w == ring_restart(v)
           t == [v.tvd EXCEPT !.buf = 0, !.row = 0, !.out = 0, !.running = TRUE]
           e == [v.enc EXCEPT !.fresh = FALSE]
<1>1. v.ring \in RingRecords /\ v.tvd \in TvdRecords /\ v.enc \in EncRecords
  BY DEF Views, Rings
<1>2. w.ring = ResetRing(v.ring) /\ w.tvd = t /\ w.marks = Stamps(0) /\ w.enc = e
  <2>1. w = [v EXCEPT !.ring = ResetRing(v.ring), !.tvd = t, !.marks = Stamps(0), !.enc = e]
    BY RestartFields
  <2> HIDE DEF w, t, e
  <2> QED BY <2>1 DEF Views
<1> HIDE DEF w
<1>3. w.ring.wr = 0 /\ w.ring.done = None /\ w.ring.armed = FALSE
  BY <1>1, <1>2 DEF RingRecords, ResetRing
<1>4. w.tvd.buf = 0 /\ w.tvd.out = 0 /\ w.tvd.row = 0 /\ w.tvd.running = TRUE
  BY <1>1, <1>2 DEF TvdRecords
<1>5. w.enc.pending = v.enc.pending /\ w.enc.left = v.enc.left /\ w.enc.fresh = FALSE
  BY <1>1, <1>2 DEF EncRecords
<1>6. Restarted(v, w)
  BY <1>2, <1>3, <1>4, <1>5 DEF Restarted
<1> QED BY <1>6 DEF w

LEMMA SetStandardDoes == \A v \in Views : Restarted(v, capture_set_standard(v))
<1> SUFFICES ASSUME NEW v \in Views PROVE Restarted(v, capture_set_standard(v))
  OBVIOUS
<1> DEFINE w == ring_restart(v)
           u == capture_set_standard(v)
<1>1. w \in Views /\ Restarted(v, w)
  BY RestartIs, RestartDoes
<1>2. u = [w EXCEPT !.tvd.stuck = FALSE]
  BY DEF capture_set_standard
<1> HIDE DEF w, u
<1>3. /\ u.ring = w.ring /\ u.enc = w.enc /\ u.marks = w.marks
      /\ u.tvd = [w.tvd EXCEPT !.stuck = FALSE]
  BY <1>1, <1>2 DEF Views
<1>4. /\ u.tvd.buf = w.tvd.buf /\ u.tvd.out = w.tvd.out /\ u.tvd.row = w.tvd.row
      /\ u.tvd.running = w.tvd.running
  BY <1>1, <1>3 DEF Views, TvdRecords
<1>5. Restarted(v, u)
  BY <1>1, <1>3, <1>4 DEF Restarted
<1> QED BY <1>5 DEF u

(* A counter set on top of either changes nothing of it. *)
LEMMA CountersAside ==
  \A v \in Views : \A i, s, a :
    /\ Same(v, [v EXCEPT !.ring.idle = i])
    /\ Same(v, [v EXCEPT !.ring.agree = a])
    /\ Same(v, [v EXCEPT !.ring.idle = i, !.ring.streak = s])
<1> TAKE v \in Views
<1> TAKE i, s, a
<1>1. v.ring \in RingRecords
  BY DEF Views, Rings
<1> QED BY <1>1 DEF Same, Views, RingRecords

LEMMA RestartedAside ==
  ASSUME NEW v, NEW w, NEW u, Restarted(v, w), Same(w, u) PROVE Restarted(v, u)
BY DEF Restarted, Same

LEMMA WatchdogDoes ==
  \A v \in Views : Same(v, ring_watchdog(v)) \/ Restarted(v, ring_watchdog(v))
<1> SUFFICES ASSUME NEW v \in Views
             PROVE  Same(v, ring_watchdog(v)) \/ Restarted(v, ring_watchdog(v))
  OBVIOUS
<1>1. CASE ~capture_signal_ok(v)
  <2>1. ring_watchdog(v) = [v EXCEPT !.ring.idle = 0]
    BY <1>1 DEF ring_watchdog, Wedged
  <2> QED BY <2>1, CountersAside
<1>2. CASE capture_signal_ok(v) /\ ~Wedged(v)
  <2>1. ring_watchdog(v) = [v EXCEPT !.ring.idle = v.ring.idle + 1]
    BY <1>2 DEF ring_watchdog
  <2> QED BY <2>1, CountersAside
<1>3. CASE Wedged(v) /\ v.ring.streak + 1 >= Escalate
  <2> DEFINE w == capture_set_standard(v)
  <2>1. ring_watchdog(v) = [w EXCEPT !.ring.idle = 0, !.ring.streak = 0]
    BY <1>3 DEF ring_watchdog, Wedged
  <2>2. w \in Views /\ Restarted(v, w)
    BY SetStandardIs, SetStandardDoes
  <2> HIDE DEF w
  <2>3. Same(w, [w EXCEPT !.ring.idle = 0, !.ring.streak = 0])
    BY <2>2, CountersAside
  <2> QED BY <2>1, <2>2, <2>3, RestartedAside
<1>4. CASE Wedged(v) /\ ~(v.ring.streak + 1 >= Escalate)
  <2> DEFINE w == ring_restart(v)
  <2>1. ring_watchdog(v) = [w EXCEPT !.ring.idle = 0, !.ring.streak = @ + 1]
    BY <1>4 DEF ring_watchdog, Wedged
  <2>2. w \in Views /\ Restarted(v, w)
    BY RestartIs, RestartDoes
  <2> HIDE DEF w
  <2>3. [w EXCEPT !.ring.idle = 0, !.ring.streak = @ + 1]
          = [w EXCEPT !.ring.idle = 0, !.ring.streak = w.ring.streak + 1]
    BY <2>2 DEF Views, Rings, RingRecords
  <2>4. Same(w, [w EXCEPT !.ring.idle = 0, !.ring.streak = w.ring.streak + 1])
    BY <2>2, CountersAside
  <2> QED BY <2>1, <2>2, <2>3, <2>4, RestartedAside
<1> QED BY <1>1, <1>2, <1>3, <1>4

LEMMA FollowDoes ==
  \A v \in Views, quiet \in BOOLEAN :
    \/ Same(v, capture_follow_input(v, quiet))
    \/ Restarted(v, capture_follow_input(v, quiet))
<1> SUFFICES ASSUME NEW v \in Views, NEW quiet \in BOOLEAN
             PROVE  \/ Same(v, capture_follow_input(v, quiet))
                    \/ Restarted(v, capture_follow_input(v, quiet))
  OBVIOUS
<1>1. CASE quiet
  <2>1. capture_follow_input(v, quiet) = [v EXCEPT !.ring.agree = 0]
    BY <1>1 DEF capture_follow_input
  <2> QED BY <2>1, CountersAside
<1>2. CASE ~quiet /\ ~Contradicts(v)
  <2>1. capture_follow_input(v, quiet)
          = [v EXCEPT !.ring.agree = IF v.ring.agree > 0 THEN v.ring.agree - 1 ELSE 0]
    BY <1>2 DEF capture_follow_input
  <2> QED BY <2>1, CountersAside
<1>3. CASE ~quiet /\ Contradicts(v) /\ v.ring.agree + 1 < Hysteresis
  <2>1. capture_follow_input(v, quiet) = [v EXCEPT !.ring.agree = v.ring.agree + 1]
    BY <1>3 DEF capture_follow_input
  <2> QED BY <2>1, CountersAside
<1>4. CASE ~quiet /\ Contradicts(v) /\ ~(v.ring.agree + 1 < Hysteresis)
  <2> DEFINE w == capture_set_standard(v)
             u == capture_follow_input(v, quiet)
             r == [w.ring EXCEPT !.agree = 0, !.pal = ~@]
             t == [w.tvd EXCEPT !.other = FALSE]
  <2>1. u = [w EXCEPT !.ring = r, !.tvd = t, !.marks = Stamps(0)]
    BY <1>4 DEF capture_follow_input
  <2>2. w \in Views /\ Restarted(v, w)
    BY SetStandardIs, SetStandardDoes
  <2> HIDE DEF w, u
  <2>3. u.ring = r /\ u.tvd = t /\ u.marks = Stamps(0) /\ u.enc = w.enc
    <3> HIDE DEF r, t
    <3> QED BY <2>1, <2>2 DEF Views
  <2>4. /\ u.ring.wr = w.ring.wr /\ u.ring.done = w.ring.done /\ u.ring.armed = w.ring.armed
        /\ u.tvd.buf = w.tvd.buf /\ u.tvd.out = w.tvd.out /\ u.tvd.row = w.tvd.row
        /\ u.tvd.running = w.tvd.running
    BY <2>2, <2>3 DEF Views, Rings, RingRecords, TvdRecords
  <2>5. Restarted(v, u)
    BY <2>2, <2>3, <2>4 DEF Restarted
  <2> QED BY <2>5 DEF u
<1> QED BY <1>1, <1>2, <1>3, <1>4

(* The fields a tick decides by have their types. *)
LEMMA FieldTypes ==
  \A v \in Views :
    /\ v.ring.wr \in Buffers /\ v.ring.done \in Roles /\ v.ring.armed \in BOOLEAN
    /\ v.tvd.buf \in Buffers /\ v.tvd.out \in Buffers /\ v.tvd.row \in 0..Rows-1
    /\ v.tvd.running \in BOOLEAN /\ v.tvd.other \in BOOLEAN /\ v.ring.pal \in BOOLEAN
    /\ v.enc.left \in Nat /\ v.enc.fresh \in BOOLEAN /\ v.enc.pending \in Roles
    /\ v.enc.src \in Roles
BY DEF Views, Rings, RingRecords, TvdRecords, EncRecords

(* The next buffer is armed only when the encoder is done with it or sure to be. *)
LEMMA ArmNextGood ==
  ASSUME NEW v \in Views, NEW off \in BOOLEAN, Good(v, off)
  PROVE  Good(ArmNext(v), off)
<1> DEFINE w == ArmNext(v)
<1>1. CASE ~v.ring.armed /\ row_erased(v, ARM)
  <2>1. w = [v EXCEPT !.tvd.out = NextBuf(v.ring.wr), !.ring.armed = TRUE]
    BY <1>1 DEF ArmNext
  <2>2. /\ w.ring.wr = v.ring.wr /\ w.ring.done = v.ring.done /\ w.ring.armed = TRUE
        /\ w.ring.pal = v.ring.pal
        /\ w.tvd.buf = v.tvd.buf /\ w.tvd.row = v.tvd.row /\ w.tvd.running = v.tvd.running
        /\ w.tvd.other = v.tvd.other
        /\ w.tvd.out = NextBuf(v.ring.wr) /\ w.marks = v.marks /\ w.enc = v.enc
    BY <2>1 DEF Views, Rings, RingRecords, TvdRecords
  <2> HIDE DEF w
  <2>3. ~Clear(v) /\ ~Clear(w)
    BY <1>1, <2>2 DEF row_erased, Clear
  <2>4. ~Halted(v, off) => v.tvd.buf = v.ring.wr
    BY <2>3, <1>1 DEF Good, Aimed, Stamped
  <2>5. Halted(w, off) = Halted(v, off) /\ RowsFit(w) = RowsFit(v) /\ ToEnd(w) = ToEnd(v)
    BY <2>2 DEF Halted, RowsFit, Short, ToEnd
  <2>6. ~Halted(w, off) => Aimed(w)
    BY <2>2, <2>4, <2>5 DEF Aimed
  <2>7. Reads(w) = Reads(v) /\ (Late(v) => Late(w))
    BY <2>2, <2>3, <2>5 DEF Reads, Late
  <2>8. InTime(w)
    BY <2>3, <2>7 DEF Good, InTime, Stamped, Early
  <2>9. Halted(w, off) => ~w.enc.fresh /\ w.ring.done = None
    BY <2>2, <2>3, <2>5 DEF Good, Stamped
  <2>10. Good(w, off)
    BY <2>2, <2>5, <2>6, <2>8, <2>9 DEF Good
  <2> QED BY <2>10 DEF w
<1>2. CASE ~(~v.ring.armed /\ row_erased(v, ARM))
  <2>1. w = v
    BY <1>2 DEF ArmNext
  <2> QED BY <2>1
<1> QED BY <1>1, <1>2

(* What a turn of the ring leaves in each field. *)
LEMMA RotateDoes ==
  ASSUME NEW v \in Views, FrameDone(v)
  PROVE  LET w == Rotate(v)
         IN  /\ w.ring.wr = NextBuf(v.ring.wr) /\ w.ring.done = v.ring.wr
             /\ w.ring.safe = v.ring.done /\ w.ring.armed = FALSE /\ w.ring.pal = v.ring.pal
             /\ w.tvd = v.tvd /\ w.enc = v.enc
             /\ w.marks = Stamps(NextBuf(v.ring.wr))
<1> DEFINE w == Rotate(v)
<1>1. v.ring \in RingRecords
  BY DEF Views, Rings
<1>2. /\ w.ring = [v.ring EXCEPT !.safe = v.ring.done, !.done = v.ring.wr,
                               !.wr = NextBuf(v.ring.wr), !.armed = FALSE,
                               !.idle = 0, !.streak = 0]
      /\ w.tvd = v.tvd /\ w.enc = v.enc
      /\ w.marks = Stamps(NextBuf(v.ring.wr))
  BY <1>1 DEF Rotate, Views, RingRecords
<1> HIDE DEF w
<1>3. /\ w.ring.wr = NextBuf(v.ring.wr) /\ w.ring.done = v.ring.wr
      /\ w.ring.safe = v.ring.done /\ w.ring.armed = FALSE /\ w.ring.pal = v.ring.pal
  BY <1>1, <1>2 DEF RingRecords
<1>4. /\ w.ring.wr = NextBuf(v.ring.wr) /\ w.ring.done = v.ring.wr
      /\ w.ring.safe = v.ring.done /\ w.ring.armed = FALSE /\ w.ring.pal = v.ring.pal
      /\ w.tvd = v.tvd /\ w.enc = v.enc
      /\ w.marks = Stamps(NextBuf(v.ring.wr))
  BY <1>2, <1>3
<1> QED BY <1>4 DEF w

(* What the encoder takes: a picture that waits is started if it is idle. *)
LEMMA EncodeDoes ==
  ASSUME NEW v \in Views, NEW rows \in 1..MaxEncode
  PROVE  LET w == Encode(v, rows)
         IN  /\ w.ring = v.ring /\ w.tvd = v.tvd /\ w.marks = v.marks
             /\ w.enc.fresh = v.enc.fresh
             /\ v.enc.pending = None =>
                  /\ w.enc.pending = None /\ w.enc.left = v.enc.left
                  /\ w.enc.left > 0 => w.enc.src = v.enc.src
             /\ v.enc.pending # None /\ v.enc.left = 0 =>
                  /\ w.enc.pending = None /\ w.enc.left = rows /\ w.enc.src = v.enc.pending
<1> DEFINE free == IF v.enc.left = 0 THEN [v EXCEPT !.enc.src = None] ELSE v
<1>1. /\ free.ring = v.ring /\ free.tvd = v.tvd /\ free.marks = v.marks
      /\ free.enc.fresh = v.enc.fresh /\ free.enc.left = v.enc.left
      /\ free.enc.pending = v.enc.pending
      /\ free.enc.src = IF v.enc.left = 0 THEN None ELSE v.enc.src
  BY DEF Views, EncRecords
<1>2. free \in Views
  <2>1. [v.enc EXCEPT !.src = None] \in EncRecords
    BY DEF Views, EncRecords, Roles
  <2> QED BY <2>1 DEF Views
<1>3. v.enc.left \in Nat /\ rows \in Nat
  BY FieldTypes, ZeroFits
<1> DEFINE w == Encode(v, rows)
<1>4. w = IF free.enc.src = None /\ free.enc.pending # None
            THEN [free EXCEPT !.enc.src = free.enc.pending, !.enc.pending = None, !.enc.left = rows]
            ELSE free
  BY DEF Encode
<1> HIDE DEF free, w
<1>5. CASE free.enc.src = None /\ free.enc.pending # None
  <2>1. /\ w.ring = free.ring /\ w.tvd = free.tvd /\ w.marks = free.marks
        /\ w.enc.fresh = free.enc.fresh /\ w.enc.src = free.enc.pending
        /\ w.enc.pending = None /\ w.enc.left = rows
    BY <1>2, <1>4, <1>5 DEF Views, EncRecords
  <2>2. /\ w.ring = v.ring /\ w.tvd = v.tvd /\ w.marks = v.marks
        /\ w.enc.fresh = v.enc.fresh
        /\ v.enc.pending # None
        /\ w.enc.pending = None /\ w.enc.left = rows /\ w.enc.src = v.enc.pending
    BY <1>1, <1>5, <2>1
  <2> QED BY <2>2 DEF w
<1>6. CASE ~(free.enc.src = None /\ free.enc.pending # None)
  <2>1. w = free
    BY <1>4, <1>6
  <2>2. ~(v.enc.pending # None /\ v.enc.left = 0)
    BY <1>1, <1>6
  <2>3. /\ w.ring = v.ring /\ w.tvd = v.tvd /\ w.marks = v.marks
        /\ w.enc.fresh = v.enc.fresh /\ w.enc.pending = v.enc.pending
        /\ w.enc.left = v.enc.left
        /\ w.enc.left > 0 => w.enc.src = v.enc.src
    BY <1>1, <1>3, <2>1
  <2> QED BY <2>2, <2>3 DEF w
<1> QED BY <1>5, <1>6

(* A turn hands over the buffer two places back, which is the one the next *)
(* arming frees for the DMA, and by then the encoder is done with it.      *)
LEMMA TurnGood ==
  ASSUME NEW v \in Views, NEW off \in BOOLEAN, Good(v, off), NEW rows \in 1..MaxEncode
  PROVE  Good(Encode(Remember(v, Rotate(v)), rows), off)
<1> DEFINE t == Rotate(v)
           u == Remember(v, t)
           w == Encode(u, rows)
<1>1. t \in Views /\ u \in Views /\ w \in Views
  BY RotateIs, RememberIs, EncodeIs
<1>2. v.enc.pending = None
  BY DEF Good
<1>3. CASE ~FrameDone(v)
  <2>1. u = v
    BY <1>3 DEF Rotate, Remember, HandsOver
  <2>2. /\ w.ring = v.ring /\ w.tvd = v.tvd /\ w.marks = v.marks /\ w.enc.fresh = v.enc.fresh
        /\ w.enc.pending = None /\ w.enc.left = v.enc.left
        /\ w.enc.left > 0 => w.enc.src = v.enc.src
    BY <2>1, <1>2, EncodeDoes
  <2> HIDE DEF w
  <2>3. /\ Halted(w, off) = Halted(v, off) /\ Stamped(w) = Stamped(v) /\ RowsFit(w) = RowsFit(v)
        /\ Early(w) = Early(v) /\ Late(w) = Late(v) /\ Reads(w) = Reads(v)
    BY <2>2 DEF Halted, Clear, Stamped, RowsFit, Early, Late, Reads, ToEnd, Short
  <2>4. Aimed(w) = Aimed(v)
    BY <2>2, <2>3 DEF Aimed
  <2>5. Good(w, off)
    BY <2>2, <2>3, <2>4 DEF Good, InTime
  <2> QED BY <2>5 DEF w
<1>4. CASE FrameDone(v)
  <2>1. /\ t.ring.wr = NextBuf(v.ring.wr) /\ t.ring.done = v.ring.wr
        /\ t.ring.safe = v.ring.done /\ t.ring.armed = FALSE /\ t.ring.pal = v.ring.pal
        /\ t.tvd = v.tvd /\ t.enc = v.enc /\ t.marks = Stamps(NextBuf(v.ring.wr))
    BY <1>4, RotateDoes
  <2>2. v.ring.armed /\ <<v.ring.wr, DONE>> \notin v.marks
    BY <1>4 DEF FrameDone, row_erased
  <2>3. ~Clear(v) /\ ~Reads(v) /\ ~Stamped(v)
    BY <2>2 DEF Good, InTime, Clear, Stamped, Early, Late
  <2>4. v.enc.left > 0 => ~v.enc.fresh /\ v.ring.done = None
    BY <2>3 DEF Reads
  <2>5. /\ u.ring = t.ring /\ u.tvd = t.tvd /\ u.marks = t.marks
        /\ u.enc.left = v.enc.left
        /\ v.ring.done = None => u.enc = v.enc
        /\ v.ring.done # None => u.enc.fresh = TRUE /\ u.enc.pending \in {None, v.ring.done}
    <3>1. CASE v.ring.done = None
      BY <3>1, <2>1 DEF Remember, HandsOver
    <3>2. CASE v.ring.done # None
      <4>1. u = [t EXCEPT !.enc.pending = IF capture_signal_ok(t) THEN capture_prev(t) ELSE None,
                          !.enc.fresh = TRUE]
        BY <3>2, <1>4 DEF Remember, HandsOver
      <4>2. capture_prev(t) = v.ring.done
        BY <2>1 DEF capture_prev
      <4> HIDE DEF t, u
      <4> QED BY <4>1, <4>2, <1>1, <2>1, <3>2 DEF Views, EncRecords
    <3> QED BY <3>1, <3>2
  <2>6. v.enc.left \in Nat /\ v.ring.wr \in Buffers /\ rows \in Nat /\ rows <= MaxEncode
        /\ MaxEncode \in Nat
    BY FieldTypes, ZeroFits
  <2>7. /\ w.ring = t.ring /\ w.tvd = v.tvd /\ w.marks = t.marks /\ w.enc.fresh = u.enc.fresh
        /\ u.enc.pending = None =>
             /\ w.enc.pending = None /\ w.enc.left = u.enc.left
             /\ w.enc.left > 0 => w.enc.src = u.enc.src
        /\ u.enc.pending # None /\ u.enc.left = 0 =>
             /\ w.enc.pending = None /\ w.enc.left = rows /\ w.enc.src = u.enc.pending
    BY <1>1, <2>1, <2>5, EncodeDoes
  <2> HIDE DEF t, u, w
  <2>8. v.ring.done # None => v.enc.left = 0
    BY <2>4, <2>6
  <2>9. w.enc.pending = None /\ w.enc.left <= MaxEncode
    BY <2>5, <2>6, <2>7, <2>8, <1>2 DEF Good
  <2>10. Stamped(w)
    <3>1. /\ <<NextBuf(v.ring.wr), ARM>> \in Stamps(NextBuf(v.ring.wr))
          /\ <<NextBuf(v.ring.wr), DONE>> \in Stamps(NextBuf(v.ring.wr))
      BY DEF Stamps
    <3> QED BY <2>1, <2>7, <3>1 DEF Stamped, Clear
  <2>11. Halted(w, off) = Halted(v, off) /\ RowsFit(w) = RowsFit(v)
    BY <2>1, <2>7 DEF Halted, RowsFit, Short
  <2>12. Halted(w, off) => ~w.enc.fresh
    <3>1. Halted(v, off) => v.ring.done = None /\ ~v.enc.fresh
      BY <2>3 DEF Good
    <3> QED BY <2>5, <2>7, <2>11, <3>1
  <2>13. ~Halted(w, off) => Aimed(w)
    <3>1. ~Halted(w, off) =>
            /\ v.tvd.buf = v.ring.wr \/ (v.tvd.buf = NextBuf(v.ring.wr) /\ v.tvd.out = v.tvd.buf)
            /\ v.tvd.out \in {v.ring.wr, NextBuf(v.ring.wr)}
      BY <2>2, <2>3, <2>11 DEF Good, Aimed
    <3> QED BY <2>1, <2>7, <2>10, <3>1 DEF Aimed
  <2>14. w.enc.fresh /\ w.enc.left > 0 => w.enc.src = NextBuf(w.ring.wr)
    <3>1. SUFFICES ASSUME w.enc.fresh, w.enc.left > 0 PROVE w.enc.src = NextBuf(w.ring.wr)
      OBVIOUS
    <3>2. CASE v.ring.done = None
      BY <3>1, <3>2, <2>4, <2>5, <2>7, <1>2
    <3>3. CASE v.ring.done # None
      <4>1. u.enc.left = 0
        BY <3>3, <2>5, <2>8
      <4>2. w.enc.src = v.ring.done
        BY <4>1, <3>1, <3>3, <2>5, <2>7
      <4>3. NextBuf(v.ring.done) = v.ring.wr /\ v.ring.done \in Buffers
        BY <3>3 DEF Views, Rings, Trails, RingRecords, Roles
      <4>4. NextBuf(NextBuf(NextBuf(v.ring.done))) = v.ring.done
        BY <4>3, ThreePlaces
      <4> QED BY <4>2, <4>3, <4>4, <2>1, <2>7
    <3> QED BY <3>2, <3>3
  <2>15. Good(w, off)
    BY <2>9, <2>10, <2>11, <2>12, <2>13, <2>14 DEF Good, InTime
  <2> QED BY <2>15 DEF w, u, t
<1> QED BY <1>3, <1>4
-----------------------------------------------------------------------------
(* The steps, with the source in view *)

(* What SourceInv says of each variable. *)
LEMMA SourceFacts ==
  ASSUME SourceInv
  PROVE  /\ View \in Views /\ world \in WorldRecords
         /\ View.ring = ring /\ View.tvd = tvd /\ View.marks = marks /\ View.enc = enc
         /\ ring \in RingRecords /\ tvd \in TvdRecords /\ enc \in EncRecords
         /\ (world.bench = "off") \in BOOLEAN
         /\ Good(View, world.bench = "off")
BY DEF SourceInv, CaptureInv, View, Views, Rings, WorldRecords

(* What is good of the view of the next state is good in the next state. *)
LEMMA GoodThen ==
  ASSUME CaptureInv', world' \in WorldRecords, Good(View', world'.bench = "off")
  PROVE  SourceInv'
<1>1. Good(View, world.bench = "off")'
  BY DEF Good, Halted, Aimed, InTime, Reads, Early, Late, ToEnd, Stamped, Clear, RowsFit, Short,
         NextBuf, ARM, DONE
<1> QED BY <1>1 DEF SourceInv

LEMMA SourceInit == ASSUME CaptureInit PROVE SourceInv
<1>1. CaptureInv
  BY CaptureInitInv
<1>2. world \in WorldRecords
  BY CaptureConstants DEF CaptureInit, WorldRecords
<1>3. Good(View, world.bench = "off")
  BY ZeroFits DEF CaptureInit, Good, View, Halted, Aimed, InTime, Reads, RowsFit, Short
<1> QED BY <1>1, <1>2, <1>3 DEF SourceInv

LEMMA WorldAfterTick ==
  ASSUME world \in WorldRecords, Tick
  PROVE  world' \in WorldRecords /\ world'.bench = world.bench
<1>1. PICK done \in BOOLEAN :
        world' = IF done
                   THEN [world EXCEPT !.due = FALSE, !.kicks = 0, !.odd = FALSE]
                   ELSE [world EXCEPT !.due = FALSE, !.odd = @ \/ Contradicts(View),
                                      !.kicks = IF Wedged(View) THEN @ + 1 ELSE @]
  BY DEF Tick
<1>2. CASE done
  BY <1>1, <1>2 DEF WorldRecords
<1>3. CASE ~done
  <2> DEFINE k == IF Wedged(View) THEN world.kicks + 1 ELSE world.kicks
             o == world.odd \/ Contradicts(View)
  <2>1. k \in Nat
    BY DEF WorldRecords
  <2>2. o \in BOOLEAN
    OBVIOUS
  <2>3. world' = [world EXCEPT !.due = FALSE, !.odd = o, !.kicks = k]
    BY <1>1, <1>3 DEF WorldRecords
  <2> HIDE DEF k, o
  <2> QED BY <2>1, <2>2, <2>3 DEF WorldRecords
<1> QED BY <1>2, <1>3

LEMMA SourceTick == ASSUME SourceInv, Tick PROVE SourceInv'
<1>1. View \in Views /\ world \in WorldRecords /\ Good(View, world.bench = "off")
  BY SourceFacts
<1>2. CaptureInv'
  BY TickKeeps DEF SourceInv
<1>3. PICK rows \in 1..MaxEncode, noSignal \in BOOLEAN :
      LET armed   == ArmNext(ring_watchdog(View))
          ticked  == Remember(armed, Rotate(armed))
          v       == capture_follow_input(Encode(ticked, rows), noSignal)
      IN  ring' = v.ring /\ tvd' = v.tvd /\ marks' = v.marks /\ enc' = v.enc
  BY DEF Tick
<1> DEFINE off   == world.bench = "off"
           w     == ring_watchdog(View)
           armed == ArmNext(w)
           e     == Encode(Remember(armed, Rotate(armed)), rows)
           v     == capture_follow_input(e, noSignal)
<1>4. w \in Views /\ armed \in Views /\ e \in Views /\ v \in Views
  BY <1>1, WatchdogIs, ArmNextIs, RotateIs, RememberIs, EncodeIs, FollowIs
<1>5. Good(w, off)
  BY <1>1, WatchdogDoes, SameIsGood, RestartedIsGood
<1>6. Good(armed, off)
  BY <1>4, <1>5, ArmNextGood
<1>7. Good(e, off)
  BY <1>4, <1>6, TurnGood
<1>8. Same(e, v) \/ Restarted(e, v)
  BY <1>4, FollowDoes
<1>9. ring' = v.ring /\ tvd' = v.tvd /\ marks' = v.marks /\ enc' = v.enc
  BY <1>3
<1> HIDE DEF e
<1>10. Good(v, off)
  BY <1>7, <1>8, SameIsGood, RestartedIsGood
<1> HIDE DEF v
<1>11. View' = v
  BY <1>4, <1>9 DEF View, Views
<1>12. world' \in WorldRecords /\ world'.bench = world.bench
  BY <1>1, WorldAfterTick
<1> QED BY <1>2, <1>10, <1>11, <1>12, GoodThen

LEMMA SourceRow == ASSUME SourceInv, Row PROVE SourceInv'
<1>1. /\ View \in Views /\ world \in WorldRecords
      /\ View.ring = ring /\ View.tvd = tvd /\ View.marks = marks /\ View.enc = enc
      /\ ring \in RingRecords /\ tvd \in TvdRecords /\ enc \in EncRecords
      /\ Good(View, world.bench = "off")
  BY SourceFacts
<1>2. CaptureInv'
  BY RowKeeps DEF SourceInv
<1>3. world' \in WorldRecords /\ world'.bench = world.bench
  BY <1>1 DEF Row, WorldRecords
<1>4. /\ enc'.left = IF enc.left = 0 THEN 0 ELSE enc.left - 1
      /\ enc'.pending = enc.pending /\ enc'.fresh = enc.fresh /\ enc'.src = enc.src
      /\ enc.left \in Nat /\ ring' = ring
  BY <1>1 DEF Row, EncRecords
<1>5. /\ View'.ring = ring /\ View'.tvd = tvd' /\ View'.marks = marks' /\ View'.enc = enc'
  BY <1>4 DEF View
<1>6. /\ ring.wr \in Buffers /\ tvd.buf \in Buffers /\ tvd.out \in Buffers
      /\ tvd.row \in Nat /\ NextBuf(ring.wr) # ring.wr /\ NextBuf(tvd.buf) # tvd.buf
  BY <1>1, NextBufIs DEF RingRecords, TvdRecords
<1>7. Reads(View') => Reads(View) /\ enc'.left = enc.left - 1 /\ enc.left >= 2
  BY <1>1, <1>4, <1>5 DEF Reads
<1>8. ASSUME /\ (Halted(View', world.bench = "off") <=> Halted(View, world.bench = "off"))
             /\ Halted(View, world.bench = "off") => Stamped(View') = Stamped(View)
             /\ ~Halted(View, world.bench = "off") => Aimed(View')
             /\ RowsFit(View') /\ InTime(View')
      PROVE  Good(View', world.bench = "off")
  BY <1>1, <1>4, <1>5, <1>8, RowsAre DEF Good
<1>9. ASSUME UNCHANGED <<tvd, marks>> PROVE Good(View', world.bench = "off")
  <2>1. /\ Halted(View', world.bench = "off") = Halted(View, world.bench = "off")
        /\ Stamped(View') = Stamped(View) /\ RowsFit(View') = RowsFit(View)
        /\ ToEnd(View') = ToEnd(View) /\ Clear(View') = Clear(View)
    BY <1>1, <1>5, <1>9 DEF Halted, Stamped, Clear, RowsFit, ToEnd, Short
  <2>2. Aimed(View') = Aimed(View)
    BY <1>1, <1>5, <1>9, <2>1 DEF Aimed
  <2>3. Reads(View') /\ Early(View) => Early(View')
    BY <1>1, <1>4, <1>5, <1>6, <1>7, <1>9, <2>1, RowsAre DEF Early
  <2>4. Reads(View') /\ Late(View) => Late(View')
    <3>1. ToEnd(View) \in Int
      BY <1>1, <1>6, RowsAre DEF ToEnd
    <3> QED BY <1>1, <1>4, <1>5, <1>7, <1>9, <2>1, <3>1 DEF Late
  <2>5. RowsFit(View') /\ InTime(View')
    BY <1>1, <1>7, <2>1, <2>3, <2>4 DEF Good, InTime
  <2> QED BY <1>1, <1>8, <2>1, <2>2, <2>5 DEF Good
<1>10. ASSUME tvd.running, RowWritten PROVE Good(View', world.bench = "off")
  <2>1. /\ marks' = marks \ {<<tvd.buf, tvd.row>>}
        /\ tvd'.running = TRUE /\ tvd'.out = tvd.out /\ tvd'.other = tvd.other
        /\ tvd.row >= LastRow => tvd'.row = 0 /\ tvd'.buf = tvd.out
        /\ ~(tvd.row >= LastRow) => tvd'.row = tvd.row + 1 /\ tvd'.buf = tvd.buf
    BY <1>1, <1>10 DEF RowWritten, TvdRecords
  <2>2. ~Halted(View, world.bench = "off") /\ ~Halted(View', world.bench = "off")
    BY <1>1, <1>5, <1>10, <2>1 DEF Halted
  <2>3. Aimed(View) /\ RowsFit(View) /\ (Short(View') <=> Short(View))
        /\ LastRow = IF Short(View) THEN ARM ELSE DONE
    BY <1>1, <1>5, <2>1, <2>2 DEF Good, Short, LastRow
  <2>4. tvd.buf # ring.wr => Stamped(View') = Stamped(View)
    BY <1>1, <1>5, <2>1 DEF Stamped, Clear
  <2>5. tvd.row <= LastRow /\ tvd'.row <= LastRow /\ LastRow \in Nat /\ tvd'.row \in Nat
    <3>1. tvd.row <= LastRow
      BY <1>1, <1>10, <2>3, RowsAre DEF RowsFit, TvdRecords
    <3> QED BY <1>6, <2>1, <2>3, <3>1, RowsAre
  <2>6. RowsFit(View')
    BY <1>5, <2>3, <2>5 DEF RowsFit
  <2>7. Aimed(View')
    <3>1. CASE tvd.buf = ring.wr /\ tvd.out = ring.wr
      BY <3>1, <1>5, <2>1 DEF Aimed
    <3>2. CASE NextBuf(tvd.buf) = ring.wr /\ tvd.out \in {tvd.buf, ring.wr} /\ Stamped(View)
      BY <3>2, <1>5, <1>6, <2>1, <2>4 DEF Aimed
    <3>3. CASE ring.armed /\ tvd.out = NextBuf(ring.wr) /\ tvd.buf \in {ring.wr, tvd.out}
      BY <3>3, <1>5, <2>1 DEF Aimed
    <3> QED BY <2>3, <3>1, <3>2, <3>3, <1>1 DEF Aimed
  <2>8. InTime(View')
    <3>1. SUFFICES ASSUME Reads(View')
                   PROVE  Stamped(View') \/ Early(View') \/ Late(View')
      BY DEF InTime
    <3>2. enc'.left = enc.left - 1 /\ enc.left >= 2 /\ enc.left <= MaxEncode
      BY <3>1, <1>1, <1>7 DEF Good
    <3>3. CASE Stamped(View)
      <4>1. CASE tvd.buf # ring.wr
        BY <4>1, <3>3, <2>4
      <4>2. CASE tvd.buf = ring.wr
        <5>1. tvd.out = ring.wr /\ tvd'.buf = ring.wr /\ ~ring.armed
          BY <4>2, <3>3, <1>1, <1>6, <2>1, <2>3 DEF Aimed, Stamped, Clear
        <5>2. CASE tvd.row = ARM
          <6>1. ~Clear(View') /\ <<ring.wr, DONE>> \in marks'
            BY <5>2, <4>2, <3>3, <1>1, <1>5, <2>1, RowsAre DEF Clear, Stamped
          <6>2. enc'.left <= ToEnd(View')
            <7>1. CASE Short(View)
              BY <7>1, <5>2, <3>2, <1>4, <1>5, <2>1, <2>3, RowsAre DEF ToEnd
            <7>2. CASE ~Short(View)
              BY <7>2, <5>2, <3>2, <1>4, <1>5, <2>1, <2>3, RowsAre DEF ToEnd
            <7> QED BY <7>1, <7>2
          <6> QED BY <5>1, <6>1, <6>2, <1>5 DEF Late
        <5>3. CASE tvd.row = DONE
          <6>1. tvd'.row = 0
            BY <5>3, <2>1, <2>3, RowsAre
          <6>2. Clear(View') /\ <<ring.wr, DONE>> \notin marks'
            BY <5>3, <4>2, <3>3, <1>1, <1>5, <2>1, RowsAre DEF Clear, Stamped
          <6> QED BY <5>1, <6>1, <6>2, <3>2, <1>4, <1>5, RowsAre DEF Early
        <5>4. CASE tvd.row # ARM /\ tvd.row # DONE
          BY <5>4, <4>2, <3>3, <1>1, <1>5, <2>1 DEF Clear, Stamped
        <5> QED BY <5>2, <5>3, <5>4
      <4> QED BY <4>1, <4>2
    <3>4. CASE Early(View)
      <4>1. tvd.buf = ring.wr /\ enc.left + tvd.row <= MaxEncode /\ <<ring.wr, DONE>> \notin marks
            /\ Clear(View)
        BY <3>4, <1>1 DEF Early
      <4>2. tvd.row < ARM /\ ~(tvd.row >= LastRow)
        BY <4>1, <3>2, <1>4, <1>6, <2>3, RowsAre
      <4>3. Clear(View') /\ <<ring.wr, DONE>> \notin marks'
        BY <4>1, <4>2, <1>1, <1>5, <1>6, <2>1, RowsAre DEF Clear
      <4> QED BY <4>1, <4>2, <4>3, <3>2, <1>4, <1>5, <1>6, <2>1, RowsAre DEF Early
    <3>5. CASE Late(View)
      <4>1. tvd.buf = ring.wr /\ enc.left <= ToEnd(View) /\ <<ring.wr, DONE>> \in marks
            /\ ~Clear(View)
        BY <3>5, <1>1 DEF Late
      <4>2. ToEnd(View) = LastRow + 1 - tvd.row
        BY <1>1, <1>6, <2>3, RowsAre DEF ToEnd
      <4>3. ~(tvd.row >= LastRow)
        BY <4>1, <4>2, <3>2, <1>4, <1>6, <2>5
      <4>4. ToEnd(View') = LastRow + 1 - tvd'.row
        BY <1>5, <2>3, <2>5, RowsAre DEF ToEnd
      <4>5. ~Clear(View') /\ <<ring.wr, DONE>> \in marks'
        BY <4>1, <4>3, <1>1, <1>5, <1>6, <2>1, <2>3, RowsAre DEF Clear
      <4>6. enc'.left <= ToEnd(View')
        BY <4>1, <4>2, <4>3, <4>4, <3>2, <1>4, <1>6, <2>1, <2>5
      <4> QED BY <4>1, <4>3, <4>5, <4>6, <1>5, <2>1 DEF Late
    <3> QED BY <3>1, <3>3, <3>4, <3>5, <1>1, <1>7 DEF Good, InTime
  <2> QED BY <1>8, <2>2, <2>6, <2>7, <2>8
<1> QED BY <1>2, <1>3, <1>9, <1>10, GoodThen DEF Row

LEMMA SourceInput ==
  ASSUME SourceInv, SignalDrops \/ (\E other \in BOOLEAN : Relock(other)) \/ DecoderSticks
  PROVE  SourceInv'
<1>1. /\ View \in Views /\ world \in WorldRecords /\ (world.bench = "off") \in BOOLEAN
      /\ View.ring = ring /\ View.tvd = tvd /\ View.marks = marks /\ View.enc = enc
      /\ ring \in RingRecords /\ tvd \in TvdRecords /\ enc \in EncRecords
      /\ Good(View, world.bench = "off")
  BY SourceFacts
<1>2. CaptureInv'
  BY InputKeeps DEF SourceInv
<1>3. UNCHANGED <<ring, marks, enc>>
  BY DEF SignalDrops, Relock, DecoderSticks
<1>4. world' \in WorldRecords /\ world'.bench = world.bench
  <2>1. CASE SignalDrops
    BY <2>1, <1>1 DEF SignalDrops, WorldRecords
  <2>2. ASSUME NEW other \in BOOLEAN, Relock(other)
        PROVE  world' \in WorldRecords /\ world'.bench = world.bench
    BY <2>2, <1>1 DEF Relock
  <2>3. CASE DecoderSticks
    <3>1. world.faults - 1 \in Nat
      BY <2>3, <1>1 DEF DecoderSticks, WorldRecords
    <3> QED BY <3>1, <2>3, <1>1 DEF DecoderSticks, WorldRecords
  <2> QED BY <2>1, <2>2, <2>3
<1>5. /\ View'.ring = ring /\ View'.tvd = tvd' /\ View'.marks = marks /\ View'.enc = enc
  BY <1>3 DEF View
<1> DEFINE off == world.bench = "off"
<1>6. ASSUME SignalDrops PROVE Good(View', off)
  <2>1. /\ tvd'.buf = tvd.buf /\ tvd'.out = tvd.out /\ tvd'.row = tvd.row
        /\ tvd'.running = tvd.running /\ tvd'.other = FALSE /\ tvd.row \in Nat
    BY <1>1, <1>6 DEF SignalDrops, TvdRecords
  <2>2. /\ Halted(View', off) = Halted(View, off) /\ Stamped(View') = Stamped(View)
        /\ Early(View') = Early(View) /\ Reads(View') = Reads(View) /\ Clear(View') = Clear(View)
        /\ ~Short(View')
    BY <2>1, <1>1, <1>5 DEF Halted, Stamped, Clear, Early, Reads, Short
  <2>3. Late(View) => Late(View')
    <3>1. ToEnd(View) <= ToEnd(View') /\ ToEnd(View) \in Int /\ ToEnd(View') \in Int
      BY <2>1, <2>2, <1>1, <1>5, RowsAre DEF ToEnd
    <3>2. enc.left \in Nat
      BY <1>1 DEF EncRecords
    <3> QED BY <2>1, <2>2, <3>1, <3>2, <1>1, <1>5 DEF Late
  <2>4. Aimed(View') = Aimed(View)
    BY <2>1, <2>2, <1>1, <1>5 DEF Aimed
  <2> QED BY <2>2, <2>3, <2>4, <1>1, <1>5 DEF Good, InTime, RowsFit
<1>7. ASSUME DecoderSticks PROVE Good(View', off)
  <2>1. /\ tvd'.buf = tvd.buf /\ tvd'.out = tvd.out /\ tvd'.row = tvd.row
        /\ tvd'.running = tvd.running /\ tvd'.other = tvd.other
    BY <1>1, <1>7 DEF DecoderSticks, TvdRecords
  <2>2. Same(View, View')
    BY <2>1, <1>1, <1>5 DEF Same
  <2> QED BY <2>2, <1>1, SameIsGood
<1>8. ASSUME NEW other \in BOOLEAN, Relock(other) PROVE Good(View', off)
  <2>1. /\ tvd'.buf = tvd.out /\ tvd'.row = 0 /\ tvd'.out = tvd.out /\ tvd'.running = tvd.running
        /\ enc.left = 0
    BY <1>1, <1>8 DEF Relock, TvdRecords
  <2>2. Halted(View', off) = Halted(View, off) /\ Stamped(View') = Stamped(View)
        /\ ~Reads(View')
    BY <2>1, <1>1, <1>5 DEF Halted, Stamped, Clear, Reads
  <2>3. ~Halted(View', off) => Aimed(View')
    BY <2>1, <2>2, <1>1, <1>5 DEF Good, Aimed
  <2>4. RowsFit(View') /\ InTime(View')
    BY <2>1, <2>2, <1>5, RowsAre DEF RowsFit, InTime
  <2> QED BY <2>2, <2>3, <2>4, <1>1, <1>5 DEF Good
<1>9. Good(View', world'.bench = "off")
  BY <1>4, <1>6, <1>7, <1>8
<1> QED BY <1>2, <1>4, <1>9, GoodThen

LEMMA SourceBench == ASSUME SourceInv, Bench PROVE SourceInv'
<1>1. /\ View \in Views /\ world \in WorldRecords /\ (world.bench = "off") \in BOOLEAN
      /\ View.ring = ring /\ View.tvd = tvd /\ View.marks = marks /\ View.enc = enc
      /\ ring \in RingRecords /\ tvd \in TvdRecords /\ enc \in EncRecords
      /\ Good(View, world.bench = "off")
  BY SourceFacts
<1>2. CaptureInv'
  BY BenchKeeps DEF SourceInv
<1>3. world' \in WorldRecords
  <2>1. world \in WorldRecords
    BY <1>1
  <2>2. ASSUME NEW other \in BOOLEAN, BenchResets(other) PROVE world' \in WorldRecords
    <3>1. world.faults - 1 \in Nat
      BY <2>1, <2>2 DEF BenchResets, WorldRecords
    <3> QED BY <2>1, <2>2, <3>1 DEF BenchResets, WorldRecords
  <2>3. CASE BenchStops
    <3>1. world.faults - 1 \in Nat
      BY <2>1, <2>3 DEF BenchStops, WorldRecords
    <3> QED BY <2>1, <2>3, <3>1 DEF BenchStops, WorldRecords
  <2>4. CASE BenchStarts
    BY <2>1, <2>4 DEF BenchStarts, WorldRecords
  <2>5. CASE BenchStamps
    BY <2>1, <2>5 DEF BenchStamps, WorldRecords
  <2> QED BY <2>2, <2>3, <2>4, <2>5 DEF Bench
<1>4. /\ View'.ring = ring' /\ View'.tvd = tvd' /\ View'.marks = marks' /\ View'.enc = enc'
  BY DEF View
<1>5. ASSUME NEW other \in BOOLEAN, BenchResets(other) PROVE Good(View', world'.bench = "off")
  <2>1. /\ ring'.done = None /\ tvd'.running = FALSE
        /\ enc'.fresh = FALSE /\ enc'.left = enc.left /\ enc'.pending = enc.pending
        /\ world'.bench = "off"
    BY <1>1, <1>5 DEF BenchResets, ResetRing, RingRecords, TvdRecords, EncRecords, WorldRecords
  <2> QED BY <2>1, <1>1, <1>4 DEF Good, Halted, InTime, Reads, RowsFit
<1>6. ASSUME BenchStops PROVE Good(View', world'.bench = "off")
  <2>1. /\ ring'.wr = ring.wr /\ ring'.done = None /\ ring'.armed = ring.armed
        /\ ring'.pal = ring.pal
        /\ tvd'.buf = tvd.buf /\ tvd'.out = tvd.out /\ tvd'.row = tvd.row
        /\ tvd'.running = FALSE /\ tvd'.other = tvd.other
        /\ marks' = marks /\ enc' = enc
        /\ world.bench = "no" /\ world'.bench = "no"
    BY <1>1, <1>6 DEF BenchStops, RingRecords, TvdRecords, WorldRecords
  <2>2. Aimed(View) /\ ~Halted(View', world'.bench = "off") /\ RowsFit(View')
    BY <2>1, <1>1, <1>4 DEF Good, Halted, RowsFit
  <2>3. Stamped(View') = Stamped(View) /\ Early(View') = Early(View) /\ Late(View') = Late(View)
        /\ (Reads(View') => Reads(View))
    BY <2>1, <1>1, <1>4 DEF Stamped, Clear, Early, Late, ToEnd, Short, Reads
  <2>4. Aimed(View')
    BY <2>1, <2>2, <2>3, <1>1, <1>4 DEF Aimed
  <2> QED BY <2>1, <2>2, <2>3, <2>4, <1>1, <1>4 DEF Good, InTime
<1>7. ASSUME BenchStarts PROVE Good(View', world'.bench = "off")
  <2>1. /\ ring' = ring /\ marks' = marks /\ tvd'.running = TRUE
        /\ tvd'.buf = ring.wr /\ tvd'.out = ring.wr /\ tvd'.row = 0
        /\ enc'.fresh = FALSE /\ enc'.left = enc.left /\ enc'.pending = enc.pending
        /\ world'.bench = "unstamped"
    BY <1>1, <1>7 DEF BenchStarts, TvdRecords, EncRecords, WorldRecords
  <2>2. ~Halted(View', world'.bench = "off") /\ Aimed(View') /\ RowsFit(View')
    BY <2>1, <1>4, RowsAre DEF Halted, Aimed, RowsFit
  <2>3. Stamped(View') = Stamped(View) /\ Clear(View') = Clear(View)
        /\ (Reads(View') => Reads(View) /\ ring.done # None)
    BY <2>1, <1>1, <1>4 DEF Stamped, Clear, Reads
  <2>4. enc.left \in Nat /\ enc.left <= MaxEncode /\ tvd.row \in Nat
    BY <1>1 DEF Good, EncRecords, TvdRecords
  <2>5. Early(View) => Early(View')
    BY <2>1, <2>3, <2>4, <1>1, <1>4, RowsAre DEF Early
  <2>6. Late(View) => Late(View')
    <3>1. enc.left <= ToEnd(View')
      BY <2>1, <2>4, <1>4, RowsAre DEF ToEnd
    <3> QED BY <2>1, <2>3, <3>1, <1>1, <1>4 DEF Late
  <2>7. InTime(View')
    BY <2>3, <2>5, <2>6, <1>1 DEF Good, InTime
  <2> QED BY <2>1, <2>2, <2>7, <1>1, <1>4 DEF Good
<1>8. ASSUME BenchStamps PROVE Good(View', world'.bench = "off")
  <2>1. /\ ring' = ring /\ tvd' = tvd /\ enc' = enc /\ marks' = Stamps(ring.wr)
        /\ world.bench = "unstamped" /\ world'.bench = "no"
    BY <1>1, <1>8 DEF BenchStamps, WorldRecords
  <2>2. <<ring.wr, ARM>> \in marks' /\ <<ring.wr, DONE>> \in marks'
    BY <2>1 DEF Stamps
  <2>3. Aimed(View) /\ ~Halted(View', world'.bench = "off") /\ RowsFit(View')
    BY <2>1, <1>1, <1>4 DEF Good, Halted, RowsFit, Short
  <2>4. (~ring.armed => Stamped(View')) /\ (ring.armed => ~Clear(View') /\ ~Clear(View))
    BY <2>1, <2>2, <1>1, <1>4 DEF Stamped, Clear
  <2>5. Aimed(View')
    BY <2>1, <2>3, <2>4, <1>1, <1>4 DEF Aimed, Stamped
  <2>6. Reads(View') = Reads(View) /\ ToEnd(View') = ToEnd(View)
    BY <2>1, <1>1, <1>4 DEF Reads, ToEnd, Short
  <2>7. InTime(View')
    BY <2>1, <2>2, <2>4, <2>6, <1>1, <1>4 DEF Good, InTime, Early, Late, Stamped
  <2> QED BY <2>1, <2>3, <2>5, <2>7, <1>1, <1>4 DEF Good
<1>9. Good(View', world'.bench = "off")
  BY <1>5, <1>6, <1>7, <1>8 DEF Bench
<1> QED BY <1>2, <1>3, <1>9, GoodThen

LEMMA SourceStep == ASSUME SourceInv, [CaptureNext]_captureVars PROVE SourceInv'
<1>1. CASE UNCHANGED captureVars
  <2>1. UNCHANGED <<ring, tvd, marks, enc, world>>
    BY <1>1 DEF captureVars
  <2>2. View' = View
    BY <2>1 DEF View
  <2>3. CaptureInv'
    BY CaptureStepKeeps DEF SourceInv
  <2> QED BY <2>1, <2>2, <2>3, GoodThen DEF SourceInv
<1>2. CASE CaptureNext
  BY <1>2, SourceRow, SourceTick, SourceInput, SourceBench DEF CaptureNext, Bench
<1> QED BY <1>1, <1>2

(* A buffer the DMA may be in is not the one two places before wr. *)
LEMMA SourceIsApart == ASSUME SourceInv PROVE SourceLeftAlone
<1>1. /\ View.ring = ring /\ View.tvd = tvd /\ View.marks = marks /\ View.enc = enc
      /\ ring \in RingRecords /\ tvd \in TvdRecords /\ Good(View, world.bench = "off")
  BY SourceFacts
<1>2. SUFFICES ASSUME enc.left > 0, enc.fresh PROVE tvd.buf # enc.src
  BY DEF SourceLeftAlone
<1>3. /\ Stamped(View) \/ tvd.buf = ring.wr
      /\ Aimed(View) /\ enc.src = NextBuf(ring.wr)
  BY <1>1, <1>2 DEF Good, InTime, Reads, Early, Late
<1>4. tvd.buf = ring.wr \/ NextBuf(tvd.buf) = ring.wr
  BY <1>1, <1>3 DEF Aimed, Stamped, Clear
<1>5. ring.wr \in Buffers /\ tvd.buf \in Buffers
  BY <1>1 DEF RingRecords, TvdRecords
<1> QED BY <1>3, <1>4, <1>5, NextBufIs

(* What the comment over capture_prev claims of the double-buffered        *)
(* address, with the tick's latch, the watchdog, a lost lock and the       *)
(* console's stop and start: the DMA is never in the buffer the encoder    *)
(* reads, however long the USB interrupt holds the ticks off.              *)
THEOREM EncoderUndisturbed == CaptureSpec => []SourceLeftAlone
<1>1. CaptureInit => SourceInv
  BY SourceInit
<1>2. SourceInv /\ [CaptureNext]_captureVars => SourceInv'
  BY SourceStep
<1>3. SourceInv => SourceLeftAlone
  BY SourceIsApart
<1> QED BY <1>1, <1>2, <1>3, PTL DEF CaptureSpec
-----------------------------------------------------------------------------
(* Pictures return *)

Seen(v, row) == <<v.ring.wr, row>> \in v.marks

(* The next tick turns the ring. *)
Pending(v) == (v.ring.armed \/ ~Seen(v, ARM)) /\ ~Seen(v, DONE)

(* The address the decoder holds is one from which a frame in wr comes about. *)
Sound(v) ==
  \/ v.tvd.buf = v.ring.wr /\ v.tvd.out = v.ring.wr /\ ~v.ring.armed
  \/ NextBuf(v.tvd.buf) = v.ring.wr /\ v.tvd.out = v.ring.wr /\ Stamped(v)
  \/ /\ v.ring.armed /\ v.tvd.out = NextBuf(v.ring.wr)
     /\ v.tvd.buf = v.ring.wr \/ (v.tvd.buf = v.tvd.out /\ ~Seen(v, DONE))

(***************************************************************************)
(* The rows until then: those of the frame; those of the one before first, *)
(* if the DMA is still there; those up to the ARM row once more, if the    *)
(* ring came to a frame whose ARM row was over.                            *)
(***************************************************************************)
Left(v) ==
  IF Pending(v) THEN 0
  ELSE IF v.tvd.buf # v.ring.wr THEN 2 * Rows - v.tvd.row
  ELSE IF v.ring.armed \/ ~Seen(v, ARM) THEN Rows - v.tvd.row
  ELSE IF v.tvd.row > ARM THEN Rows - v.tvd.row + ARM + 1
  ELSE IF Seen(v, DONE) THEN Rows - v.tvd.row
  ELSE ARM + 1 - v.tvd.row

(* The watchdog is not going to restart the ring before. *)
Settled(v, due) ==
  /\ Sound(v) /\ (Pending(v) => due)
  /\ v.ring.idle + Left(v) + (IF due THEN 1 ELSE 0) <= 2 * Rows

Few(kicks, odd, faults) ==
  \/ kicks <= IF faults = MaxFaults THEN 1 ELSE Escalate
  \/ odd /\ (kicks - 2) * Wedge < Hysteresis

(***************************************************************************)
(* Once the watchdog has restarted the ring, the input contradicts the     *)
(* standard, and the samples counted are Wedge for each restart and more;  *)
(* or the decoder is stuck, and the streak counts the restarts; or a       *)
(* picture is on its way, or one more restart away, which a change of      *)
(* standard leaves the old count to.                                       *)
(***************************************************************************)
Odd(v, kicks, odd) == v.tvd.other /\ odd /\ (kicks - 1) * Wedge + v.ring.idle <= v.ring.agree
Dead(v, kicks) == ~v.tvd.other /\ v.tvd.stuck /\ kicks <= v.ring.streak /\ Stamped(v)

Coming(v, kicks, odd, due, faults) ==
  /\ ~v.tvd.other /\ ~v.tvd.stuck
  /\ \/ Settled(v, due) /\ Few(kicks, odd, faults)
     \/ odd /\ (kicks - 1) * Wedge < Hysteresis

Kicked(v, kicks, odd, due, faults) ==
  /\ v.tvd.locked /\ v.tvd.running
  /\ Odd(v, kicks, odd) \/ Dead(v, kicks) \/ Coming(v, kicks, odd, due, faults)

Spared(v, faults) == faults <= MaxFaults /\ (v.tvd.stuck => faults < MaxFaults)

PictureInv ==
  /\ CaptureInv /\ world \in WorldRecords
  /\ Spared(View, world.faults)
  /\ world.kicks >= 1 => Kicked(View, world.kicks, world.odd, world.due, world.faults)

(* One restart more is Wedge more. *)
LEMMA ProductsAre ==
  \A k \in Nat : /\ (k - 1) * Wedge \in Int /\ (k - 2) * Wedge = (k - 1) * Wedge - Wedge
                 /\ ((k + 1) - 1) * Wedge = (k - 1) * Wedge + Wedge
                 /\ ((k + 1) - 2) * Wedge = (k - 1) * Wedge
                 /\ Wedge \in Nat /\ Hysteresis \in Nat /\ Escalate \in Nat /\ Wedge > 2 * Rows
                 /\ Rows \in Nat /\ Escalate >= 2 /\ MaxFaults \in Nat
<1> TAKE k \in Nat
<1>1. /\ Wedge \in Nat /\ Hysteresis \in Nat /\ Escalate \in Nat /\ Wedge > 2 * Rows
      /\ Rows \in Nat /\ Escalate >= 2 /\ MaxFaults \in Nat
  BY CaptureConstants
<1>2. (k - 2) * Wedge = (k - 1) * Wedge - Wedge /\ (k - 1) * Wedge \in Int
  BY <1>1
<1>3. (k + 1) - 1 = k /\ (k + 1) - 2 = k - 1 /\ k * Wedge = (k - 1) * Wedge + Wedge
  BY <1>1
<1> QED BY <1>1, <1>2, <1>3

(* The counters and the decoder's state have their types. *)
LEMMA CounterTypes ==
  \A v \in Views :
    /\ v.ring.idle \in 0..Wedge-1 /\ v.ring.streak \in 0..Escalate-1
    /\ v.ring.agree \in 0..Hysteresis-1
    /\ v.ring.idle \in Nat /\ v.ring.streak \in Nat /\ v.ring.agree \in Nat
    /\ v.ring.agree < Hysteresis
    /\ v.tvd.locked \in BOOLEAN /\ v.tvd.other \in BOOLEAN /\ v.tvd.stuck \in BOOLEAN
<1> TAKE v \in Views
<1>1. /\ v.ring.idle \in 0..Wedge-1 /\ v.ring.streak \in 0..Escalate-1
      /\ v.ring.agree \in 0..Hysteresis-1
      /\ v.tvd.locked \in BOOLEAN /\ v.tvd.other \in BOOLEAN /\ v.tvd.stuck \in BOOLEAN
  BY DEF Views, Rings, RingRecords, TvdRecords
<1> QED BY <1>1, ZeroFits

(* The rows left are a number, and no more than two frames of them. *)
LEMMA LeftIs == \A v \in Views : Left(v) \in Nat /\ Left(v) <= 2 * Rows
<1> TAKE v \in Views
<1>1. v.tvd.row \in Nat /\ v.tvd.row <= Rows - 1
  BY FieldTypes, RowsAre
<1> QED BY <1>1, RowsAre DEF Left

(* What a restart leaves is settled. *)
LEMMA RestartedSettled ==
  ASSUME NEW v, NEW w, Restarted(v, w), w.ring.idle = 0
  PROVE  Settled(w, FALSE) /\ Stamped(w)
<1>1. Seen(w, ARM) /\ Seen(w, DONE)
  BY DEF Restarted, Seen, Stamps
<1>2. Left(w) = Rows
  BY <1>1, RowsAre DEF Restarted, Left, Pending
<1> QED BY <1>1, <1>2, RowsAre DEF Restarted, Settled, Sound, Pending, Stamped, Clear, Seen

LEMMA SameSettled ==
  ASSUME NEW v, NEW w, NEW due \in BOOLEAN, Same(v, w), w.ring.idle = v.ring.idle, Settled(v, due)
  PROVE  Settled(w, due)
<1>1. Pending(w) = Pending(v) /\ Seen(w, ARM) = Seen(v, ARM) /\ Seen(w, DONE) = Seen(v, DONE)
      /\ Stamped(w) = Stamped(v)
  BY DEF Same, Pending, Seen, Stamped, Clear
<1>2. Left(w) = Left(v) /\ Sound(w) = Sound(v)
  BY <1>1 DEF Same, Left, Sound
<1> QED BY <1>1, <1>2 DEF Settled

-----------------------------------------------------------------------------
(* What the parts of the tick do with the counters *)

LEMMA RestartCounts ==
  \A v \in Views :
    LET w == ring_restart(v)
    IN  /\ w.ring.streak = v.ring.streak /\ w.ring.agree = v.ring.agree
        /\ w.ring.idle = v.ring.idle
        /\ w.tvd.locked = v.tvd.locked /\ w.tvd.other = v.tvd.other /\ w.tvd.stuck = v.tvd.stuck
<1> SUFFICES ASSUME NEW v \in Views
             PROVE  LET w == ring_restart(v)
                    IN  /\ w.ring.streak = v.ring.streak /\ w.ring.agree = v.ring.agree
                        /\ w.ring.idle = v.ring.idle
                        /\ w.tvd.locked = v.tvd.locked /\ w.tvd.other = v.tvd.other
                        /\ w.tvd.stuck = v.tvd.stuck
  OBVIOUS
<1> DEFINE t == [v.tvd EXCEPT !.buf = 0, !.row = 0, !.out = 0, !.running = TRUE]
           e == [v.enc EXCEPT !.fresh = FALSE]
           w == ring_restart(v)
<1>1. w = [v EXCEPT !.ring = ResetRing(v.ring), !.tvd = t, !.marks = Stamps(0), !.enc = e]
  BY RestartFields
<1>2. w.ring = ResetRing(v.ring) /\ w.tvd = t
  <2> HIDE DEF w, t, e
  <2> QED BY <1>1 DEF Views
<1>3. v.ring \in RingRecords /\ v.tvd \in TvdRecords
  BY DEF Views, Rings
<1> HIDE DEF w
<1>4. /\ w.ring.streak = v.ring.streak /\ w.ring.agree = v.ring.agree
      /\ w.ring.idle = v.ring.idle
      /\ w.tvd.locked = v.tvd.locked /\ w.tvd.other = v.tvd.other /\ w.tvd.stuck = v.tvd.stuck
  BY <1>2, <1>3 DEF ResetRing, RingRecords, TvdRecords
<1> QED BY <1>4 DEF w

LEMMA SetStandardCounts ==
  \A v \in Views :
    LET w == capture_set_standard(v)
    IN  /\ w.ring.agree = v.ring.agree /\ w.ring.idle = v.ring.idle
        /\ w.tvd.locked = v.tvd.locked /\ w.tvd.other = v.tvd.other /\ w.tvd.stuck = FALSE
<1> SUFFICES ASSUME NEW v \in Views
             PROVE  LET w == capture_set_standard(v)
                    IN  /\ w.ring.agree = v.ring.agree /\ w.ring.idle = v.ring.idle
                        /\ w.tvd.locked = v.tvd.locked /\ w.tvd.other = v.tvd.other
                        /\ w.tvd.stuck = FALSE
  OBVIOUS
<1> DEFINE w == ring_restart(v)
           u == capture_set_standard(v)
<1>1. /\ w \in Views
      /\ w.ring.agree = v.ring.agree /\ w.ring.idle = v.ring.idle
      /\ w.tvd.locked = v.tvd.locked /\ w.tvd.other = v.tvd.other
  BY RestartIs, RestartCounts
<1>2. u = [w EXCEPT !.tvd.stuck = FALSE]
  BY DEF capture_set_standard
<1> HIDE DEF w, u
<1>3. /\ u.ring.agree = v.ring.agree /\ u.ring.idle = v.ring.idle
      /\ u.tvd.locked = v.tvd.locked /\ u.tvd.other = v.tvd.other /\ u.tvd.stuck = FALSE
  BY <1>1, <1>2 DEF Views, TvdRecords
<1> QED BY <1>3 DEF u

(* A tick that does not restart anything counts. *)
LEMMA WatchdogCounts ==
  ASSUME NEW v \in Views, capture_signal_ok(v), ~Wedged(v)
  PROVE  LET w == ring_watchdog(v)
         IN  /\ Same(v, w) /\ w.ring.idle = v.ring.idle + 1
             /\ w.ring.streak = v.ring.streak /\ w.ring.agree = v.ring.agree /\ w.tvd = v.tvd
<1> DEFINE w == ring_watchdog(v)
<1>1. w = [v EXCEPT !.ring.idle = v.ring.idle + 1]
  BY DEF ring_watchdog
<1>2. Same(v, w)
  BY <1>1, CountersAside
<1> HIDE DEF w
<1>3. /\ w.ring.idle = v.ring.idle + 1 /\ w.tvd = v.tvd
      /\ w.ring.streak = v.ring.streak /\ w.ring.agree = v.ring.agree
  BY <1>1 DEF Views, Rings, RingRecords
<1> QED BY <1>2, <1>3 DEF w

LEMMA WatchdogKicks ==
  ASSUME NEW v \in Views, Wedged(v)
  PROVE  LET w == ring_watchdog(v)
         IN  /\ Restarted(v, w) /\ w.ring.idle = 0 /\ w.ring.agree = v.ring.agree
             /\ w.tvd.locked = v.tvd.locked /\ w.tvd.other = v.tvd.other
             /\ \/ v.ring.streak + 1 >= Escalate /\ w.tvd.stuck = FALSE
                \/ w.tvd.stuck = v.tvd.stuck /\ w.ring.streak = v.ring.streak + 1
<1> DEFINE u == ring_watchdog(v)
<1>1. CASE v.ring.streak + 1 >= Escalate
  <2> DEFINE w == capture_set_standard(v)
  <2>1. u = [w EXCEPT !.ring.idle = 0, !.ring.streak = 0]
    BY <1>1 DEF ring_watchdog, Wedged
  <2>2. /\ w \in Views /\ Restarted(v, w) /\ w.ring.agree = v.ring.agree
        /\ w.tvd.locked = v.tvd.locked /\ w.tvd.other = v.tvd.other /\ w.tvd.stuck = FALSE
    BY SetStandardIs, SetStandardDoes, SetStandardCounts
  <2> HIDE DEF w, u
  <2>3. Same(w, [w EXCEPT !.ring.idle = 0, !.ring.streak = 0])
    BY <2>2, CountersAside
  <2>4. Restarted(v, u)
    BY <2>1, <2>2, <2>3, RestartedAside
  <2>5. u.ring.idle = 0 /\ u.ring.agree = w.ring.agree /\ u.tvd = w.tvd
    BY <2>1, <2>2 DEF Views, Rings, RingRecords
  <2> QED BY <1>1, <2>2, <2>4, <2>5 DEF u
<1>2. CASE ~(v.ring.streak + 1 >= Escalate)
  <2> DEFINE w == ring_restart(v)
  <2>1. u = [w EXCEPT !.ring.idle = 0, !.ring.streak = @ + 1]
    BY <1>2 DEF ring_watchdog, Wedged
  <2>2. /\ w \in Views /\ Restarted(v, w) /\ w.ring.agree = v.ring.agree
        /\ w.ring.streak = v.ring.streak
        /\ w.tvd.locked = v.tvd.locked /\ w.tvd.other = v.tvd.other /\ w.tvd.stuck = v.tvd.stuck
    BY RestartIs, RestartDoes, RestartCounts
  <2> HIDE DEF w, u
  <2>3. u = [w EXCEPT !.ring.idle = 0, !.ring.streak = w.ring.streak + 1]
    BY <2>1, <2>2 DEF Views, Rings, RingRecords
  <2>4. Same(w, [w EXCEPT !.ring.idle = 0, !.ring.streak = w.ring.streak + 1])
    BY <2>2, CountersAside
  <2>5. Restarted(v, u)
    BY <2>2, <2>3, <2>4, RestartedAside
  <2>6. /\ u.ring.idle = 0 /\ u.ring.agree = w.ring.agree /\ u.tvd = w.tvd
        /\ u.ring.streak = w.ring.streak + 1
    BY <2>2, <2>3 DEF Views, Rings, RingRecords
  <2> QED BY <2>2, <2>5, <2>6 DEF u
<1> QED BY <1>1, <1>2

LEMMA FollowCounts ==
  ASSUME NEW v \in Views, v.tvd.locked
  PROVE  LET w == capture_follow_input(v, FALSE)
         IN  \/ /\ Same(v, w) /\ (v.tvd.other => w.ring.agree = v.ring.agree + 1)
                /\ w.ring.idle = v.ring.idle /\ w.ring.streak = v.ring.streak
                /\ w.tvd = v.tvd
             \/ /\ v.tvd.other /\ Restarted(v, w) /\ w.ring.idle = v.ring.idle
                /\ w.tvd.locked = v.tvd.locked /\ w.tvd.other = FALSE /\ w.tvd.stuck = FALSE
<1> DEFINE u == capture_follow_input(v, FALSE)
<1>1. CASE ~v.tvd.other
  <2>1. u = [v EXCEPT !.ring.agree = IF v.ring.agree > 0 THEN v.ring.agree - 1 ELSE 0]
    BY <1>1 DEF capture_follow_input, Contradicts
  <2>2. Same(v, u)
    BY <2>1, CountersAside
  <2> HIDE DEF u
  <2>3. u.ring.idle = v.ring.idle /\ u.ring.streak = v.ring.streak /\ u.tvd = v.tvd
    BY <2>1 DEF Views, Rings, RingRecords
  <2> QED BY <1>1, <2>2, <2>3 DEF u
<1>2. CASE v.tvd.other /\ v.ring.agree + 1 < Hysteresis
  <2>1. u = [v EXCEPT !.ring.agree = v.ring.agree + 1]
    BY <1>2 DEF capture_follow_input, Contradicts
  <2>2. Same(v, u)
    BY <2>1, CountersAside
  <2> HIDE DEF u
  <2>3. u.ring.idle = v.ring.idle /\ u.ring.streak = v.ring.streak /\ u.tvd = v.tvd
        /\ u.ring.agree = v.ring.agree + 1
    BY <2>1 DEF Views, Rings, RingRecords
  <2> QED BY <2>2, <2>3 DEF u
<1>3. CASE v.tvd.other /\ ~(v.ring.agree + 1 < Hysteresis)
  <2> DEFINE w == capture_set_standard(v)
             r == [w.ring EXCEPT !.agree = 0, !.pal = ~@]
             t == [w.tvd EXCEPT !.other = FALSE]
  <2>1. u = [w EXCEPT !.ring = r, !.tvd = t, !.marks = Stamps(0)]
    BY <1>3 DEF capture_follow_input, Contradicts
  <2>2. /\ w \in Views /\ Restarted(v, w) /\ w.ring.idle = v.ring.idle
        /\ w.tvd.locked = v.tvd.locked /\ w.tvd.stuck = FALSE
    BY SetStandardIs, SetStandardDoes, SetStandardCounts
  <2> HIDE DEF w, u
  <2>3. u.ring = r /\ u.tvd = t /\ u.marks = Stamps(0) /\ u.enc = w.enc
    <3> HIDE DEF r, t
    <3> QED BY <2>1, <2>2 DEF Views
  <2>4. /\ u.ring.wr = w.ring.wr /\ u.ring.done = w.ring.done /\ u.ring.armed = w.ring.armed
        /\ u.ring.idle = w.ring.idle
        /\ u.tvd.buf = w.tvd.buf /\ u.tvd.out = w.tvd.out /\ u.tvd.row = w.tvd.row
        /\ u.tvd.running = w.tvd.running /\ u.tvd.locked = w.tvd.locked
        /\ u.tvd.stuck = w.tvd.stuck /\ u.tvd.other = FALSE
    BY <2>2, <2>3 DEF Views, Rings, RingRecords, TvdRecords
  <2>5. Restarted(v, u)
    BY <2>2, <2>3, <2>4 DEF Restarted
  <2> QED BY <1>3, <2>2, <2>4, <2>5 DEF u
<1> QED BY <1>1, <1>2, <1>3

(* The encoder's part of a tick leaves ring and decoder alone. *)
LEMMA TurnFields ==
  ASSUME NEW v \in Views, NEW rows \in 1..MaxEncode
  PROVE  LET t == Rotate(v)
             w == Encode(Remember(v, t), rows)
         IN  w.ring = t.ring /\ w.tvd = v.tvd /\ w.marks = t.marks
<1> DEFINE t == Rotate(v)
           u == Remember(v, t)
<1>1. t \in Views /\ u \in Views
  BY RotateIs, RememberIs
<1>2. t.tvd = v.tvd
  <2>1. CASE FrameDone(v)
    BY <2>1, RotateDoes
  <2>2. CASE ~FrameDone(v)
    BY <2>2 DEF Rotate
  <2> QED BY <2>1, <2>2
<1>3. u.ring = t.ring /\ u.tvd = t.tvd /\ u.marks = t.marks
  <2>1. CASE HandsOver(v)
    <3> DEFINE p == IF capture_signal_ok(t) THEN capture_prev(t) ELSE None
    <3>1. u = [t EXCEPT !.enc.pending = p, !.enc.fresh = TRUE]
      BY <2>1 DEF Remember
    <3> HIDE DEF t, u, p
    <3> QED BY <1>1, <3>1 DEF Views
  <2>2. CASE ~HandsOver(v)
    BY <2>2 DEF Remember
  <2> QED BY <2>1, <2>2
<1> HIDE DEF t, u
<1>4. LET w == Encode(u, rows) IN w.ring = u.ring /\ w.tvd = u.tvd /\ w.marks = u.marks
  BY <1>1, EncodeDoes
<1> QED BY <1>2, <1>3, <1>4 DEF t, u

(* The next buffer is armed, and the counters go on. *)
LEMMA ArmNextFields ==
  ASSUME NEW v \in Views
  PROVE  LET w == ArmNext(v)
         IN  /\ w.ring.wr = v.ring.wr /\ w.ring.done = v.ring.done /\ w.marks = v.marks
             /\ w.ring.idle = v.ring.idle /\ w.ring.streak = v.ring.streak
             /\ w.ring.agree = v.ring.agree
             /\ w.tvd.buf = v.tvd.buf /\ w.tvd.row = v.tvd.row /\ w.tvd.running = v.tvd.running
             /\ w.tvd.locked = v.tvd.locked /\ w.tvd.other = v.tvd.other
             /\ w.tvd.stuck = v.tvd.stuck
             /\ IF ~v.ring.armed /\ ~Seen(v, ARM)
                  THEN w.ring.armed = TRUE /\ w.tvd.out = NextBuf(v.ring.wr)
                  ELSE w.ring.armed = v.ring.armed /\ w.tvd.out = v.tvd.out
<1> DEFINE w == ArmNext(v)
<1>1. CASE ~v.ring.armed /\ ~Seen(v, ARM)
  <2>1. w = [v EXCEPT !.tvd.out = NextBuf(v.ring.wr), !.ring.armed = TRUE]
    BY <1>1 DEF ArmNext, row_erased, Seen
  <2> HIDE DEF w
  <2>2. /\ w.ring.wr = v.ring.wr /\ w.ring.done = v.ring.done /\ w.marks = v.marks
        /\ w.ring.idle = v.ring.idle /\ w.ring.streak = v.ring.streak
        /\ w.ring.agree = v.ring.agree
        /\ w.ring.armed = TRUE /\ w.tvd.out = NextBuf(v.ring.wr)
    BY <2>1 DEF Views, Rings, RingRecords, TvdRecords
  <2>3. /\ w.tvd.buf = v.tvd.buf /\ w.tvd.row = v.tvd.row /\ w.tvd.running = v.tvd.running
        /\ w.tvd.locked = v.tvd.locked /\ w.tvd.other = v.tvd.other
        /\ w.tvd.stuck = v.tvd.stuck
    BY <2>1 DEF Views, TvdRecords
  <2> QED BY <1>1, <2>2, <2>3 DEF w
<1>2. CASE ~(~v.ring.armed /\ ~Seen(v, ARM))
  <2>1. w = v
    BY <1>2 DEF ArmNext, row_erased, Seen
  <2> QED BY <1>2, <2>1
<1> QED BY <1>1, <1>2

LEMMA RotateCounts ==
  ASSUME NEW v \in Views, FrameDone(v)
  PROVE  Rotate(v).ring.idle = 0 /\ Rotate(v).ring.agree = v.ring.agree
<1> DEFINE w == Rotate(v)
<1>1. v.ring \in RingRecords
  BY DEF Views, Rings
<1>2. w.ring = [v.ring EXCEPT !.safe = v.ring.done, !.done = v.ring.wr,
                              !.wr = NextBuf(v.ring.wr), !.armed = FALSE,
                              !.idle = 0, !.streak = 0]
  BY <1>1 DEF Rotate, Views, RingRecords
<1> HIDE DEF w
<1>3. w.ring.idle = 0 /\ w.ring.agree = v.ring.agree
  BY <1>1, <1>2 DEF RingRecords
<1> QED BY <1>3 DEF w

(* Where a tick that turns the ring, or does not, leaves a decoder that is on its way. *)
LEMMA TurnSettled ==
  ASSUME NEW v \in Views, NEW rows \in 1..MaxEncode,
         Sound(v), ~Pending(v) => v.ring.idle + Left(v) <= 2 * Rows
  PROVE  LET a == ArmNext(v)
         IN  Settled(Encode(Remember(a, Rotate(a)), rows), FALSE)
<1> DEFINE a == ArmNext(v)
           t == Rotate(a)
           e == Encode(Remember(a, t), rows)
<1>1. a \in Views /\ t \in Views /\ e \in Views
  BY ArmNextIs, RotateIs, RememberIs, EncodeIs
<1>2. /\ a.ring.wr = v.ring.wr /\ a.marks = v.marks /\ a.ring.idle = v.ring.idle
      /\ a.tvd.buf = v.tvd.buf /\ a.tvd.row = v.tvd.row
      /\ IF ~v.ring.armed /\ ~Seen(v, ARM)
           THEN a.ring.armed = TRUE /\ a.tvd.out = NextBuf(v.ring.wr)
           ELSE a.ring.armed = v.ring.armed /\ a.tvd.out = v.tvd.out
  BY ArmNextFields
<1>3. e.ring = t.ring /\ e.tvd = a.tvd /\ e.marks = t.marks
  BY <1>1, TurnFields
<1>4. FrameDone(a) => /\ t.ring.wr = NextBuf(a.ring.wr) /\ t.ring.armed = FALSE
                      /\ t.ring.idle = 0 /\ t.marks = Stamps(NextBuf(a.ring.wr))
  BY <1>1, RotateDoes, RotateCounts
<1>5. ~FrameDone(a) => t = a
  BY DEF Rotate
<1> HIDE DEF a, t, e
<1>6. Seen(a, ARM) = Seen(v, ARM) /\ Seen(a, DONE) = Seen(v, DONE)
  BY <1>2 DEF Seen
<1>7. Sound(a)
  <2>1. CASE ~v.ring.armed /\ ~Seen(v, ARM)
    <3>1. v.tvd.buf = v.ring.wr
      BY <2>1 DEF Sound, Stamped, Clear, Seen
    <3> QED BY <2>1, <3>1, <1>2 DEF Sound
  <2>2. CASE ~(~v.ring.armed /\ ~Seen(v, ARM))
    <3>1. Stamped(a) = Stamped(v)
      BY <2>2, <1>2 DEF Stamped, Clear
    <3> QED BY <2>2, <3>1, <1>2, <1>6 DEF Sound
  <2> QED BY <2>1, <2>2
<1>8. FrameDone(a) = Pending(v) /\ (~FrameDone(a) => ~Pending(a))
  BY <1>2, <1>6 DEF FrameDone, Pending, row_erased, Seen
<1>9. /\ v.tvd.row \in Nat /\ v.tvd.row <= Rows - 1 /\ v.ring.wr \in Buffers
      /\ NextBuf(v.ring.wr) # v.ring.wr /\ v.ring.idle \in Nat
  BY FieldTypes, CounterTypes, RowsAre, NextBufIs
<1>10. CASE FrameDone(a)
  <2> DEFINE n == NextBuf(v.ring.wr)
  <2>1. /\ e.ring.wr = n /\ e.ring.armed = FALSE /\ e.ring.idle = 0 /\ e.marks = Stamps(n)
        /\ e.tvd.buf = v.tvd.buf /\ e.tvd.row = v.tvd.row
    BY <1>2, <1>3, <1>4, <1>10
  <2>2. Seen(e, ARM) /\ Seen(e, DONE) /\ Stamped(e) /\ ~Pending(e)
    BY <2>1 DEF Seen, Stamps, Stamped, Clear, Pending
  <2>3. e.tvd.out = n /\ (v.tvd.buf = v.ring.wr \/ v.tvd.buf = n)
    BY <1>2, <1>3, <1>7, <1>10 DEF FrameDone, Sound, Stamped, Clear
  <2>4. Sound(e)
    BY <2>1, <2>2, <2>3 DEF Sound
  <2>5. Left(e) <= 2 * Rows
    BY <1>1, LeftIs
  <2>6. Left(e) \in Nat
    BY <1>1, LeftIs
  <2>7. Settled(e, FALSE)
    BY <2>1, <2>2, <2>4, <2>5, <2>6, RowsAre DEF Settled
  <2> QED BY <2>7 DEF e, t, a
<1>11. CASE ~FrameDone(a)
  <2>1. /\ e.ring = a.ring /\ e.tvd = a.tvd /\ e.marks = a.marks
    BY <1>3, <1>5, <1>11
  <2>2. Seen(e, ARM) = Seen(a, ARM) /\ Seen(e, DONE) = Seen(a, DONE) /\ Stamped(e) = Stamped(a)
        /\ Pending(e) = Pending(a)
    BY <2>1 DEF Seen, Stamped, Clear, Pending
  <2>3. Sound(e) = Sound(a) /\ Left(e) = Left(a)
    BY <2>1, <2>2 DEF Sound, Left
  <2>4. ~Pending(v) /\ ~Pending(a)
    BY <1>8, <1>11
  <2>5. Left(a) = Left(v)
    BY <1>2, <1>6, <2>4 DEF Left
  <2>6. e.ring.idle + Left(e) <= 2 * Rows
    BY <1>2, <2>1, <2>3, <2>4, <2>5
  <2>7. Left(e) \in Nat /\ e.ring.idle \in Nat
    BY <1>1, LeftIs, CounterTypes
  <2>8. Settled(e, FALSE)
    BY <1>7, <2>2, <2>3, <2>4, <2>6, <2>7, RowsAre DEF Settled
  <2> QED BY <2>8 DEF e, t, a
<1> QED BY <1>10, <1>11

-----------------------------------------------------------------------------
(* The steps, with the pictures in view *)

LEMMA PictureFacts ==
  ASSUME PictureInv
  PROVE  /\ View \in Views /\ world \in WorldRecords
         /\ View.ring = ring /\ View.tvd = tvd /\ View.marks = marks /\ View.enc = enc
         /\ ring \in RingRecords /\ tvd \in TvdRecords /\ enc \in EncRecords
         /\ world.kicks \in Nat /\ world.odd \in BOOLEAN /\ world.due \in BOOLEAN
         /\ world.faults \in Nat
         /\ Spared(View, world.faults)
         /\ world.kicks >= 1 => Kicked(View, world.kicks, world.odd, world.due, world.faults)
BY DEF PictureInv, CaptureInv, View, Views, Rings, WorldRecords

LEMMA PictureThen ==
  ASSUME CaptureInv', world' \in WorldRecords, Spared(View', world'.faults),
         world'.kicks >= 1 =>
           Kicked(View', world'.kicks, world'.odd, world'.due, world'.faults)
  PROVE  PictureInv'
<1>1. Spared(View, world.faults)'
  BY DEF Spared
<1>2. (world.kicks >= 1 => Kicked(View, world.kicks, world.odd, world.due, world.faults))'
  BY DEF Kicked, Odd, Dead, Coming, Few, Settled, Sound, Pending, Seen, Left, Stamped, Clear,
         NextBuf, ARM, DONE
<1> QED BY <1>1, <1>2 DEF PictureInv

LEMMA PictureInit == ASSUME CaptureInit PROVE PictureInv
<1>1. CaptureInv
  BY CaptureInitInv
<1>2. world \in WorldRecords /\ ~(world.kicks >= 1)
  BY CaptureConstants DEF CaptureInit, WorldRecords
<1>3. Spared(View, world.faults)
  BY CaptureConstants DEF CaptureInit, View, Spared
<1> QED BY <1>1, <1>2, <1>3 DEF PictureInv

(* A tick of the watchdog that restarts the ring. *)
LEMMA KickKeeps ==
  ASSUME NEW v \in Views, Wedged(v), NEW k \in Nat, NEW odd \in BOOLEAN, NEW f \in Nat,
         Spared(v, f), k >= 1 => Kicked(v, k, odd, TRUE, f),
         NEW rows \in 1..MaxEncode
  PROVE  LET a == ArmNext(ring_watchdog(v))
             w == capture_follow_input(Encode(Remember(a, Rotate(a)), rows), FALSE)
         IN  /\ ~FrameDone(a)
             /\ Spared(w, f) /\ Kicked(w, k + 1, odd \/ Contradicts(v), FALSE, f)
<1> DEFINE u == ring_watchdog(v)
           a == ArmNext(u)
           e == Encode(Remember(a, Rotate(a)), rows)
           w == capture_follow_input(e, FALSE)
<1>1. u \in Views /\ a \in Views /\ e \in Views /\ w \in Views
  BY WatchdogIs, ArmNextIs, RotateIs, RememberIs, EncodeIs, FollowIs
<1>2. /\ Restarted(v, u) /\ u.ring.idle = 0 /\ u.ring.agree = v.ring.agree
      /\ u.tvd.locked = v.tvd.locked /\ u.tvd.other = v.tvd.other
      /\ \/ v.ring.streak + 1 >= Escalate /\ u.tvd.stuck = FALSE
         \/ u.tvd.stuck = v.tvd.stuck /\ u.ring.streak = v.ring.streak + 1
  BY WatchdogKicks
<1> HIDE DEF u
<1>3. Settled(u, FALSE) /\ Stamped(u)
  BY <1>2, RestartedSettled
<1>4. a = u
  BY <1>3 DEF ArmNext, row_erased, Stamped, Clear
<1>5. ~FrameDone(a)
  BY <1>3, <1>4 DEF FrameDone, Stamped, Clear
<1>6. Rotate(a) = a
  BY <1>5 DEF Rotate
<1>7. e.ring = u.ring /\ e.tvd = u.tvd /\ e.marks = u.marks
  BY <1>1, <1>4, <1>6, TurnFields
<1>8. v.tvd.locked /\ v.ring.idle + 1 >= Wedge /\ e.tvd.locked
  BY <1>2, <1>7 DEF Wedged, capture_signal_ok
<1>9. \/ /\ Same(e, w) /\ (e.tvd.other => w.ring.agree = e.ring.agree + 1)
         /\ w.ring.idle = e.ring.idle /\ w.ring.streak = e.ring.streak /\ w.tvd = e.tvd
      \/ /\ e.tvd.other /\ Restarted(e, w) /\ w.ring.idle = e.ring.idle
         /\ w.tvd.locked = e.tvd.locked /\ w.tvd.other = FALSE /\ w.tvd.stuck = FALSE
  BY <1>1, <1>8, FollowCounts
<1> HIDE DEF a, e, w
<1>10. /\ v.ring.idle \in Nat /\ v.ring.streak \in 0..Escalate-1 /\ v.ring.agree \in Nat
       /\ v.ring.agree < Hysteresis
       /\ v.tvd.other \in BOOLEAN /\ v.tvd.stuck \in BOOLEAN /\ v.ring.streak \in Nat
  BY CounterTypes
<1>11. /\ (k - 1) * Wedge \in Int /\ (k - 2) * Wedge = (k - 1) * Wedge - Wedge
       /\ ((k + 1) - 1) * Wedge = (k - 1) * Wedge + Wedge
       /\ ((k + 1) - 2) * Wedge = (k - 1) * Wedge
       /\ Wedge \in Nat /\ Hysteresis \in Nat /\ Escalate \in Nat /\ Wedge > 2 * Rows
       /\ Rows \in Nat /\ Escalate >= 2 /\ MaxFaults \in Nat
  BY ProductsAre
<1>12. Settled(w, FALSE) /\ Stamped(w) /\ w.tvd.running /\ w.tvd.locked /\ w.ring.idle = 0
  <2>1. CASE Same(e, w) /\ w.ring.idle = e.ring.idle /\ w.tvd = e.tvd
    <3>2. Seen(w, ARM) /\ Seen(w, DONE) /\ w.ring.wr = 0 /\ w.ring.armed = FALSE
          /\ w.tvd.buf = 0 /\ w.tvd.out = 0 /\ w.tvd.row = 0 /\ w.ring.idle = 0
      BY <2>1, <1>2, <1>3, <1>7 DEF Same, Restarted, Seen, Stamped, Clear
    <3>3. ~Pending(w) /\ Left(w) = Rows
      BY <3>2, RowsAre DEF Pending, Left
    <3>4. Settled(w, FALSE) /\ Stamped(w)
      BY <3>2, <3>3, RowsAre DEF Settled, Sound, Stamped, Clear, Seen
    <3> QED BY <2>1, <3>2, <3>4, <1>2, <1>7, <1>8 DEF Restarted
  <2>2. CASE Restarted(e, w) /\ w.ring.idle = e.ring.idle /\ w.tvd.locked = e.tvd.locked
    BY <2>2, <1>2, <1>7, <1>8, RestartedSettled DEF Restarted
  <2> QED BY <1>9, <2>1, <2>2
<1>13. Spared(w, f)
  BY <1>2, <1>7, <1>9 DEF Spared
<1>14. CASE v.tvd.other
  <2>1. (odd \/ Contradicts(v)) = TRUE /\ e.tvd.other /\ e.ring.agree = v.ring.agree
    BY <1>2, <1>7, <1>8, <1>14 DEF Contradicts
  <2>2. k >= 1 => (k - 1) * Wedge + v.ring.idle <= v.ring.agree
    BY <1>14 DEF Kicked, Odd, Dead, Coming
  <2>3. ((k + 1) - 1) * Wedge <= v.ring.agree + 1
    <3>1. CASE k = 0
      <4>1. ((k + 1) - 1) * Wedge = 0
        BY <3>1, <1>11
      <4> QED BY <4>1, <1>10
    <3>2. CASE k >= 1
      BY <3>2, <2>2, <1>8, <1>10, <1>11
    <3> QED BY <3>1, <3>2
  <2>4. CASE w.ring.agree = e.ring.agree + 1 /\ w.tvd = e.tvd
    <3>1. Odd(w, k + 1, TRUE)
      BY <2>1, <2>3, <2>4, <1>10, <1>11, <1>12 DEF Odd
    <3> QED BY <3>1, <2>1, <1>5, <1>12, <1>13 DEF Kicked, a, e, w, u
  <2>5. CASE w.tvd.other = FALSE /\ w.tvd.stuck = FALSE
    <3>1. ((k + 1) - 2) * Wedge < Hysteresis
      <4>1. ((k + 1) - 2) * Wedge = ((k + 1) - 1) * Wedge - Wedge /\ Wedge >= 1
        BY <1>11, RowsAre
      <4>2. ((k + 1) - 1) * Wedge \in Int
        BY <1>11
      <4> QED BY <4>1, <4>2, <2>3, <1>10, <1>11
    <3>2. Coming(w, k + 1, TRUE, FALSE, f)
      BY <3>1, <2>5, <1>12 DEF Coming, Few
    <3> QED BY <3>2, <2>1, <1>5, <1>12, <1>13 DEF Kicked, a, e, w, u
  <2> QED BY <2>1, <2>4, <2>5, <1>9
<1>15. CASE ~v.tvd.other
  <2>1. (odd \/ Contradicts(v)) = odd /\ ~e.tvd.other /\ w.tvd = e.tvd /\ Same(e, w)
        /\ w.ring.streak = u.ring.streak
    BY <1>2, <1>7, <1>9, <1>15 DEF Contradicts
  <2>2. ~w.tvd.other /\ w.tvd.stuck = u.tvd.stuck
    BY <2>1, <1>7
  <2>3. CASE k = 0
    <3>1. Few(k + 1, odd, f)
      BY <2>3, <1>11 DEF Few
    <3>2. CASE ~u.tvd.stuck
      BY <2>1, <2>2, <3>1, <3>2, <1>5, <1>12, <1>13 DEF Kicked, Coming, a, e, w, u
    <3>3. CASE u.tvd.stuck
      <4>1. k + 1 <= w.ring.streak
        BY <2>1, <2>3, <3>3, <1>2, <1>10
      <4> QED BY <2>1, <2>2, <3>3, <4>1, <1>5, <1>12, <1>13 DEF Kicked, Dead, a, e, w, u
    <3> QED BY <3>2, <3>3
  <2>4. CASE k >= 1 /\ Dead(v, k)
    <3>1. k <= v.ring.streak /\ v.tvd.stuck /\ f < MaxFaults
      BY <2>4 DEF Dead, Spared
    <3>2. CASE v.ring.streak + 1 >= Escalate /\ u.tvd.stuck = FALSE
      <4>1. Few(k + 1, odd, f)
        BY <3>1, <3>2, <1>10, <1>11 DEF Few
      <4> QED BY <2>1, <2>2, <3>2, <4>1, <1>5, <1>12, <1>13 DEF Kicked, Coming, a, e, w, u
    <3>3. CASE u.tvd.stuck = v.tvd.stuck /\ u.ring.streak = v.ring.streak + 1
      <4>1. k + 1 <= w.ring.streak
        BY <2>1, <3>1, <3>3, <1>10
      <4> QED BY <2>1, <2>2, <3>1, <3>3, <4>1, <1>5, <1>12, <1>13 DEF Kicked, Dead, a, e, w, u
    <3> QED BY <1>2, <3>2, <3>3
  <2>5. CASE k >= 1 /\ Coming(v, k, odd, TRUE, f)
    <3>1. ~Settled(v, TRUE)
      <4>1. Left(v) \in Nat
        BY LeftIs
      <4> QED BY <4>1, <1>8, <1>10, <1>11 DEF Settled
    <3>2. odd /\ (k - 1) * Wedge < Hysteresis /\ ~v.tvd.stuck
      BY <2>5, <3>1 DEF Coming
    <3>3. Few(k + 1, odd, f)
      BY <3>2, <1>11 DEF Few
    <3>4. ~u.tvd.stuck
      BY <3>2, <1>2
    <3> QED BY <2>1, <2>2, <3>3, <3>4, <1>5, <1>12, <1>13 DEF Kicked, Coming, a, e, w, u
  <2>6. k = 0 \/ k >= 1
    OBVIOUS
  <2>7. k >= 1 => Dead(v, k) \/ Coming(v, k, odd, TRUE, f)
    BY <1>15 DEF Kicked, Odd
  <2> QED BY <2>3, <2>4, <2>5, <2>6, <2>7
<1> QED BY <1>10, <1>14, <1>15

(* A tick that restarts nothing counts, and may turn the ring. *)
LEMMA CountKeeps ==
  ASSUME NEW v \in Views, capture_signal_ok(v), ~Wedged(v),
         NEW k \in Nat, k >= 1, NEW odd \in BOOLEAN, NEW f \in Nat,
         Kicked(v, k, odd, TRUE, f), NEW rows \in 1..MaxEncode
  PROVE  LET a == ArmNext(ring_watchdog(v))
             w == capture_follow_input(Encode(Remember(a, Rotate(a)), rows), FALSE)
         IN  Kicked(w, k, odd \/ Contradicts(v), FALSE, f)
<1> DEFINE u == ring_watchdog(v)
           a == ArmNext(u)
           t == Rotate(a)
           e == Encode(Remember(a, t), rows)
           w == capture_follow_input(e, FALSE)
<1>1. u \in Views /\ a \in Views /\ t \in Views /\ e \in Views /\ w \in Views
  BY WatchdogIs, ArmNextIs, RotateIs, RememberIs, EncodeIs, FollowIs
<1>2. /\ Same(v, u) /\ u.ring.idle = v.ring.idle + 1
      /\ u.ring.streak = v.ring.streak /\ u.ring.agree = v.ring.agree /\ u.tvd = v.tvd
  BY WatchdogCounts
<1> HIDE DEF u
<1>3. /\ a.ring.wr = u.ring.wr /\ a.marks = u.marks /\ a.ring.idle = u.ring.idle
      /\ a.ring.streak = u.ring.streak /\ a.ring.agree = u.ring.agree
      /\ a.tvd.running = u.tvd.running /\ a.tvd.locked = u.tvd.locked
      /\ a.tvd.other = u.tvd.other /\ a.tvd.stuck = u.tvd.stuck
      /\ (~u.ring.armed /\ Seen(u, ARM)) => a.ring.armed = u.ring.armed
  BY <1>1, ArmNextFields
<1>4. e.ring = t.ring /\ e.tvd = a.tvd /\ e.marks = t.marks
  BY <1>1, TurnFields
<1>5. FrameDone(a) => t.ring.idle = 0 /\ t.ring.agree = a.ring.agree
  BY <1>1, RotateCounts
<1>6. ~FrameDone(a) => t = a
  BY DEF Rotate
<1>7. v.tvd.locked /\ v.tvd.running /\ e.tvd.locked /\ e.tvd.running
      /\ e.tvd.other = v.tvd.other /\ e.tvd.stuck = v.tvd.stuck
  BY <1>2, <1>3, <1>4 DEF Kicked
<1>8. \/ /\ Same(e, w) /\ (e.tvd.other => w.ring.agree = e.ring.agree + 1)
         /\ w.ring.idle = e.ring.idle /\ w.ring.streak = e.ring.streak /\ w.tvd = e.tvd
      \/ /\ e.tvd.other /\ Restarted(e, w) /\ w.ring.idle = e.ring.idle
         /\ w.tvd.locked = e.tvd.locked /\ w.tvd.other = FALSE /\ w.tvd.stuck = FALSE
  BY <1>1, <1>7, FollowCounts
<1>9. Settled(v, TRUE) => Settled(e, FALSE)
  <2>1. SUFFICES ASSUME Settled(v, TRUE) PROVE Settled(e, FALSE)
    OBVIOUS
  <2>2. Pending(u) = Pending(v) /\ Seen(u, ARM) = Seen(v, ARM) /\ Seen(u, DONE) = Seen(v, DONE)
        /\ Stamped(u) = Stamped(v)
    BY <1>2 DEF Same, Pending, Seen, Stamped, Clear
  <2>3. Left(u) = Left(v) /\ Sound(u) = Sound(v)
    BY <1>2, <2>2 DEF Same, Left, Sound
  <2>4. Sound(u) /\ u.ring.idle + Left(u) <= 2 * Rows
    <3>1. Left(v) \in Nat /\ v.ring.idle \in Nat
      BY LeftIs, CounterTypes
    <3> QED BY <2>1, <2>3, <3>1, <1>2, RowsAre DEF Settled
  <2> HIDE DEF a, t, e
  <2>5. LET b == ArmNext(u) IN Settled(Encode(Remember(b, Rotate(b)), rows), FALSE)
    BY <1>1, <2>4, TurnSettled
  <2> QED BY <2>5 DEF a, t, e
<1> HIDE DEF a, t, e, w
<1>10. /\ v.ring.idle \in Nat /\ v.ring.agree \in Nat /\ v.ring.agree < Hysteresis
       /\ v.tvd.other \in BOOLEAN /\ v.tvd.stuck \in BOOLEAN
  BY CounterTypes
<1>11. (k - 1) * Wedge \in Int /\ Hysteresis \in Nat
  BY ProductsAre
<1>12. w.tvd.locked /\ w.tvd.running
  BY <1>7, <1>8 DEF Restarted
<1>13. CASE v.tvd.other
  <2>1. (odd \/ Contradicts(v)) = TRUE
    BY <1>7, <1>13 DEF Contradicts
  <2>2. (k - 1) * Wedge + v.ring.idle <= v.ring.agree
    BY <1>13 DEF Kicked, Odd, Dead, Coming
  <2>3. e.ring.agree = v.ring.agree /\ (e.ring.idle = 0 \/ e.ring.idle = v.ring.idle + 1)
    BY <1>2, <1>3, <1>4, <1>5, <1>6
  <2>4. CASE w.ring.agree = e.ring.agree + 1 /\ w.tvd = e.tvd /\ w.ring.idle = e.ring.idle
    <3>1. (k - 1) * Wedge + w.ring.idle <= w.ring.agree
      <4>1. w.ring.idle = 0 \/ w.ring.idle = v.ring.idle + 1
        BY <2>3, <2>4
      <4> QED BY <4>1, <2>2, <2>3, <2>4, <1>10, <1>11
    <3>2. Odd(w, k, TRUE)
      BY <3>1, <2>4, <1>7, <1>13 DEF Odd
    <3>3. Kicked(w, k, TRUE, FALSE, f)
      BY <3>2, <1>12 DEF Kicked
    <3> QED BY <3>3, <2>1 DEF a, e, t, w, u
  <2>5. CASE w.tvd.other = FALSE /\ w.tvd.stuck = FALSE
    <3>1. (k - 1) * Wedge < Hysteresis
      BY <2>2, <1>10, <1>11
    <3>2. Coming(w, k, TRUE, FALSE, f)
      BY <3>1, <2>5 DEF Coming
    <3>3. Kicked(w, k, TRUE, FALSE, f)
      BY <3>2, <1>12 DEF Kicked
    <3> QED BY <3>3, <2>1 DEF a, e, t, w, u
  <2> QED BY <2>4, <2>5, <1>7, <1>8, <1>13
<1>14. CASE ~v.tvd.other
  <2>1. (odd \/ Contradicts(v)) = odd
    BY <1>14 DEF Contradicts
  <2>2. /\ w.tvd = e.tvd /\ Same(e, w) /\ w.ring.idle = e.ring.idle
        /\ w.ring.streak = e.ring.streak /\ ~w.tvd.other /\ w.tvd.stuck = v.tvd.stuck
    BY <1>7, <1>8, <1>14
  <2>3. CASE Dead(v, k)
    <3>1. Stamped(v) /\ k <= v.ring.streak /\ v.tvd.stuck
      BY <2>3 DEF Dead
    <3>2. Stamped(u)
      BY <3>1, <1>2 DEF Same, Stamped, Clear
    <3>3. a = u
      BY <3>2 DEF a, ArmNext, row_erased, Stamped, Clear
    <3>4. e.ring = u.ring /\ e.marks = u.marks
      BY <3>2, <3>3, <1>4, <1>6 DEF FrameDone, Stamped, Clear
    <3>5. Stamped(w)
      BY <2>2, <3>2, <3>4 DEF Same, Stamped, Clear
    <3>6. Dead(w, k)
      BY <2>2, <3>1, <3>4, <3>5, <1>2 DEF Dead
    <3>7. Kicked(w, k, odd, FALSE, f)
      BY <3>6, <1>12 DEF Kicked
    <3> QED BY <3>7, <2>1 DEF a, e, t, w, u
  <2>4. CASE Coming(v, k, odd, TRUE, f)
    <3>1. Settled(v, TRUE) => Settled(w, FALSE)
      BY <1>9, <2>2, SameSettled
    <3>2. Coming(w, k, odd, FALSE, f)
      BY <2>2, <2>4, <3>1 DEF Coming
    <3>3. Kicked(w, k, odd, FALSE, f)
      BY <3>2, <1>12 DEF Kicked
    <3> QED BY <3>3, <2>1 DEF a, e, t, w, u
  <2> QED BY <2>3, <2>4, <1>14 DEF Kicked, Odd
<1> QED BY <1>10, <1>13, <1>14

(* No tick makes the decoder stick. *)
LEMMA TickFrees ==
  ASSUME NEW v \in Views, NEW rows \in 1..MaxEncode, NEW quiet \in BOOLEAN
  PROVE  LET a == ArmNext(ring_watchdog(v))
             w == capture_follow_input(Encode(Remember(a, Rotate(a)), rows), quiet)
         IN  w.tvd.stuck => v.tvd.stuck
<1> DEFINE u == ring_watchdog(v)
           a == ArmNext(u)
           e == Encode(Remember(a, Rotate(a)), rows)
           w == capture_follow_input(e, quiet)
<1>1. u \in Views /\ a \in Views /\ e \in Views
  BY WatchdogIs, ArmNextIs, RotateIs, RememberIs, EncodeIs
<1>2. u.tvd.stuck => v.tvd.stuck
  <2>1. CASE ~capture_signal_ok(v)
    <3>1. u = [v EXCEPT !.ring.idle = 0]
      BY <2>1 DEF ring_watchdog, Wedged
    <3> HIDE DEF u
    <3> QED BY <3>1 DEF Views
  <2>2. CASE capture_signal_ok(v) /\ ~Wedged(v)
    BY <2>2, WatchdogCounts
  <2>3. CASE Wedged(v)
    BY <2>3, WatchdogKicks
  <2> QED BY <2>1, <2>2, <2>3
<1>3. a.tvd.stuck = u.tvd.stuck
  BY <1>1, ArmNextFields
<1>4. e.tvd = a.tvd
  BY <1>1, TurnFields
<1>5. w.tvd.stuck => e.tvd.stuck
  <2> HIDE DEF e
  <2>1. CASE quiet
    <3>1. w = [e EXCEPT !.ring.agree = 0]
      BY <2>1 DEF capture_follow_input
    <3> HIDE DEF w
    <3> QED BY <3>1, <1>1 DEF Views
  <2>2. CASE ~quiet /\ e.tvd.locked
    BY <2>2, <1>1, FollowCounts
  <2>3. CASE ~quiet /\ ~e.tvd.locked
    <3>1. w = [e EXCEPT !.ring.agree = IF @ > 0 THEN @ - 1 ELSE 0]
      BY <2>3 DEF capture_follow_input, Contradicts
    <3> HIDE DEF w
    <3> QED BY <3>1, <1>1 DEF Views
  <2> QED BY <2>1, <2>2, <2>3
<1> QED BY <1>2, <1>3, <1>4, <1>5

LEMMA PictureTick == ASSUME PictureInv, Tick PROVE PictureInv'
<1>1. /\ View \in Views /\ world \in WorldRecords /\ View.tvd = tvd
      /\ world.kicks \in Nat /\ world.odd \in BOOLEAN /\ world.faults \in Nat
      /\ Spared(View, world.faults)
      /\ world.kicks >= 1 => Kicked(View, world.kicks, world.odd, world.due, world.faults)
  BY PictureFacts
<1>2. CaptureInv' /\ world' \in WorldRecords
  BY <1>1, TickKeeps, WorldAfterTick DEF PictureInv
<1>3. PICK rows \in 1..MaxEncode, noSignal \in BOOLEAN :
      /\ noSignal => ~tvd.locked
      /\ LET armed   == ArmNext(ring_watchdog(View))
             ticked  == Remember(armed, Rotate(armed))
             v       == capture_follow_input(Encode(ticked, rows), noSignal)
         IN  /\ ring' = v.ring /\ tvd' = v.tvd /\ marks' = v.marks /\ enc' = v.enc
             /\ world' = IF HandsOver(armed) \/ ~tvd.locked
                           THEN [world EXCEPT !.due = FALSE, !.kicks = 0, !.odd = FALSE]
                           ELSE [world EXCEPT !.due = FALSE, !.odd = @ \/ Contradicts(View),
                                              !.kicks = IF Wedged(View) THEN @ + 1 ELSE @]
  BY DEF Tick
<1> DEFINE a == ArmNext(ring_watchdog(View))
           e == Encode(Remember(a, Rotate(a)), rows)
           w == capture_follow_input(e, noSignal)
<1>4. w \in Views
  BY <1>1, WatchdogIs, ArmNextIs, RotateIs, RememberIs, EncodeIs, FollowIs
<1>5. ring' = w.ring /\ tvd' = w.tvd /\ marks' = w.marks /\ enc' = w.enc
  BY <1>3
<1>6. w.tvd.stuck => View.tvd.stuck
  BY <1>1, TickFrees
<1>7. world.due
  BY DEF Tick
<1>8. world' = IF HandsOver(a) \/ ~tvd.locked
                 THEN [world EXCEPT !.due = FALSE, !.kicks = 0, !.odd = FALSE]
                 ELSE [world EXCEPT !.due = FALSE, !.odd = @ \/ Contradicts(View),
                                    !.kicks = IF Wedged(View) THEN @ + 1 ELSE @]
  BY <1>3
<1>9. world'.faults = world.faults
  BY <1>1, <1>8 DEF WorldRecords
<1>10. CASE HandsOver(a) \/ ~tvd.locked
  <2>1. ~(world'.kicks >= 1)
    BY <1>1, <1>8, <1>10 DEF WorldRecords
  <2> HIDE DEF a, e, w
  <2>2. View' = w
    BY <1>4, <1>5 DEF View, Views
  <2>3. Spared(View', world'.faults)
    BY <2>2, <1>1, <1>6, <1>9 DEF Spared
  <2> QED BY <2>1, <2>3, <1>2, PictureThen
<1>11. CASE ~(HandsOver(a) \/ ~tvd.locked)
  <2>1. noSignal = FALSE /\ capture_signal_ok(View)
    BY <1>1, <1>3, <1>11 DEF capture_signal_ok
  <2>2. world'.due = FALSE /\ world'.odd = (world.odd \/ Contradicts(View))
        /\ world'.kicks = IF Wedged(View) THEN world.kicks + 1 ELSE world.kicks
    <3> DEFINE kk == IF Wedged(View) THEN world.kicks + 1 ELSE world.kicks
               oo == world.odd \/ Contradicts(View)
    <3>1. world' = [world EXCEPT !.due = FALSE, !.odd = oo, !.kicks = kk]
      BY <1>1, <1>8, <1>11 DEF WorldRecords
    <3> HIDE DEF kk, oo
    <3>2. world'.due = FALSE /\ world'.odd = oo /\ world'.kicks = kk
      BY <3>1, <1>1 DEF WorldRecords
    <3> QED BY <3>2 DEF kk, oo
  <2>3. CASE Wedged(View)
    <3>1. Spared(w, world.faults)
          /\ Kicked(w, world.kicks + 1, world.odd \/ Contradicts(View), FALSE, world.faults)
      BY <1>1, <1>7, <2>1, <2>3, KickKeeps
    <3> HIDE DEF a, e, w
    <3>2. View' = w
      BY <1>4, <1>5 DEF View, Views
    <3>3. Spared(View', world'.faults)
          /\ Kicked(View', world'.kicks, world'.odd, world'.due, world'.faults)
      BY <3>1, <3>2, <2>2, <2>3, <1>9
    <3> QED BY <3>3, <1>2, PictureThen
  <2>4. CASE ~Wedged(View)
    <3>1. world.kicks >= 1 =>
            Kicked(w, world.kicks, world.odd \/ Contradicts(View), FALSE, world.faults)
      BY <1>1, <1>7, <2>1, <2>4, CountKeeps
    <3> HIDE DEF a, e, w
    <3>2. View' = w
      BY <1>4, <1>5 DEF View, Views
    <3>3. world'.kicks >= 1 =>
            Kicked(View', world'.kicks, world'.odd, world'.due, world'.faults)
      BY <3>1, <3>2, <2>2, <2>4, <1>9
    <3>4. Spared(View', world'.faults)
      BY <3>2, <1>1, <1>6, <1>9 DEF Spared
    <3> QED BY <3>3, <3>4, <1>2, PictureThen
  <2> QED BY <2>3, <2>4
<1> QED BY <1>10, <1>11

(* A row written brings the frame nearer. *)
LEMMA RowSettled ==
  ASSUME NEW v \in Views, NEW w \in Views, NEW due \in BOOLEAN, Settled(v, due), w.ring = v.ring,
         w.marks = v.marks \ {<<v.tvd.buf, v.tvd.row>>}, w.tvd.out = v.tvd.out,
         v.tvd.row >= DONE => w.tvd.row = 0 /\ w.tvd.buf = v.tvd.out,
         ~(v.tvd.row >= DONE) => w.tvd.row = v.tvd.row + 1 /\ w.tvd.buf = v.tvd.buf
  PROVE  Settled(w, TRUE)
<1> DEFINE wr == v.ring.wr
           b  == v.tvd.buf
           r  == v.tvd.row
<1>1. /\ wr \in Buffers /\ b \in Buffers /\ v.tvd.out \in Buffers /\ r \in Nat /\ r <= DONE
      /\ w.tvd.row \in Nat /\ v.ring.idle \in Nat
      /\ NextBuf(wr) # wr /\ NextBuf(b) # b /\ v.ring.armed \in BOOLEAN
  BY FieldTypes, CounterTypes, RowsAre, NextBufIs
<1>2. /\ Seen(w, ARM) = (Seen(v, ARM) /\ ~(b = wr /\ r = ARM))
      /\ Seen(w, DONE) = (Seen(v, DONE) /\ ~(b = wr /\ r = DONE))
      /\ Stamped(v) = (~v.ring.armed /\ Seen(v, ARM) /\ Seen(v, DONE))
      /\ Stamped(w) = (~v.ring.armed /\ Seen(w, ARM) /\ Seen(w, DONE))
  BY <1>1 DEF Seen, Stamped, Clear
<1>3. Sound(v) /\ (Pending(v) => due)
  BY DEF Settled
<1>4. Pending(v) => Pending(w)
  BY <1>2 DEF Pending
<1>5. Sound(w)
  <2>1. CASE b = wr /\ v.tvd.out = wr /\ ~v.ring.armed
    BY <2>1 DEF Sound
  <2>2. CASE NextBuf(b) = wr /\ v.tvd.out = wr /\ Stamped(v)
    <3>1. b # wr /\ Stamped(w)
      BY <2>2, <1>1, <1>2
    <3>2. CASE r >= DONE
      BY <3>1, <3>2, <2>2, <1>2 DEF Sound
    <3>3. CASE ~(r >= DONE)
      BY <3>1, <3>3, <2>2 DEF Sound
    <3> QED BY <3>2, <3>3
  <2>3. CASE v.ring.armed /\ v.tvd.out = NextBuf(wr) /\ b = wr
    <3>1. CASE r >= DONE
      <4>1. r = DONE
        BY <3>1, <1>1, RowsAre
      <4> QED BY <4>1, <3>1, <2>3, <1>2 DEF Sound
    <3>2. CASE ~(r >= DONE)
      BY <3>2, <2>3 DEF Sound
    <3> QED BY <3>1, <3>2
  <2>4. CASE v.ring.armed /\ v.tvd.out = NextBuf(wr) /\ b = v.tvd.out /\ ~Seen(v, DONE)
    BY <2>4, <1>2 DEF Sound
  <2> QED BY <2>1, <2>2, <2>3, <2>4, <1>3 DEF Sound
<1>6. ~Pending(v) => Left(w) + 1 <= Left(v)
  <2>1. SUFFICES ASSUME ~Pending(v) PROVE Left(w) + 1 <= Left(v)
    OBVIOUS
  <2>2. CASE b # wr
    <3>1. NextBuf(b) = wr /\ v.tvd.out = wr /\ Stamped(v)
      BY <2>1, <2>2, <1>3 DEF Sound, Pending
    <3>2. ~v.ring.armed /\ Seen(w, ARM) /\ Seen(w, DONE) /\ ~Pending(w)
      BY <2>2, <3>1, <1>2 DEF Pending
    <3>3. Left(v) = 2 * Rows - r
      BY <2>1, <2>2 DEF Left
    <3>4. CASE r >= DONE
      <4>1. Left(w) = Rows /\ r = DONE
        BY <3>1, <3>2, <3>4, <1>1, RowsAre DEF Left
      <4> QED BY <4>1, <3>3, RowsAre
    <3>5. CASE ~(r >= DONE)
      <4>1. Left(w) = 2 * Rows - (r + 1)
        BY <2>2, <3>2, <3>5 DEF Left
      <4> QED BY <4>1, <3>3, <1>1, RowsAre
    <3> QED BY <3>4, <3>5
  <2>3. CASE b = wr /\ (v.ring.armed \/ ~Seen(v, ARM))
    <3>1. Seen(v, DONE) /\ Left(v) = Rows - r
      BY <2>1, <2>3 DEF Pending, Left
    <3>2. w.ring.armed \/ ~Seen(w, ARM)
      BY <2>3, <1>2
    <3>3. CASE r >= DONE
      <4>1. r = DONE
        BY <3>3, <1>1, RowsAre
      <4>2. Left(w) = 0
        BY <4>1, <3>2, <2>3, <1>2 DEF Pending, Left
      <4> QED BY <4>1, <4>2, <3>1, RowsAre
    <3>4. CASE ~(r >= DONE)
      <4>1. Seen(w, DONE) /\ w.tvd.buf = wr
        BY <3>1, <3>4, <2>3, <1>1, <1>2, RowsAre
      <4>2. Left(w) = Rows - (r + 1)
        BY <4>1, <3>2, <3>4 DEF Pending, Left
      <4> QED BY <4>2, <3>1, <1>1, RowsAre
    <3> QED BY <3>3, <3>4
  <2>4. CASE b = wr /\ ~v.ring.armed /\ Seen(v, ARM) /\ r > ARM
    <3>4. r # ARM
      BY <2>4, <1>1, RowsAre
    <3>1. Left(v) = Rows - r + ARM + 1 /\ Seen(w, ARM) /\ ~Pending(w)
      <4>1. Seen(w, ARM) /\ ~Pending(w)
        BY <3>4, <2>4, <1>2 DEF Pending
      <4>2. Left(v) = Rows - r + ARM + 1
        BY <2>1, <2>4 DEF Left
      <4> QED BY <4>1, <4>2
    <3>2. CASE r >= DONE
      <4>1. r = DONE /\ w.tvd.row = 0 /\ ~(w.tvd.row > ARM)
        BY <3>2, <1>1, RowsAre
      <4>2. w.tvd.buf = wr
        BY <3>2, <2>4, <1>1, <1>3 DEF Sound
      <4>3. ~Seen(w, DONE)
        BY <4>1, <2>4, <1>2
      <4>4. Left(w) = ARM + 1 - 0
        BY <4>1, <4>2, <4>3, <3>1, <2>4 DEF Left
      <4> QED BY <4>1, <4>4, <3>1, RowsAre
    <3>3. CASE ~(r >= DONE)
      <4>1. w.tvd.row = r + 1 /\ w.tvd.buf = wr
        BY <3>3, <2>4
      <4>2. Left(w) = Rows - (r + 1) + ARM + 1
        BY <4>1, <3>1, <2>4, <1>1, RowsAre DEF Left
      <4> QED BY <4>2, <3>1, <1>1, RowsAre
    <3> QED BY <3>2, <3>3
  <2>5. CASE b = wr /\ ~v.ring.armed /\ Seen(v, ARM) /\ ~(r > ARM)
    <3>1. ~(r >= DONE) /\ w.tvd.row = r + 1 /\ w.tvd.buf = wr /\ r <= ARM
          /\ (Seen(w, DONE) <=> Seen(v, DONE))
      <4>1. ~(r >= DONE) /\ r <= ARM /\ r # DONE
        BY <2>5, <1>1, RowsAre
      <4>2. (Seen(w, DONE) <=> Seen(v, DONE))
        BY <4>1 DEF Seen
      <4>3. w.tvd.row = r + 1 /\ w.tvd.buf = wr
        BY <4>1, <2>5
      <4> QED BY <4>1, <4>2, <4>3
    <3>2. CASE r = ARM
      <4>1. ~Seen(w, ARM)
        BY <3>2, <2>5, <1>2
      <4>2. CASE Seen(v, DONE)
        <5>1. Left(v) = Rows - r /\ Left(w) = Rows - (r + 1)
          BY <4>1, <4>2, <3>1, <2>1, <2>5 DEF Left, Pending
        <5> QED BY <5>1, <1>1, RowsAre
      <4>3. CASE ~Seen(v, DONE)
        <5>1. Left(v) = ARM + 1 - r /\ Left(w) = 0
          BY <4>1, <4>3, <3>1, <2>1, <2>5 DEF Left, Pending
        <5> QED BY <5>1, <3>2, <1>1, RowsAre
      <4> QED BY <4>2, <4>3
    <3>3. CASE r # ARM
      <4>5. Seen(w, ARM) /\ ~Pending(w)
        BY <3>3, <2>5, <1>2 DEF Pending
      <4>4. ~(r + 1 > ARM)
        BY <3>1, <3>3, <1>1, RowsAre
      <4>1. Seen(w, ARM) /\ ~(r + 1 > ARM) /\ ~Pending(w)
        BY <4>5, <4>4
      <4>2. CASE Seen(v, DONE)
        <5>1. Left(v) = Rows - r /\ Left(w) = Rows - (r + 1)
          BY <4>1, <4>2, <3>1, <2>1, <2>5 DEF Left
        <5> QED BY <5>1, <1>1, RowsAre
      <4>3. CASE ~Seen(v, DONE)
        <5>1. Left(v) = ARM + 1 - r /\ Left(w) = ARM + 1 - (r + 1)
          BY <4>1, <4>3, <3>1, <2>1, <2>5 DEF Left
        <5> QED BY <5>1, <1>1, RowsAre
      <4> QED BY <4>2, <4>3
    <3> QED BY <3>2, <3>3
  <2> QED BY <2>2, <2>3, <2>4, <2>5, <1>1
<1>7. v.ring.idle + Left(w) + 1 <= 2 * Rows
  <2>1. Left(v) \in Nat /\ Left(w) \in Nat
    BY LeftIs
  <2>2. v.ring.idle + Left(v) + (IF due THEN 1 ELSE 0) <= 2 * Rows
    BY DEF Settled
  <2>3. CASE Pending(v)
    <3>1. due = TRUE /\ Left(w) = 0
      BY <2>3, <1>3, <1>4 DEF Left
    <3> QED BY <3>1, <2>1, <2>2, <1>1, RowsAre
  <2>4. CASE ~Pending(v)
    BY <2>1, <2>2, <2>4, <1>1, <1>6, RowsAre
  <2> QED BY <2>3, <2>4
<1> QED BY <1>5, <1>7 DEF Settled

LEMMA PictureRow == ASSUME PictureInv, Row PROVE PictureInv'
<1>1. /\ View \in Views /\ world \in WorldRecords
      /\ View.ring = ring /\ View.tvd = tvd /\ View.marks = marks
      /\ tvd \in TvdRecords /\ world.due \in BOOLEAN
      /\ Spared(View, world.faults)
      /\ world.kicks >= 1 => Kicked(View, world.kicks, world.odd, world.due, world.faults)
  BY PictureFacts
<1>2. CaptureInv'
  BY RowKeeps DEF PictureInv
<1>3. /\ world' \in WorldRecords /\ world'.due = TRUE /\ world'.kicks = world.kicks
      /\ world'.odd = world.odd /\ world'.faults = world.faults
  BY <1>1 DEF Row, WorldRecords
<1>4. View'.ring = ring /\ View'.tvd = tvd' /\ View'.marks = marks' /\ View' \in Views
  BY <1>2 DEF Row, View, CaptureInv
<1>5. /\ tvd'.locked = tvd.locked /\ tvd'.other = tvd.other /\ tvd'.running = tvd.running
      /\ tvd'.stuck = tvd.stuck
  BY <1>1 DEF Row, RowWritten, TvdRecords
<1>6. Spared(View', world'.faults)
  BY <1>1, <1>3, <1>4, <1>5 DEF Spared
<1>7. ASSUME world.kicks >= 1
      PROVE  Kicked(View', world.kicks, world.odd, TRUE, world.faults)
  <2>1. tvd.locked /\ tvd.running
    BY <1>1, <1>7 DEF Kicked
  <2>2. CASE Odd(View, world.kicks, world.odd)
    BY <2>1, <2>2, <1>1, <1>4, <1>5 DEF Odd, Kicked
  <2>3. CASE Dead(View, world.kicks)
    <3>1. tvd' = tvd /\ marks' = marks
      BY <2>3, <1>1 DEF Dead, Row
    <3> QED BY <2>1, <2>3, <3>1, <1>1, <1>4 DEF Dead, Kicked, Stamped, Clear
  <2>4. CASE Coming(View, world.kicks, world.odd, world.due, world.faults)
    <3>1. ~tvd.other /\ ~tvd.stuck
      BY <2>4, <1>1 DEF Coming
    <3>2. Settled(View, world.due) => Settled(View', TRUE)
      <4>1. RowWritten /\ LastRow = DONE
        BY <2>1, <3>1 DEF Row, LastRow
      <4>2. /\ marks' = marks \ {<<tvd.buf, tvd.row>>} /\ tvd'.out = tvd.out
            /\ tvd.row >= DONE => tvd'.row = 0 /\ tvd'.buf = tvd.out
            /\ ~(tvd.row >= DONE) => tvd'.row = tvd.row + 1 /\ tvd'.buf = tvd.buf
        BY <4>1, <1>1 DEF RowWritten, TvdRecords
      <4> DEFINE v == View
                 w == View'
      <4>3. /\ v \in Views /\ w \in Views /\ world.due \in BOOLEAN /\ w.ring = v.ring
            /\ w.marks = v.marks \ {<<v.tvd.buf, v.tvd.row>>} /\ w.tvd.out = v.tvd.out
            /\ v.tvd.row >= DONE => w.tvd.row = 0 /\ w.tvd.buf = v.tvd.out
            /\ ~(v.tvd.row >= DONE) => w.tvd.row = v.tvd.row + 1 /\ w.tvd.buf = v.tvd.buf
        BY <4>2, <1>1, <1>4
      <4> HIDE DEF v, w
      <4>4. Settled(v, world.due) => Settled(w, TRUE)
        BY <4>3, RowSettled
      <4> QED BY <4>4 DEF v, w
    <3>3. Coming(View', world.kicks, world.odd, TRUE, world.faults)
      BY <2>4, <3>1, <3>2, <1>1, <1>4, <1>5 DEF Coming
    <3> QED BY <2>1, <3>3, <1>4, <1>5 DEF Kicked
  <2> QED BY <2>2, <2>3, <2>4, <1>1, <1>7 DEF Kicked
<1> QED BY <1>2, <1>3, <1>6, <1>7, PictureThen

(* What else happens to the decoder starts the count again. *)
LEMMA PictureInput ==
  ASSUME PictureInv,
         SignalDrops \/ (\E other \in BOOLEAN : Relock(other)) \/ DecoderSticks \/ Bench
  PROVE  PictureInv'
<1>1. /\ View \in Views /\ world \in WorldRecords /\ View.tvd = tvd /\ tvd \in TvdRecords
      /\ world.kicks \in Nat /\ world.faults \in Nat
      /\ Spared(View, world.faults)
      /\ world.kicks >= 1 => Kicked(View, world.kicks, world.odd, world.due, world.faults)
  BY PictureFacts
<1>2. CaptureInv'
  BY InputKeeps, BenchKeeps DEF PictureInv
<1>3. View'.tvd = tvd'
  BY DEF View
<1>4. MaxFaults \in Nat
  BY CaptureConstants
<1>5. ASSUME NEW other \in BOOLEAN, Relock(other) PROVE PictureInv'
  <2>1. world' = world /\ tvd'.stuck = tvd.stuck /\ ~tvd.locked
    BY <1>1, <1>5 DEF Relock, TvdRecords
  <2>2. ~(world'.kicks >= 1)
    BY <2>1, <1>1 DEF Kicked
  <2>3. Spared(View', world'.faults)
    BY <2>1, <1>1, <1>3 DEF Spared
  <2> QED BY <2>1, <2>2, <2>3, <1>1, <1>2, PictureThen
<1>6. CASE SignalDrops
  <2>1. world' \in WorldRecords /\ world'.kicks = 0 /\ world'.faults = world.faults
        /\ tvd'.stuck = tvd.stuck
    BY <1>1, <1>6 DEF SignalDrops, WorldRecords, TvdRecords
  <2>2. Spared(View', world'.faults)
    BY <2>1, <1>1, <1>3 DEF Spared
  <2> QED BY <2>1, <2>2, <1>2, PictureThen
<1>7. CASE DecoderSticks
  <2>1. world.faults - 1 \in Nat
    BY <1>1, <1>7 DEF DecoderSticks
  <2>2. world' \in WorldRecords /\ world'.kicks = 0 /\ world'.faults = world.faults - 1
    BY <2>1, <1>1, <1>7 DEF DecoderSticks, WorldRecords
  <2>3. Spared(View', world'.faults)
    BY <2>2, <1>1, <1>4 DEF Spared
  <2> QED BY <2>2, <2>3, <1>2, PictureThen
<1>8. ASSUME NEW other \in BOOLEAN, BenchResets(other) PROVE PictureInv'
  <2>1. world.faults - 1 \in Nat
    BY <1>1, <1>8 DEF BenchResets
  <2>2. world' \in WorldRecords /\ world'.kicks = 0 /\ world'.faults = world.faults - 1
        /\ tvd'.stuck = tvd.stuck
    BY <2>1, <1>1, <1>8 DEF BenchResets, WorldRecords, TvdRecords
  <2>3. Spared(View', world'.faults)
    BY <2>2, <1>1, <1>3, <1>4 DEF Spared
  <2> QED BY <2>2, <2>3, <1>2, PictureThen
<1>9. CASE BenchStops
  <2>1. world.faults - 1 \in Nat
    BY <1>1, <1>9 DEF BenchStops
  <2>2. world' \in WorldRecords /\ world'.kicks = 0 /\ world'.faults = world.faults - 1
        /\ tvd'.stuck = tvd.stuck
    BY <2>1, <1>1, <1>9 DEF BenchStops, WorldRecords, TvdRecords
  <2>3. Spared(View', world'.faults)
    BY <2>2, <1>1, <1>3, <1>4 DEF Spared
  <2> QED BY <2>2, <2>3, <1>2, PictureThen
<1>10. CASE BenchStarts \/ BenchStamps
  <2>1. world' \in WorldRecords /\ world'.kicks = 0 /\ world'.faults = world.faults
    <3>1. CASE BenchStarts
      BY <1>1, <3>1 DEF BenchStarts, WorldRecords
    <3>2. CASE BenchStamps
      BY <1>1, <3>2 DEF BenchStamps, WorldRecords
    <3> QED BY <3>1, <3>2, <1>10
  <2>3. tvd'.stuck => tvd.stuck
    BY <1>1, <1>10 DEF BenchStarts, BenchStamps, TvdRecords
  <2>2. Spared(View', world'.faults)
    BY <2>1, <2>3, <1>1, <1>3 DEF Spared
  <2> QED BY <2>1, <2>2, <1>2, PictureThen
<1> QED BY <1>5, <1>6, <1>7, <1>8, <1>9, <1>10 DEF Bench

LEMMA PictureStep == ASSUME PictureInv, [CaptureNext]_captureVars PROVE PictureInv'
<1>1. CASE UNCHANGED captureVars
  <2>1. UNCHANGED <<ring, tvd, marks, enc, world>>
    BY <1>1 DEF captureVars
  <2>2. View' = View
    BY <2>1 DEF View
  <2>3. CaptureInv'
    BY CaptureStepKeeps DEF PictureInv
  <2> QED BY <2>1, <2>2, <2>3, PictureThen DEF PictureInv
<1>2. CASE CaptureNext
  BY <1>2, PictureRow, PictureTick, PictureInput DEF CaptureNext, Bench
<1> QED BY <1>1, <1>2

(* The restarts counted stay as few as the property says. *)
LEMMA PictureIsReturn == ASSUME PictureInv PROVE PicturesReturn
<1>1. /\ View \in Views /\ world.kicks \in Nat /\ world.faults \in Nat
      /\ View.ring = ring /\ View.tvd = tvd
      /\ Spared(View, world.faults)
      /\ world.kicks >= 1 => Kicked(View, world.kicks, world.odd, world.due, world.faults)
  BY PictureFacts
<1>2. /\ (world.kicks - 1) * Wedge \in Int
      /\ (world.kicks - 2) * Wedge = (world.kicks - 1) * Wedge - Wedge
      /\ Wedge \in Nat /\ Wedge >= 1 /\ Hysteresis \in Nat /\ Escalate \in Nat
      /\ Rows \in Nat /\ Escalate >= 2 /\ MaxFaults \in Nat
  <2>1. Wedge >= 1
    BY CaptureConstants
  <2> QED BY <2>1, <1>1, ProductsAre
<1>3. /\ ring.idle \in Nat /\ ring.agree \in Nat /\ ring.agree < Hysteresis
      /\ ring.streak \in 0..Escalate-1
  BY <1>1, CounterTypes
<1>4. CASE world.kicks = 0
  BY <1>2, <1>4 DEF PicturesReturn
<1>5. CASE world.kicks >= 1
  <2>1. CASE Odd(View, world.kicks, world.odd)
    <3>1. world.odd /\ (world.kicks - 1) * Wedge + ring.idle <= ring.agree
      BY <2>1, <1>1 DEF Odd
    <3> QED BY <3>1, <1>2, <1>3 DEF PicturesReturn
  <2>2. CASE Dead(View, world.kicks)
    <3>1. world.kicks <= ring.streak /\ world.faults < MaxFaults
      BY <2>2, <1>1 DEF Dead, Spared
    <3> QED BY <3>1, <1>1, <1>2, <1>3 DEF PicturesReturn
  <2>3. CASE Coming(View, world.kicks, world.odd, world.due, world.faults)
    <3>1. CASE Few(world.kicks, world.odd, world.faults)
      BY <3>1 DEF Few, PicturesReturn
    <3>2. CASE world.odd /\ (world.kicks - 1) * Wedge < Hysteresis
      BY <3>2, <1>2 DEF PicturesReturn
    <3> QED BY <2>3, <3>1, <3>2 DEF Coming
  <2> QED BY <2>1, <2>2, <2>3, <1>1, <1>5 DEF Kicked
<1>6. world.kicks = 0 \/ world.kicks >= 1
  BY <1>1
<1> QED BY <1>4, <1>5, <1>6

(* What the watchdog of capture.c is for, with the tick, a lost lock, the  *)
(* change of standard and the console's stop and start between its steps:  *)
(* with a signal of the standard that is set no two restarts go by without *)
(* a picture, with a decoder that sticks no more than reprogramming takes; *)
(* 525 lines under PAL cost a restart for each Wedge of the samples it     *)
(* takes to change the standard, and two.                                  *)
THEOREM PicturesComeBack == CaptureSpec => []PicturesReturn
<1>1. CaptureInit => PictureInv
  BY PictureInit
<1>2. PictureInv /\ [CaptureNext]_captureVars => PictureInv'
  BY PictureStep
<1>3. PictureInv => PicturesReturn
  BY PictureIsReturn
<1> QED BY <1>1, <1>2, <1>3, PTL DEF CaptureSpec
=============================================================================

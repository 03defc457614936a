----------------------------- MODULE CardFiles ------------------------------
(***************************************************************************)
(* The clips on the card: clip_start and clip_stop of src/src/recorder.c   *)
(* and the frames between them, over the naming of Dcf and the muxer of    *)
(* AviClip, with power cut at any access of the card.                      *)
(*                                                                         *)
(* Every call runs against a fault chosen beforehand: after some number of *)
(* accesses one fails, or all fail from there on, or the power goes.  A    *)
(* segment's rollover is clip_stop followed by clip_start.                 *)
(***************************************************************************)
EXTENDS Dcf, AviClip

CONSTANTS
  Sizes,         \* JPEG lengths that occur
  SegFrames,     \* REC_SEG_FRAMES; also the bound on empty frames
  RefreshEvery,  \* frames between two header refreshes (30)
  MaxAccess,     \* bound: accesses of one call before its fault
  MayRunFull     \* a card may have no room to preallocate, or none at all

ASSUME CardFilesConstants ==
  /\ Sizes \subseteq Nat \ {0}
  /\ SegFrames \in Nat \ {0} /\ RefreshEvery \in Nat \ {0}
  /\ MaxAccess \in 0 .. Never - 1
  /\ MayRunFull \in BOOLEAN

VARIABLES
  cur,      \* the clip being recorded: avi, clip, clip_path and counters
  archive,  \* what can be read of each clip on the card
  ended     \* history: how the last clip_stop went

fileVars == <<cur, archive, ended>>
vars == <<dcfVars, fileVars>>

Broken == -1
Closed == [open |-> FALSE]
NotEnded == [name |-> <<DirMin, 0>>, frames |-> 0, clean |-> FALSE]

Settled(c) ==
  IF HeaderTrue(c.f.disk, c.avi.chunks) THEN Readable(c.f.disk, c.avi.chunks)
  ELSE Broken

kept == [n \in clips |-> IF cur.open /\ n = cur.name THEN Settled(cur)
                         ELSE archive[n]]

Init ==
  /\ DcfInit
  /\ cur = Closed
  /\ archive = [n \in {} |-> 0]
  /\ ended = NotEnded

-----------------------------------------------------------------------------
(* Faults *)

Faults ==
  {[left |-> Never, dead |-> FALSE, cut |-> FALSE, full |-> FALSE]}
    \cup [left : 0 .. MaxAccess, dead : BOOLEAN, cut : {FALSE}, full : {FALSE}]
    \cup [left : 0 .. MaxAccess, dead : {TRUE}, cut : {TRUE}, full : {FALSE}]
    \cup IF MayRunFull
         THEN [left : {Never}, dead : {FALSE}, cut : {FALSE}, full : {TRUE}]
         ELSE {}

Armed(f, fault) ==
  [f EXCEPT !.left = fault.left, !.dead = fault.dead, !.full = fault.full]
Disarmed(f) ==
  [f EXCEPT !.left = Never, !.dead = FALSE, !.full = FALSE, !.ok = TRUE]

Untouched(x) == x.f.left = Never /\ ~x.f.full /\ ~x.f.err /\ ~x.avi.error

(* Power goes after exactly fault.left accesses of the call that made x. *)
CutHere(x, fault) == fault.cut /\ x.f.left = 0

(* The call returns with x: a fault it never met would be no fault. *)
Returns(x, fault) == ~fault.cut /\ (fault.left = Never \/ x.f.left \in {0, Never})

-----------------------------------------------------------------------------
(* clip_start, from the opened name on *)

(***************************************************************************)
(* f_expand may fail and is then done without; a failed f_sync or a failed *)
(* header gives up, and leaves the empty file behind.                      *)
(***************************************************************************)
NoClip(f) ==
  [avi |-> [frames |-> 0, movi_bytes |-> 0, off |-> 0, error |-> TRUE,
            idx |-> <<>>, chunks |-> <<>>],
   f |-> f_close(f)]
Started(x) == IF x.avi.error THEN NoClip(x.f) ELSE x
Prepared(fault) ==
  LET s == f_sync(f_expand(Armed(NewFile, fault), Prealloc))
  IN IF s.ok THEN Started(avi_start(s)) ELSE NoClip(s)

Begun(d, x) ==
  [open |-> TRUE, name |-> NextName(d), frames_written |-> 0,
   last_refresh_frame |-> 0, avi |-> x.avi, f |-> Disarmed(x.f)]

Archived(n, k) == [m \in clips' |-> IF m = n THEN k ELSE archive[m]]

StartReturns(d, x, fault) ==
  \/ /\ Returns(x, fault)
     /\ dcf' = Named(d)
     /\ cur' = IF x.avi.error THEN cur ELSE Begun(d, x)
  \/ /\ CutHere(x, fault)
     /\ dcf' = NoDcf
     /\ cur' = Closed

ClipStart(d, fault) ==
  /\ ~cur.open
  /\ NameOpened(d)
  /\ archive' = Archived(NextName(d), 0)
  /\ StartReturns(d, Prepared(fault), fault)
  /\ UNCHANGED ended

ClipStartRefused ==
  /\ ~cur.open
  /\ \/ \E d \in ScanResults : NameRefused(d) \/ OpenRefused(d)
     \/ ScanRefused
  /\ UNCHANGED fileVars

-----------------------------------------------------------------------------
(* Frames *)

(* The power goes inside a call on the open clip. *)
Dies(x) ==
  /\ PowerLost
  /\ archive' = Archived(cur.name, Settled([cur EXCEPT !.avi = x.avi, !.f = x.f]))
  /\ cur' = Closed
  /\ UNCHANGED ended

RefreshDue(c) == c.frames_written - c.last_refresh_frame >= RefreshEvery

Muxed(c) == [avi |-> c.avi, f |-> c.f]
With(c, x) == [c EXCEPT !.avi = x.avi, !.f = x.f]
Added(c, x) == [With(c, x) EXCEPT !.frames_written = IF x.avi.error THEN @ ELSE @ + 1]
Noted(c) == [c EXCEPT !.last_refresh_frame = c.frames_written]

(* A mutant: the frame is noted as refreshed before the test. *)
RefreshIfDue_StampFirst(c) ==
  IF c.avi.error \/ ~RefreshDue(Noted(c)) THEN Noted(c)
  ELSE With(Noted(c), avi_refresh_header(Muxed(c)))
RefreshIfDue(c) ==
  IF c.avi.error \/ ~RefreshDue(c) THEN c
  ELSE Noted(With(c, avi_refresh_header(Muxed(c))))

(* The end of recorder_on_frame: a chunk, and the header when it is time.  *)
WithFrame(c, len) == RefreshIfDue(Added(c, avi_add(Muxed(c), len)))

(* recorder_task during a dropout: the result of the call is not looked at. *)
WithEmptyFrame(c) ==
  [With(c, avi_add(Muxed(c), 0)) EXCEPT !.frames_written = @ + 1]

Recorded(c, fault) ==
  \/ /\ Returns(c, fault)
     /\ cur' = [c EXCEPT !.f = Disarmed(@)]
     /\ UNCHANGED <<dcfVars, archive, ended>>
  \/ CutHere(c, fault) /\ Dies(c)

AddFrame(len, fault) ==
  /\ cur.open
  /\ cur.frames_written < SegFrames
  /\ Recorded(WithFrame([cur EXCEPT !.f = Armed(@, fault)], len), fault)

AddEmptyFrame(fault) ==
  /\ cur.open
  /\ cur.frames_written < SegFrames
  /\ Recorded(WithEmptyFrame([cur EXCEPT !.f = Armed(@, fault)]), fault)

-----------------------------------------------------------------------------
(* clip_stop: none of its three calls looks at how the one before went.    *)
CloseFile(x) == [x EXCEPT !.f = f_close(f_truncate(@))]
Stopped(c) == CloseFile(avi_finalize(Muxed(c)))

StopReturns(x, fault) ==
  \/ /\ Returns(x, fault)
     /\ UNCHANGED dcfVars
     /\ archive' = Archived(cur.name, Settled(With(cur, x)))
     /\ cur' = Closed
     /\ ended' = [name |-> cur.name, frames |-> cur.avi.frames,
                  clean |-> Untouched(x)]
  \/ CutHere(x, fault) /\ Dies(x)

ClipStop(fault) ==
  /\ cur.open
  /\ StopReturns(Stopped([cur EXCEPT !.f = Armed(@, fault)]), fault)

-----------------------------------------------------------------------------
(* The surroundings *)

PowerCut ==
  /\ PowerLost
  /\ IF cur.open THEN archive' = Archived(cur.name, Settled(cur))
                 ELSE UNCHANGED archive
  /\ cur' = Closed
  /\ UNCHANGED ended

UserDeletes ==
  /\ ~cur.open
  /\ (\E c \in clips : ClipDeleted(c)) \/ (\E n \in dirs : DirDeleted(n))
  /\ archive' = [n \in clips' |-> archive[n]]
  /\ ended' = NotEnded
  /\ UNCHANGED cur

Next ==
  \/ \E d \in ScanResults, fault \in Faults : ClipStart(d, fault)
  \/ ClipStartRefused
  \/ \E len \in Sizes, fault \in Faults : AddFrame(len, fault)
  \/ \E fault \in Faults : AddEmptyFrame(fault)
  \/ \E fault \in Faults : ClipStop(fault)
  \/ PowerCut
  \/ UserDeletes

Spec == Init /\ [][Next]_vars

-----------------------------------------------------------------------------
(* Properties *)

(* Types, with a clip of the right name open and a file for every entry. *)
CardTypeOK ==
  /\ DcfTypeOK
  /\ DOMAIN archive = clips
  /\ cur.open => /\ cur.name \in clips
                 /\ dcf.ready
                 /\ cur.avi.frames = Len(cur.avi.chunks)
                 /\ cur.f.ptr <= cur.f.size

(* Whenever the power goes, whatever call it interrupts, each header on    *)
(* the card counts frames that are on the card, with sizes to match, and   *)
(* claims an index only when all of it is there: avi.c's reason to set     *)
(* AVIF_HASINDEX in avi_finalize and not before.                           *)
HeadersTrue == \A n \in clips : kept[n] # Broken

(* An entry of the index leads to the chunk of its frame. *)
IndexLeadsToChunks == cur.open => IndexTrue(cur.avi)

(* A clip that clip_stop closed without a fault is whole on the card. *)
CleanStopIsWhole ==
  ended.clean => ended.name \in clips /\ archive[ended.name] = ended.frames

(* Pictures of the open clip that a power cut would cost now. *)
AtRisk ==
  Cardinality({i \in Settled(cur) + 1 .. cur.avi.frames : cur.avi.chunks[i] > 0})

(* A power cut costs no more pictures than one refresh interval, as avi.h  *)
(* promises, for a clip within the size its directory entry gives: the     *)
(* space that clip_start reserves and syncs before the first frame.        *)
CutCostsAnInterval ==
  cur.open /\ ~cur.avi.error /\ HdrSize + cur.avi.movi_bytes <= cur.f.disk.size
    => AtRisk <= RefreshEvery

(* What is readable on the card stays so: later frames, clips, sessions    *)
(* and power cuts add to it, and only the user takes from it.              *)
Archive == INSTANCE ClipArchive
ClipsKept == Archive!Spec
=============================================================================

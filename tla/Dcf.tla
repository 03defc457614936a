------------------------------- MODULE Dcf --------------------------------
(***************************************************************************)
(* The names of the clips: src/src/dcf.c and the way clip_start of         *)
(* src/src/recorder.c uses it.  A clip is /DCIM/NNNFCDVR/FCDV####.AVI, here *)
(* the pair <<NNN, ####>>.  The struct dcf_t lives in RAM and dies with    *)
(* the power; the card keeps its directories and its files.                *)
(*                                                                         *)
(* Simplifications:                                                        *)
(*  - names that are not ours are skipped by the parsers and left out;     *)
(*  - /DCIM itself is never deleted separately from what it holds;         *)
(*  - a card is changed with the power off: to insert one resets the board *)
(*    (docs/HARDWARE-ERRATA.md).                                           *)
(***************************************************************************)
EXTENDS Integers, FiniteSets

CONSTANTS
  DirMin, DirMax,  \* DIR_MIN, DIR_MAX: 100 and 999
  IdxMax,          \* IDX_MAX: 9999
  ShortListings    \* the card may fail in the middle of a listing

ASSUME DcfConstants ==
  /\ DirMin \in Nat \ {0} /\ DirMax \in Nat /\ DirMin <= DirMax
  /\ IdxMax \in Nat \ {0}
  /\ ShortListings \in BOOLEAN

VARIABLES
  dirs,   \* the numbers NNN of the directories on the card
  clips,  \* the names <<NNN, ####>> of the clips on the card
  dcf,    \* dcf_t, and dcf_ready of recorder.c
  lost    \* history: names whose recording a new clip has replaced

dcfVars == <<dirs, clips, dcf, lost>>

Dirs == DirMin .. DirMax
Names == Dirs \X (1 .. IdxMax)

NoDcf == [ready |-> FALSE, session_dir |-> DirMin, next_index |-> 1,
          session_made |-> FALSE]

DcfTypeOK ==
  /\ dirs \subseteq Dirs
  /\ clips \subseteq Names
  /\ dcf \in [ready : BOOLEAN, session_dir : DirMin .. DirMax + 1,
              next_index : 1 .. IdxMax + 1, session_made : BOOLEAN]
  /\ lost \subseteq Names

(* A fresh card, with the struct as boot leaves it; later sessions find it used. *)
DcfInit ==
  /\ dirs = {}
  /\ clips = {}
  /\ dcf = NoDcf
  /\ lost = {}

Indices(S) == {c[2] : c \in S}
Highest(S) == CHOOSE n \in S : \A m \in S : m <= n

(***************************************************************************)
(* dcf_boot_scan over the directories and the clips the listing returned:  *)
(* one past the highest of each.                                           *)
(***************************************************************************)
Scanned(found, seen) ==
  [ready |-> TRUE,
   session_dir |-> IF found = {} THEN DirMin ELSE Highest(found) + 1,
   next_index |-> Highest(Indices(seen) \cup {0}) + 1,
   session_made |-> FALSE]

(***************************************************************************)
(* fs_list_dir: every entry; but a read error ends its loop early and the  *)
(* short listing is returned as a complete one.                            *)
(***************************************************************************)
Listed(S) == IF ShortListings THEN SUBSET S ELSE {S}
InDirs(S, found) == {c \in S : c[1] \in found}

(* What dcf can be once clip_start has scanned, if it had to. *)
ScanResults ==
  IF dcf.ready THEN {dcf}
  ELSE UNION {{Scanned(found, seen) : seen \in Listed(InDirs(clips, found))} :
                found \in Listed(dirs)}

(* A mutant: one number too many. *)
Exhausted_Off(d) == d.session_dir > DirMax \/ d.next_index > IdxMax + 1
Exhausted(d) == d.session_dir > DirMax \/ d.next_index > IdxMax
NextName(d) == <<d.session_dir, d.next_index>>
(* A mutant: the index does not advance. *)
Named_Same(d) == [d EXCEPT !.session_made = TRUE]
Named(d) == [d EXCEPT !.session_made = TRUE, !.next_index = @ + 1]

(***************************************************************************)
(* clip_start as far as the new file's name: the scan if none has          *)
(* succeeded since power-up, dcf_next_clip with its lazy mkdir, and f_open *)
(* with FA_CREATE_ALWAYS, which empties a file of that name.  Once made,   *)
(* the session's directory is not made again, and f_open needs it.         *)
(***************************************************************************)
NameOpened(d) ==
  /\ ~Exhausted(d)
  /\ d.session_made => d.session_dir \in dirs
  /\ dirs' = dirs \cup {d.session_dir}
  /\ clips' = clips \cup {NextName(d)}
  /\ lost' = lost \cup ({NextName(d)} \cap clips)
  /\ dcf' \in {Named(d), NoDcf}     \* NoDcf: power is cut before it returns

(* The scan fails, or finds no directory number left: it is made again.    *)
ScanRefused ==
  /\ ~dcf.ready
  /\ UNCHANGED dcfVars

(* No index is left, or a directory cannot be made: no name is used up.    *)
NameRefused(d) ==
  /\ d.session_dir <= DirMax
  /\ d.session_made => d.next_index > IdxMax
  /\ dcf' = d
  /\ dirs' \in {dirs} \cup IF Exhausted(d) THEN {} ELSE {dirs \cup {d.session_dir}}
  /\ UNCHANGED <<clips, lost>>

(* f_open fails: the name is used up, there is no file. *)
OpenRefused(d) ==
  /\ ~Exhausted(d)
  /\ dcf' = Named(d)
  /\ dirs' = IF d.session_made THEN dirs ELSE dirs \cup {d.session_dir}
  /\ UNCHANGED <<clips, lost>>

PowerLost ==
  /\ dcf' = NoDcf
  /\ UNCHANGED <<dirs, clips, lost>>

(* On a computer the user deletes a clip, or a directory and its clips.    *)
ClipDeleted(c) ==
  /\ c \in clips
  /\ clips' = clips \ {c}
  /\ UNCHANGED <<dirs, dcf, lost>>

DirDeleted(n) ==
  /\ n \in dirs
  /\ dirs' = dirs \ {n}
  /\ clips' = clips \ InDirs(clips, {n})
  /\ UNCHANGED <<dcf, lost>>

DcfNext ==
  \/ \E d \in ScanResults : NameOpened(d) \/ NameRefused(d) \/ OpenRefused(d)
  \/ ScanRefused
  \/ PowerLost
  \/ \E c \in clips : ClipDeleted(c)
  \/ \E n \in dirs : DirDeleted(n)

DcfSpec == DcfInit /\ [][DcfNext]_dcfVars

(***************************************************************************)
(* clip_start never opens a name that a recording already has: dcf.h says  *)
(* the recorder reports a full card "rather than overwriting".             *)
(***************************************************************************)
NothingOverwritten == lost = {}
=============================================================================

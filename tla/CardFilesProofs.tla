-------------------------- MODULE CardFilesProofs ---------------------------
(***************************************************************************)
(* Theorems about CardFiles, for every value of its constants: the types,  *)
(* what the card holds of every clip at every cut of the power, and what a *)
(* cut can cost.                                                           *)
(*                                                                         *)
(* First the names that clip_start gives (Dcf): a listing that the card    *)
(* cuts short is excluded, since with one the theorem is false, as the run *)
(* clips_listing shows.  The rest climbs the layers of the code: the file  *)
(* and what each FatFs call leaves of the pointer, the sector in the       *)
(* buffer and the card; the clip and what each avi_* call makes of a file  *)
(* whose header is true; then the recorder's actions, the names, the cut.  *)
(***************************************************************************)
EXTENDS CardFiles, SequenceTheorems, FiniteSetTheorems, WellFoundedInduction, TLAPS

-----------------------------------------------------------------------------
(* The highest of a set of numbers *)

(* Numbers have a least one. *)
LEMMA LowestExists ==
  ASSUME NEW T, T \subseteq Nat, T # {}
  PROVE  \E x \in T : \A y \in T : x <= y
<1> DEFINE R == {p \in Nat \X Nat : p[1] < p[2]}
<1>1. IsWellFoundedOn(R, Nat)
  BY NatLessThanWellFounded DEF OpToRel
<1>2. PICK x \in T : \A y \in T : <<y, x>> \notin R
  <2> HIDE DEF R
  <2> QED BY <1>1, WFMin
<1>3. \A y \in T : ~(y < x)
  BY <1>2
<1> QED BY <1>3

(* Highest of a bounded set of numbers is one of them, and none is above it. *)
LEMMA HighestIs ==
  ASSUME NEW N \in Nat, NEW S, S \subseteq 0 .. N, S # {}
  PROVE  Highest(S) \in S /\ \A m \in S : m <= Highest(S)
<1> DEFINE T == {N - n : n \in S}
<1>1. T \subseteq Nat
  BY \A n \in S : N - n \in Nat
<1>2. T # {}
  <2>1. PICK n \in S : TRUE
    OBVIOUS
  <2> QED BY <2>1
<1>3. PICK x \in T : \A y \in T : x <= y
  <2> HIDE DEF T
  <2> QED BY <1>1, <1>2, LowestExists
<1>4. PICK n \in S : x = N - n
  BY <1>3
<1>5. \A m \in S : N - m \in T
  OBVIOUS
<1>6. \A m \in S : m <= n
  BY <1>3, <1>4, <1>5
<1> QED BY <1>4, <1>6 DEF Highest

-----------------------------------------------------------------------------
(* The scan *)

(* A clip's directory is on the card, and every clip's index is behind.    *)
ClipsInDirs == \A c \in clips : c[1] \in dirs
IndexAhead(d) == d.ready => \A c \in clips : c[2] < d.next_index

DcfInv ==
  /\ DcfTypeOK
  /\ ClipsInDirs
  /\ IndexAhead(dcf)
  /\ NothingOverwritten

DcfRecords == [ready : BOOLEAN, session_dir : DirMin .. DirMax + 1,
               next_index : 1 .. IdxMax + 1, session_made : BOOLEAN]

(* A complete scan puts the directory and the index past all there are.    *)
LEMMA ScanIsAhead ==
  ASSUME ~ShortListings, DcfInv, NEW d \in ScanResults
  PROVE  d \in DcfRecords /\ d.ready /\ IndexAhead(d)
<1> USE DcfConstants
<1>1. CASE dcf.ready
  BY <1>1 DEF ScanResults, DcfInv, DcfTypeOK, DcfRecords
<1>2. CASE ~dcf.ready
  <2>1. InDirs(clips, dirs) = clips
    BY DEF DcfInv, ClipsInDirs, InDirs
  <2>2. d = Scanned(dirs, clips)
    BY <1>2, <2>1 DEF ScanResults, Listed
  <2>3. \A c \in clips : c[1] \in Dirs /\ c[2] \in 1 .. IdxMax
    BY DEF DcfInv, DcfTypeOK, Names
  <2> DEFINE I == Indices(clips) \cup {0}
  <2>4. I \subseteq 0 .. IdxMax /\ 0 \in I
    BY <2>3 DEF Indices
  <2>5. Highest(I) \in 0 .. IdxMax /\ \A m \in I : m <= Highest(I)
    <3> HIDE DEF I
    <3> QED BY <2>4, HighestIs
  <2>6. \A c \in clips : c[2] \in I
    BY DEF Indices
  <2>7. dirs # {} => Highest(dirs) \in Dirs
    <3>1. dirs \subseteq 0 .. DirMax
      BY DEF DcfInv, DcfTypeOK, Dirs
    <3> QED BY <3>1, HighestIs DEF DcfInv, DcfTypeOK
  <2>8. d = [ready |-> TRUE,
             session_dir |-> IF dirs = {} THEN DirMin ELSE Highest(dirs) + 1,
             next_index |-> Highest(I) + 1, session_made |-> FALSE]
    BY <2>2 DEF Scanned
  <2>9. d \in DcfRecords
    <3>1. (IF dirs = {} THEN DirMin ELSE Highest(dirs) + 1) \in DirMin .. DirMax + 1
      BY <2>7 DEF Dirs
    <3>2. Highest(I) + 1 \in 1 .. IdxMax + 1
      BY <2>5
    <3> HIDE DEF I
    <3> QED BY <2>8, <3>1, <3>2 DEF DcfRecords
  <2>10. IndexAhead(d)
    <3> SUFFICES ASSUME NEW c \in clips PROVE c[2] < Highest(I) + 1
      BY <2>8 DEF IndexAhead
    <3> HIDE DEF I
    <3> QED BY <2>3, <2>5, <2>6
  <2> QED BY <2>8, <2>9, <2>10
<1> QED BY <1>1, <1>2

(* The name that comes next is nobody's. *)
LEMMA NextNameIsNew ==
  ASSUME DcfInv, NEW d \in DcfRecords, d.ready, IndexAhead(d), ~Exhausted(d)
  PROVE  NextName(d) \in Names \ clips
<1> USE DcfConstants
<1>1. NextName(d) \in Names
  BY DEF NextName, Names, Dirs, Exhausted, DcfRecords
<1>2. NextName(d) \notin clips
  <2> SUFFICES ASSUME NextName(d) \in clips PROVE FALSE
    OBVIOUS
  <2>1. NextName(d)[2] < d.next_index
    BY DEF IndexAhead
  <2> QED BY <2>1 DEF NextName, DcfRecords
<1> QED BY <1>1, <1>2

-----------------------------------------------------------------------------
(* The steps *)

LEMMA DcfInitInv == DcfInit => DcfInv
<1> USE DcfConstants
<1> SUFFICES ASSUME DcfInit PROVE DcfInv
  OBVIOUS
<1>1. NoDcf \in DcfRecords
  BY DEF NoDcf, DcfRecords
<1>2. ~NoDcf.ready
  BY DEF NoDcf
<1> QED BY <1>1, <1>2 DEF DcfInit, DcfInv, DcfTypeOK, DcfRecords, ClipsInDirs, IndexAhead,
                          NothingOverwritten

LEMMA NoDcfIsFine == NoDcf \in DcfRecords /\ ~NoDcf.ready
BY DcfConstants DEF NoDcf, DcfRecords

(* A name that was used up leaves a dcf_t of the same kind. *)
LEMMA NamedIsFine ==
  ASSUME NEW d \in DcfRecords, ~Exhausted(d)
  PROVE  /\ Named(d) \in DcfRecords
         /\ Named(d).ready = d.ready
         /\ Named(d).next_index = d.next_index + 1
         /\ d.session_dir \in Dirs
<1> USE DcfConstants
<1>1. d.session_dir \in Dirs /\ d.next_index \in 1 .. IdxMax
  BY DEF DcfRecords, Exhausted, Dirs
<1>2. d.next_index + 1 \in 1 .. IdxMax + 1
  BY <1>1
<1>3. Named(d) \in DcfRecords
  BY <1>2 DEF Named, DcfRecords
<1>4. Named(d).next_index = d.next_index + 1
  BY DEF Named, DcfRecords
<1>5. Named(d).ready = d.ready
  BY DEF Named, DcfRecords
<1> QED BY <1>1, <1>3, <1>4, <1>5

LEMMA NameOpenedKeeps ==
  ASSUME ~ShortListings, DcfInv, NEW d \in ScanResults, NameOpened(d)
  PROVE  DcfInv'
<1> USE DcfConstants
<1>1. d \in DcfRecords /\ d.ready /\ IndexAhead(d)
  BY ScanIsAhead
<1>2. ~Exhausted(d)
  BY DEF NameOpened
<1>3. NextName(d) \in Names \ clips
  BY <1>1, <1>2, NextNameIsNew
<1>4. Named(d) \in DcfRecords /\ Named(d).next_index = d.next_index + 1
       /\ d.session_dir \in Dirs
  BY <1>1, <1>2, NamedIsFine
<1>5. lost' = {} /\ clips' = clips \cup {NextName(d)} /\ dirs' = dirs \cup {d.session_dir}
  BY <1>3 DEF NameOpened, DcfInv, NothingOverwritten
<1>6. dcf' \in DcfRecords
  BY <1>4, NoDcfIsFine DEF NameOpened
<1>7. DcfTypeOK'
  BY <1>3, <1>4, <1>5, <1>6 DEF DcfInv, DcfTypeOK, DcfRecords
<1>8. ClipsInDirs'
  BY <1>5 DEF DcfInv, ClipsInDirs, NextName
<1>9. IndexAhead(dcf)'
  <2>1. CASE dcf' = NoDcf
    BY <2>1, NoDcfIsFine DEF IndexAhead
  <2>2. CASE dcf' = Named(d)
    <3> SUFFICES ASSUME NEW c \in clips' PROVE c[2] < d.next_index + 1
      BY <2>2, <1>4 DEF IndexAhead
    <3>1. d.next_index \in Nat
      BY <1>1 DEF DcfRecords
    <3>2. CASE c \in clips
      <4>1. c[2] < d.next_index /\ c[2] \in Nat
        BY <1>1, <3>2 DEF IndexAhead, DcfInv, DcfTypeOK, Names
      <4> QED BY <3>1, <4>1
    <3>3. CASE c = NextName(d)
      BY <3>1, <3>3 DEF NextName
    <3> QED BY <1>5, <3>2, <3>3
  <2> QED BY <2>1, <2>2 DEF NameOpened
<1> QED BY <1>5, <1>7, <1>8, <1>9 DEF DcfInv, NothingOverwritten

(* No file is opened: the clips stay, directories may be added. *)
LEMMA NoFileKeeps ==
  ASSUME DcfInv, NEW d \in DcfRecords, d.ready, IndexAhead(d),
         dcf' \in DcfRecords, dcf'.ready => dcf'.next_index >= d.next_index,
         clips' = clips, lost' = lost,
         dirs \subseteq dirs', dirs' \subseteq Dirs
  PROVE  DcfInv'
<1>1. DcfTypeOK' /\ ClipsInDirs' /\ NothingOverwritten'
  BY DEF DcfInv, DcfTypeOK, DcfRecords, ClipsInDirs, NothingOverwritten
<1>2. IndexAhead(dcf)'
  <2> SUFFICES ASSUME dcf'.ready, NEW c \in clips PROVE c[2] < dcf'.next_index
    BY DEF IndexAhead
  <2>1. c[2] \in Nat /\ c[2] < d.next_index
    BY DEF IndexAhead, DcfInv, DcfTypeOK, Names
  <2>2. d.next_index \in Nat /\ dcf'.next_index \in Nat
    BY DEF DcfRecords
  <2> QED BY <2>1, <2>2
<1> QED BY <1>1, <1>2 DEF DcfInv

LEMMA NameRefusedKeeps ==
  ASSUME ~ShortListings, DcfInv, NEW d \in ScanResults, NameRefused(d)
  PROVE  DcfInv'
<1> USE DcfConstants
<1>1. d \in DcfRecords /\ d.ready /\ IndexAhead(d)
  BY ScanIsAhead
<1>2. dcf' = d /\ clips' = clips /\ lost' = lost /\ d.session_dir <= DirMax
  BY DEF NameRefused
<1>3. d.session_dir \in Dirs /\ d.next_index \in Nat
  BY <1>1, <1>2 DEF DcfRecords, Dirs
<1>4. dirs \subseteq dirs' /\ dirs' \subseteq Dirs
  BY <1>3 DEF NameRefused, DcfInv, DcfTypeOK
<1>5. dcf' \in DcfRecords /\ dcf'.next_index >= d.next_index
  BY <1>1, <1>2, <1>3
<1> QED BY <1>1, <1>2, <1>4, <1>5, NoFileKeeps

LEMMA OpenRefusedKeeps ==
  ASSUME ~ShortListings, DcfInv, NEW d \in ScanResults, OpenRefused(d)
  PROVE  DcfInv'
<1> USE DcfConstants
<1>1. d \in DcfRecords /\ d.ready /\ IndexAhead(d)
  BY ScanIsAhead
<1>2. ~Exhausted(d) /\ dcf' = Named(d) /\ clips' = clips /\ lost' = lost
  BY DEF OpenRefused
<1>3. /\ Named(d) \in DcfRecords
      /\ Named(d).next_index = d.next_index + 1
      /\ d.session_dir \in Dirs
  BY <1>1, <1>2, NamedIsFine
<1>4. dirs \subseteq dirs' /\ dirs' \subseteq Dirs
  BY <1>3 DEF OpenRefused, DcfInv, DcfTypeOK
<1>5. dcf' \in DcfRecords /\ dcf'.next_index >= d.next_index
  BY <1>1, <1>2, <1>3 DEF DcfRecords
<1> QED BY <1>1, <1>2, <1>4, <1>5, NoFileKeeps

LEMMA PowerLostKeeps == ASSUME DcfInv, PowerLost PROVE DcfInv'
<1>1. dcf' \in DcfRecords /\ ~dcf'.ready
  BY NoDcfIsFine DEF PowerLost
<1> QED BY <1>1 DEF PowerLost, DcfInv, DcfTypeOK, DcfRecords, ClipsInDirs, IndexAhead,
                    NothingOverwritten

LEMMA ClipDeletedKeeps == ASSUME DcfInv, NEW c \in clips, ClipDeleted(c) PROVE DcfInv'
BY DEF ClipDeleted, DcfInv, DcfTypeOK, ClipsInDirs, IndexAhead, NothingOverwritten

LEMMA DirDeletedKeeps == ASSUME DcfInv, NEW n \in dirs, DirDeleted(n) PROVE DcfInv'
<1>1. \A c \in clips' : c \in clips /\ c[1] # n
  BY DEF DirDeleted, InDirs
<1> QED BY <1>1 DEF DirDeleted, DcfInv, DcfTypeOK, ClipsInDirs, IndexAhead, NothingOverwritten

LEMMA DcfStepKeeps == ASSUME ~ShortListings, DcfInv, [DcfNext]_dcfVars PROVE DcfInv'
<1>1. CASE \E d \in ScanResults : NameOpened(d) \/ NameRefused(d) \/ OpenRefused(d)
  BY <1>1, NameOpenedKeeps, NameRefusedKeeps, OpenRefusedKeeps
<1>2. CASE UNCHANGED dcfVars
  BY <1>2 DEF dcfVars, DcfInv, DcfTypeOK, ClipsInDirs, IndexAhead, NothingOverwritten
<1>3. CASE PowerLost
  BY <1>3, PowerLostKeeps
<1>4. CASE \E c \in clips : ClipDeleted(c)
  BY <1>4, ClipDeletedKeeps
<1>5. CASE \E n \in dirs : DirDeleted(n)
  BY <1>5, DirDeletedKeeps
<1> QED BY <1>1, <1>2, <1>3, <1>4, <1>5 DEF DcfNext, ScanRefused

-----------------------------------------------------------------------------
(* The theorems *)

(* Whatever the recorder does to a clip's content, and whenever the power  *)
(* goes, names are given by clip_start's rules only.                       *)
THEOREM NamesByTheRules == Spec => DcfSpec
<1>1. Init => DcfInit
  BY DEF Init
<1>2. [Next]_vars => [DcfNext]_dcfVars
  <2> SUFFICES ASSUME [Next]_vars PROVE [DcfNext]_dcfVars
    OBVIOUS
  <2>1. ASSUME NEW d \in ScanResults, NEW fault \in Faults, ClipStart(d, fault)
        PROVE  DcfNext
    BY <2>1 DEF ClipStart, StartReturns, DcfNext
  <2>2. CASE ClipStartRefused
    BY <2>2 DEF ClipStartRefused, DcfNext
  <2>3. ASSUME NEW c, NEW fault, Recorded(c, fault) PROVE [DcfNext]_dcfVars
    BY <2>3 DEF Recorded, Dies, DcfNext
  <2>4. ASSUME NEW fault \in Faults, ClipStop(fault) PROVE [DcfNext]_dcfVars
    BY <2>4 DEF ClipStop, StopReturns, Dies, DcfNext
  <2>5. CASE PowerCut
    BY <2>5 DEF PowerCut, DcfNext
  <2>6. CASE UserDeletes
    BY <2>6 DEF UserDeletes, DcfNext
  <2>7. CASE UNCHANGED vars
    BY <2>7 DEF vars
  <2> QED BY <2>1, <2>2, <2>3, <2>4, <2>5, <2>6, <2>7 DEF Next, AddFrame, AddEmptyFrame
<1> QED BY <1>1, <1>2, PTL DEF Spec, DcfSpec

(* clip_start never opens a name a recording has, as long as no listing is *)
(* cut short: for every range of numbers, over deletions, power cuts,      *)
(* refused directories and files, and numbers that run out.                *)
THEOREM NamesAreNew == ~ShortListings => (Spec => []NothingOverwritten)
<1> SUFFICES ASSUME ~ShortListings PROVE Spec => []NothingOverwritten
  OBVIOUS
<1>1. DcfInit => DcfInv
  BY DcfInitInv
<1>2. DcfInv /\ [DcfNext]_dcfVars => DcfInv'
  BY DcfStepKeeps
<1>3. DcfInv => NothingOverwritten
  BY DEF DcfInv
<1> QED BY <1>1, <1>2, <1>3, NamesByTheRules, PTL DEF DcfSpec

-----------------------------------------------------------------------------
(* A file *)

Parts == 0 .. MaxSectors
Headers == [Fields -> Nat] \cup {NoHeader}
Disks == [hdr : Headers, fill : [Parts -> 0 .. Sector], size : Nat]
Files ==
  [ptr : Nat, size : Nat, sect : Nat \cup {-1}, fill : 0 .. Sector, hdr : Headers,
   dirty : BOOLEAN, err : BOOLEAN, ok : BOOLEAN, disk : Disks,
   left : Int, dead : BOOLEAN, full : BOOLEAN]

(* The buffer is ahead of the card, or no different from it. *)
Buffered(f) ==
  /\ f \in Files
  /\ f.sect \in Parts => f.disk.fill[f.sect] <= f.fill
  /\ ~f.dirty => Saved(f) = f.disk

(* e is the same header with no less behind it. *)
More(d, e) == e.hdr = d.hdr /\ \A s \in Parts : d.fill[s] <= e.fill[s]

(* What a call on the file may make of it, whether it succeeds or not.  The *)
(* header on the card can only become the one in the buffer, and only with  *)
(* all that the buffer had.                                                 *)
Grows(f, g) ==
  /\ More(Saved(f), Saved(g))
  /\ More(f.disk, g.disk) \/ More(Saved(f), g.disk)

LEMMA Division ==
  ASSUME NEW p \in Nat
  PROVE  /\ p \div 512 \in Nat /\ p % 512 \in 0 .. 511
         /\ p = 512 * (p \div 512) + (p % 512)
OBVIOUS

LEMMA WithinSector ==
  ASSUME NEW p \in Nat, NEW n \in Nat, (p % 512) + n <= 512
  PROVE  (p % 512) + n \in 0 .. 512 /\ p + n \in Nat
OBVIOUS

LEMMA FillIs ==
  ASSUME NEW d \in Disks, NEW s \in Parts
  PROVE  d.fill[s] \in Int /\ 0 <= d.fill[s] /\ d.fill[s] <= 512
BY DEF Disks, Sector

(* The share of sector s in the first n bytes is on the card. *)
Enough(d, s, n) ==
  /\ n >= s * 512 + 512 => d.fill[s] >= 512
  /\ s * 512 < n /\ n < s * 512 + 512 => d.fill[s] >= n - s * 512

LEMMA OnCardIs ==
  ASSUME NEW d \in Disks, NEW n \in Int
  PROVE  OnCard(d, n) <=> \A s \in Parts : Enough(d, s, n)
<1>1. DOMAIN d.fill = Parts
  BY DEF Disks
<1>2. \A s \in Parts : s \in Int /\ d.fill[s] \in Int
  BY FillIs DEF Parts
<1>3. ASSUME NEW s \in Parts
      PROVE  Enough(d, s, n) <=>
               (s * 512 < n => d.fill[s] >= IF n - s * 512 < 512 THEN n - s * 512 ELSE 512)
  BY <1>2 DEF Enough
<1> QED BY <1>1, <1>3 DEF OnCard, Sector

LEMMA MoreTrans ==
  ASSUME NEW d \in Disks, NEW e \in Disks, NEW g \in Disks, More(d, e), More(e, g)
  PROVE  More(d, g)
<1>1. \A s \in Parts : d.fill[s] <= e.fill[s] /\ e.fill[s] <= g.fill[s]
  BY DEF More
<1>2. \A s \in Parts : d.fill[s] \in Int /\ e.fill[s] \in Int /\ g.fill[s] \in Int
  BY FillIs
<1>3. \A s \in Parts : d.fill[s] <= g.fill[s]
  BY <1>1, <1>2
<1> QED BY <1>3 DEF More

LEMMA MoreSelf == ASSUME NEW d \in Disks PROVE More(d, d)
BY FillIs DEF More

LEMMA SavedIs ==
  ASSUME NEW f \in Files
  PROVE  /\ Saved(f) \in Disks
         /\ Saved(f).size = f.disk.size
         /\ Saved(f).hdr = IF f.sect = 0 THEN f.hdr ELSE f.disk.hdr
         /\ \A s \in Parts : Saved(f).fill[s] = IF s = f.sect THEN f.fill ELSE f.disk.fill[s]
BY DEF Saved, Files, Disks

LEMMA SavedMore ==
  ASSUME NEW f, Buffered(f)
  PROVE  \A s \in Parts : f.disk.fill[s] <= Saved(f).fill[s]
<1>1. f.disk \in Disks /\ f.fill \in 0 .. Sector /\ f \in Files
  BY DEF Buffered, Files
<1>2. \A s \in Parts : f.disk.fill[s] \in Int
  BY <1>1, FillIs
<1> QED BY <1>1, <1>2, SavedIs DEF Buffered

SameView(f, g) ==
  /\ g.sect = f.sect /\ g.fill = f.fill /\ g.hdr = f.hdr
  /\ g.dirty = f.dirty /\ g.disk = f.disk

SamePlace(f, g) == g.ptr = f.ptr /\ g.size = f.size /\ g.full = f.full

LEMMA SameViewGrows ==
  ASSUME NEW f, Buffered(f), NEW g \in Files, SameView(f, g)
  PROVE  Buffered(g) /\ Grows(f, g) /\ Saved(g) = Saved(f)
<1>1. Saved(g) = Saved(f)
  BY DEF SameView, Saved
<1>2. f \in Files /\ f.disk \in Disks /\ Saved(f) \in Disks
  BY SavedIs DEF Buffered, Files
<1>3. Buffered(g)
  BY <1>1 DEF Buffered, SameView
<1>4. Grows(f, g)
  BY <1>1, <1>2, MoreSelf DEF Grows, SameView
<1> QED BY <1>1, <1>3, <1>4

LEMMA FailIs ==
  ASSUME NEW f \in Files
  PROVE  /\ Fail(f) \in Files /\ SameView(f, Fail(f)) /\ SamePlace(f, Fail(f))
         /\ ~Fail(f).ok /\ Fail(f).err = f.err
<1>1. (IF f.dead THEN 0 ELSE Never) \in Int
  BY DEF Never
<1>2. Fail(f) = [f EXCEPT !.ok = FALSE, !.left = IF f.dead THEN 0 ELSE Never]
  BY DEF Fail
<1> QED BY <1>1, <1>2 DEF Files, SameView, SamePlace

LEMMA AbortIs ==
  ASSUME NEW f \in Files
  PROVE  /\ Abort(f) \in Files /\ SameView(f, Abort(f)) /\ SamePlace(f, Abort(f))
         /\ ~Abort(f).ok /\ Abort(f).err
<1>1. Fail(f) \in Files /\ SameView(f, Fail(f)) /\ SamePlace(f, Fail(f)) /\ ~Fail(f).ok
  BY FailIs
<1> QED BY <1>1 DEF Abort, Files, SameView, SamePlace

LEMMA AccessedIs ==
  ASSUME NEW f \in Files
  PROVE  /\ Accessed(f) \in Files /\ SameView(f, Accessed(f)) /\ SamePlace(f, Accessed(f))
         /\ Accessed(f).ok = f.ok /\ Accessed(f).err = f.err
<1>1. (IF f.left = Never THEN f.left ELSE f.left - 1) \in Int
  BY DEF Files
<1>2. Accessed(f) = [f EXCEPT !.left = IF f.left = Never THEN f.left ELSE f.left - 1]
  BY DEF Accessed
<1> QED BY <1>1, <1>2 DEF Files, SameView, SamePlace

LEMMA FlushIs ==
  ASSUME NEW f, Buffered(f), f.ok
  PROVE  LET g == Flush(f)
         IN  /\ Buffered(g) /\ Grows(f, g) /\ SamePlace(f, g) /\ Saved(g) = Saved(f)
             /\ g.disk.size = f.disk.size /\ g.err = f.err
             /\ g.sect = f.sect /\ g.fill = f.fill /\ g.hdr = f.hdr
             /\ g.ok => ~g.dirty /\ g.disk = Saved(f)
             /\ ~g.ok => f.dirty /\ SameView(f, g)
<1> DEFINE g == Flush(f)
<1>1. f \in Files /\ f.disk \in Disks /\ Saved(f) \in Disks /\ Saved(f).size = f.disk.size
  BY SavedIs DEF Buffered, Files
<1>2. CASE ~f.dirty
  <2>1. g = f
    BY <1>2 DEF Flush
  <2>2. SameView(f, f) /\ SamePlace(f, f)
    BY DEF SameView, SamePlace
  <2>3. Grows(f, f)
    BY <1>1, <2>2, SameViewGrows
  <2>4. Saved(f) = f.disk
    BY <1>2 DEF Buffered
  <2> QED BY <1>2, <2>1, <2>2, <2>3, <2>4
<1>3. CASE f.dirty /\ f.left = 0
  <2>1. g = Fail(f)
    BY <1>3 DEF Flush
  <2>2. g \in Files /\ SameView(f, g) /\ SamePlace(f, g) /\ ~g.ok /\ g.err = f.err
    BY <1>1, <2>1, FailIs
  <2> HIDE DEF g
  <2>3. Buffered(g) /\ Grows(f, g) /\ Saved(g) = Saved(f)
    BY <2>2, SameViewGrows
  <2>4. /\ g.disk.size = f.disk.size /\ g.sect = f.sect
        /\ g.fill = f.fill /\ g.hdr = f.hdr
    BY <2>2 DEF SameView
  <2> QED BY <1>3, <2>2, <2>3, <2>4 DEF g
<1>4. CASE f.dirty /\ f.left # 0
  <2> DEFINE a == Accessed(f)
  <2>1. a \in Files /\ SameView(f, a) /\ SamePlace(f, a) /\ a.ok /\ a.err = f.err
    BY <1>1, AccessedIs
  <2>2. g = [a EXCEPT !.dirty = FALSE, !.disk = Saved(f)]
    BY <1>4 DEF Flush
  <2> HIDE DEF a, g
  <2>3. /\ g \in Files /\ ~g.dirty /\ g.disk = Saved(f) /\ g.sect = f.sect /\ g.fill = f.fill
        /\ g.hdr = f.hdr /\ SamePlace(f, g) /\ g.err = f.err /\ g.ok
    BY <1>1, <2>1, <2>2 DEF Files, SameView, SamePlace
  <2>4. Saved(g) = Saved(f)
    <3>1. [Saved(f).fill EXCEPT ![f.sect] = f.fill] = Saved(f).fill
      BY <1>1, SavedIs DEF Disks
    <3>2. Saved(g) = [Saved(f) EXCEPT !.fill = Saved(f).fill, !.hdr = Saved(f).hdr]
      BY <1>1, <2>3, <3>1, SavedIs DEF Saved
    <3> HIDE DEF Saved
    <3> QED BY <1>1, <3>2 DEF Disks
  <2>5. Buffered(g)
    BY <1>1, <2>3, <2>4, SavedIs DEF Buffered, Files
  <2>6. Grows(f, g)
    BY <1>1, <2>3, <2>4, MoreSelf DEF Grows
  <2> QED BY <1>1, <2>3, <2>4, <2>5, <2>6 DEF g
<1> QED BY <1>2, <1>3, <1>4

LEMMA FlushOrAbortIs ==
  ASSUME NEW f, Buffered(f), f.ok
  PROVE  LET g == FlushOrAbort(f)
         IN  /\ Buffered(g) /\ Grows(f, g) /\ SamePlace(f, g) /\ Saved(g) = Saved(f)
             /\ g.disk.size = f.disk.size
             /\ g.sect = f.sect /\ g.fill = f.fill /\ g.hdr = f.hdr
             /\ g.ok => ~g.dirty /\ g.disk = Saved(f) /\ g.err = f.err
             /\ ~g.ok => g.err
<1> DEFINE h == Flush(f)
<1>1. /\ Buffered(h) /\ Grows(f, h) /\ SamePlace(f, h) /\ Saved(h) = Saved(f)
      /\ h.disk.size = f.disk.size /\ h.err = f.err
      /\ h.sect = f.sect /\ h.fill = f.fill /\ h.hdr = f.hdr
      /\ h.ok => ~h.dirty /\ h.disk = Saved(f)
  BY FlushIs
<1>2. FlushOrAbort(f) = IF h.ok THEN h ELSE Abort(f)
  BY DEF FlushOrAbort
<1> HIDE DEF h
<1>3. CASE h.ok
  BY <1>1, <1>2, <1>3
<1>4. CASE ~h.ok
  <2>1. f \in Files
    BY DEF Buffered
  <2>2. /\ Abort(f) \in Files /\ SameView(f, Abort(f)) /\ SamePlace(f, Abort(f))
        /\ ~Abort(f).ok /\ Abort(f).err
    BY <2>1, AbortIs
  <2>3. Buffered(Abort(f)) /\ Grows(f, Abort(f)) /\ Saved(Abort(f)) = Saved(f)
    BY <2>2, SameViewGrows
  <2> QED BY <1>2, <1>4, <2>2, <2>3 DEF SameView
<1> QED BY <1>3, <1>4

(* A sector taken into a clean buffer changes nothing on the card. *)
LEMMA LoadIs ==
  ASSUME NEW f, Buffered(f), ~f.dirty, f.ok, NEW s \in Nat, NEW read \in BOOLEAN
  PROVE  LET g == Load(f, s, read)
         IN  /\ Buffered(g) /\ Grows(f, g) /\ SamePlace(f, g)
             /\ g.disk = f.disk /\ Saved(g) = Saved(f) /\ ~g.dirty
             /\ g.ok => g.err = f.err /\ g.sect = s
             /\ ~g.ok => g.err
<1> DEFINE h == [f EXCEPT !.sect = s, !.fill = Held(f.disk, s),
                          !.hdr = IF s = 0 THEN f.disk.hdr ELSE @]
<1>1. f \in Files /\ f.disk \in Disks /\ Saved(f) = f.disk
  BY DEF Buffered, Files
<1>2. Held(f.disk, s) \in 0 .. Sector /\ (s \in Parts => Held(f.disk, s) = f.disk.fill[s])
  <2> DEFINE fill == f.disk.fill
  <2>1. fill \in [Parts -> 0 .. Sector] /\ 0 \in 0 .. Sector
    BY <1>1 DEF Disks, Sector
  <2>2. Held(f.disk, s) = IF s \in DOMAIN fill THEN fill[s] ELSE 0
    BY DEF Held
  <2> HIDE DEF fill
  <2>3. /\ Held(f.disk, s) \in 0 .. Sector
        /\ s \in Parts => Held(f.disk, s) = fill[s]
    BY <2>1, <2>2
  <2> QED BY <2>3 DEF fill
<1>3. /\ h \in Files /\ h.disk = f.disk /\ h.sect = s /\ h.fill = Held(f.disk, s)
      /\ (s = 0 => h.hdr = f.disk.hdr) /\ ~h.dirty /\ SamePlace(f, h) /\ h.ok /\ h.err = f.err
  BY <1>1, <1>2 DEF Files, Disks, SamePlace
<1>4. Load(f, s, read) = IF ~read THEN h ELSE IF f.left = 0 THEN Abort(f) ELSE Accessed(h)
  BY DEF Load
<1> HIDE DEF h
<1>5. Saved(h) = f.disk
  <2>1. [f.disk.fill EXCEPT ![h.sect] = h.fill] = f.disk.fill
    BY <1>1, <1>2, <1>3 DEF Disks
  <2>2. Saved(h) = [f.disk EXCEPT !.fill = f.disk.fill, !.hdr = f.disk.hdr]
    BY <1>1, <1>3, <2>1 DEF Saved
  <2> QED BY <1>1, <2>2 DEF Disks
<1>6. Buffered(h) /\ Grows(f, h)
  <2>1. Buffered(h)
    BY <1>1, <1>2, <1>3, <1>5, FillIs DEF Buffered
  <2> QED BY <1>1, <1>3, <1>5, <2>1, MoreSelf DEF Grows
<1>7. CASE ~read
  BY <1>1, <1>3, <1>4, <1>5, <1>6, <1>7
<1>8. CASE read /\ f.left = 0
  <2>1. /\ Abort(f) \in Files /\ SameView(f, Abort(f)) /\ SamePlace(f, Abort(f))
        /\ ~Abort(f).ok /\ Abort(f).err
    BY <1>1, AbortIs
  <2>2. Buffered(Abort(f)) /\ Grows(f, Abort(f)) /\ Saved(Abort(f)) = Saved(f)
    BY <2>1, SameViewGrows
  <2> QED BY <1>4, <1>8, <2>1, <2>2 DEF SameView
<1>9. CASE read /\ f.left # 0
  <2> DEFINE a == Accessed(h)
  <2>1. /\ a \in Files /\ SameView(h, a) /\ SamePlace(h, a) /\ a.ok = h.ok /\ a.err = h.err
    BY <1>3, AccessedIs
  <2> HIDE DEF a
  <2>2. Buffered(a) /\ Grows(h, a) /\ Saved(a) = Saved(h)
    BY <1>6, <2>1, SameViewGrows
  <2>3. Grows(f, a)
    BY <1>1, <1>3, <1>5, <2>1, <2>2, MoreSelf DEF Grows, SameView
  <2>4. Load(f, s, read) = a
    BY <1>4, <1>9 DEF a
  <2> QED BY <1>1, <1>3, <1>5, <2>1, <2>2, <2>3, <2>4 DEF SameView, SamePlace
<1> QED BY <1>7, <1>8, <1>9

(* Bytes put in the buffer's sector, at the file pointer. *)
LEMMA PutIs ==
  ASSUME NEW f, Buffered(f), NEW n \in Nat \ {0},
         f.sect = f.ptr \div Sector, (f.ptr % Sector) + n <= Sector
  PROVE  LET g == Put(f, n)
         IN  /\ Buffered(g) /\ Grows(f, g) /\ g.disk = f.disk
             /\ g.ptr = f.ptr + n /\ g.size = Larger(f.size, f.ptr + n)
             /\ g.sect = f.sect /\ g.hdr = f.hdr /\ g.dirty
             /\ g.fill = Larger(f.fill, (f.ptr % Sector) + n)
             /\ g.ok = f.ok /\ g.err = f.err /\ g.full = f.full
             /\ OnCard(Saved(f), f.ptr) => OnCard(Saved(g), f.ptr + n)
<1> DEFINE g == Put(f, n)
           m == (f.ptr % Sector) + n
<1>1. f \in Files /\ f.disk \in Disks /\ f.ptr \in Nat /\ f.fill \in 0 .. Sector
  BY DEF Buffered, Files
<1>2. m \in 0 .. Sector /\ f.ptr + n \in Nat
  <2>1. f.ptr \in Nat /\ n \in Nat /\ (f.ptr % 512) + n <= 512
    BY <1>1 DEF Sector
  <2> QED BY ZenonT(30), <2>1, WithinSector DEF Sector
<1>3. g = [f EXCEPT !.ptr = f.ptr + n, !.fill = Larger(f.fill, m), !.dirty = TRUE,
                    !.size = Larger(f.size, f.ptr + n)]
  BY DEF Put
<1>4. /\ Larger(f.fill, m) \in 0 .. Sector /\ f.fill <= Larger(f.fill, m)
      /\ m <= Larger(f.fill, m) /\ Larger(f.size, f.ptr + n) \in Nat
  BY <1>1, <1>2 DEF Larger, Files, Sector
<1> HIDE DEF g, m
<1>5. /\ g \in Files /\ g.disk = f.disk /\ g.ptr = f.ptr + n
      /\ g.size = Larger(f.size, f.ptr + n) /\ g.sect = f.sect /\ g.hdr = f.hdr /\ g.dirty
      /\ g.fill = Larger(f.fill, m) /\ g.ok = f.ok /\ g.err = f.err /\ g.full = f.full
  BY <1>1, <1>2, <1>3, <1>4 DEF Files
<1>6. Buffered(g)
  BY <1>1, <1>4, <1>5, FillIs DEF Buffered
<1>7. /\ Saved(f) \in Disks /\ Saved(g) \in Disks /\ Saved(g).hdr = Saved(f).hdr
      /\ \A s \in Parts : Saved(g).fill[s] = IF s = f.sect THEN g.fill ELSE f.disk.fill[s]
      /\ \A s \in Parts : Saved(f).fill[s] = IF s = f.sect THEN f.fill ELSE f.disk.fill[s]
  BY <1>1, <1>5, SavedIs
<1>8. Grows(f, g)
  <2>1. \A s \in Parts : Saved(f).fill[s] <= Saved(g).fill[s]
    BY <1>1, <1>4, <1>5, <1>7, FillIs DEF Sector
  <2> QED BY <1>1, <1>5, <1>7, <2>1, MoreSelf DEF Grows, More
<1>9. ASSUME OnCard(Saved(f), f.ptr) PROVE OnCard(Saved(g), f.ptr + n)
  <2>0. \A s \in Parts : Enough(Saved(f), s, f.ptr)
    BY <1>1, <1>7, <1>9, OnCardIs
  <2> SUFFICES ASSUME NEW s \in Parts PROVE Enough(Saved(g), s, f.ptr + n)
    <3>1. f.ptr + n \in Int
      BY <1>2
    <3> QED BY <1>7, <3>1, OnCardIs
  <2>1. s \in Nat /\ f.ptr = 512 * f.sect + (f.ptr % 512) /\ f.ptr % 512 \in 0 .. 511
        /\ f.sect \in Nat
    <3>1. f.ptr \in Nat /\ f.sect = f.ptr \div 512
      BY <1>1 DEF Sector
    <3>2. s \in Nat
      BY FatFileSizes DEF Parts
    <3>3. \A p \in Nat : /\ p \div 512 \in Nat /\ p % 512 \in 0 .. 511
                         /\ p = 512 * (p \div 512) + (p % 512)
      BY Division
    <3> QED BY SMTT(20), <3>1, <3>2, <3>3
  <2>2. CASE s = f.sect
    <3>1. Saved(g).fill[s] = Larger(f.fill, m)
      BY <1>5, <1>7, <2>2
    <3>2. m = (f.ptr % 512) + n
      BY DEF m, Sector
    <3>3. m \in 0 .. 512 /\ m <= Larger(f.fill, m) /\ Larger(f.fill, m) \in Int
      BY <1>2, <1>4 DEF Sector
    <3>4. f.ptr + n = s * 512 + m
      BY <2>1, <2>2, <3>2
    <3> QED BY <2>1, <3>1, <3>3, <3>4 DEF Enough
  <2>3. CASE s # f.sect
    <3>1. s < f.sect \/ s > f.sect
      <4>1. s \in Int /\ f.sect \in Int
        BY <2>1
      <4> QED BY <2>3, <4>1
    <3>2. Saved(g).fill[s] = Saved(f).fill[s] /\ Saved(f).fill[s] \in Int
      BY <1>7, <2>3, FillIs
    <3>3. (f.ptr % 512) + n <= 512
      BY DEF Sector
    <3>4. CASE s < f.sect
      <4>1. s * 512 + 512 <= f.ptr
        BY <2>1, <3>4
      <4>2. Saved(f).fill[s] >= 512
        BY <1>1, <2>0, <2>1, <4>1 DEF Enough
      <4>3. Saved(g).fill[s] >= 512 /\ Saved(g).fill[s] \in Int
        BY <3>2, <4>2
      <4> DEFINE q == f.ptr + n
      <4>4. q \in Int /\ s \in Int
        BY <1>2, <2>1
      <4> HIDE DEF q
      <4>5. Enough(Saved(g), s, q)
        BY <4>3, <4>4 DEF Enough
      <4> QED BY <4>5 DEF q
    <3>5. CASE s > f.sect
      <4>1. f.ptr + n <= s * 512
        BY <2>1, <3>3, <3>5
      <4>2. ~(f.ptr + n >= s * 512 + 512) /\ ~(s * 512 < f.ptr + n)
        BY <1>2, <2>1, <4>1
      <4> QED BY <4>2 DEF Enough
    <3> QED BY <3>1, <3>4, <3>5
  <2> QED BY <2>2, <2>3
<1> QED BY <1>5, <1>6, <1>8, <1>9 DEF g, m

LEMMA GrowsTrans ==
  ASSUME NEW f, NEW g, NEW h, Buffered(f), Buffered(g), Buffered(h), Grows(f, g), Grows(g, h)
  PROVE  Grows(f, h)
<1>1. /\ f.disk \in Disks /\ Saved(f) \in Disks /\ g.disk \in Disks /\ Saved(g) \in Disks
      /\ h.disk \in Disks /\ Saved(h) \in Disks
  BY SavedIs DEF Buffered, Files
<1>2. More(Saved(f), Saved(h))
  BY <1>1, MoreTrans DEF Grows
<1>3. More(f.disk, h.disk) \/ More(Saved(f), h.disk)
  BY <1>1, MoreTrans DEF Grows
<1> QED BY <1>2, <1>3 DEF Grows

LEMMA FilledIs ==
  ASSUME NEW d \in Disks, NEW q \in Nat, NEW k \in Nat
  PROVE  LET e == Filled(d, q, k)
         IN  /\ e \in Disks /\ e.hdr = d.hdr /\ e.size = d.size
             /\ \A t \in Parts : /\ t >= q /\ t < q + k => e.fill[t] = 512
                                 /\ ~(t >= q /\ t < q + k) => e.fill[t] = d.fill[t]
                                 /\ d.fill[t] <= e.fill[t]
<1> DEFINE fl == [t \in Parts |-> IF t \in q .. q + k - 1 THEN Sector ELSE d.fill[t]]
<1>1. \A t \in Parts : d.fill[t] \in 0 .. Sector /\ t \in Int
  BY FatFileSizes DEF Disks, Parts
<1>2. fl \in [Parts -> 0 .. Sector]
  BY <1>1 DEF Sector
<1>3. Filled(d, q, k) = [d EXCEPT !.fill = fl]
  <2>1. DOMAIN d.fill = Parts
    BY DEF Disks
  <2> QED BY <2>1 DEF Filled
<1>4. ASSUME NEW t \in Parts
      PROVE  /\ t >= q /\ t < q + k => fl[t] = 512
             /\ ~(t >= q /\ t < q + k) => fl[t] = d.fill[t]
             /\ d.fill[t] <= fl[t]
  <2>1. t \in Int /\ d.fill[t] \in 0 .. Sector
    BY <1>1
  <2>2. fl[t] = IF t \in q .. q + k - 1 THEN Sector ELSE d.fill[t]
    OBVIOUS
  <2> HIDE DEF fl
  <2> QED BY SMTT(20), <2>1, <2>2 DEF Sector
<1> HIDE DEF fl
<1> QED BY <1>2, <1>3, <1>4 DEF Disks

(* Whole sectors written past the buffer's. *)
LEMMA PutSectorsIs ==
  ASSUME NEW f, Buffered(f), ~f.dirty, f.ok, NEW k \in Nat,
         f.ptr % Sector = 0, f.sect < f.ptr \div Sector
  PROVE  LET g == PutSectors(f, k)
         IN  /\ Buffered(g) /\ Grows(f, g) /\ g.disk.size = f.disk.size /\ g.full = f.full
             /\ f.ptr <= f.size => g.ptr <= g.size
             /\ f.ptr <= g.ptr /\ f.size <= g.size
             /\ g.ok => /\ g.ptr = f.ptr + k * 512 /\ g.err = f.err /\ ~g.dirty
                        /\ g.sect = f.sect
                        /\ OnCard(Saved(f), f.ptr) => OnCard(Saved(g), g.ptr)
<1> DEFINE g == PutSectors(f, k)
           q == f.ptr \div Sector
           to == f.ptr + k * Sector
           d == Filled(f.disk, q, k)
<1>1. /\ f \in Files /\ f.disk \in Disks /\ Saved(f) = f.disk /\ f.ptr \in Nat
      /\ f.size \in Nat /\ f.sect \in Int /\ DOMAIN f.disk.fill = Parts
  BY DEF Buffered, Files, Disks
<1>2. q \in Nat /\ f.ptr = 512 * q /\ to = f.ptr + k * 512 /\ to \in Nat /\ to >= f.ptr
  <2>1. f.ptr % 512 = 0
    BY DEF Sector
  <2> QED BY <1>1, <2>1, Division DEF Sector
<1> HIDE DEF q
<1>3. CASE k = 0
  <2>1. g = f
    BY <1>3 DEF PutSectors
  <2>2. Grows(f, f)
    BY <1>1, SameViewGrows DEF SameView
  <2> HIDE DEF g
  <2> QED BY <1>1, <1>3, <2>1, <2>2 DEF g
<1>4. CASE k # 0 /\ f.left = 0
  <2>1. /\ Abort(f) \in Files /\ SameView(f, Abort(f)) /\ SamePlace(f, Abort(f))
        /\ ~Abort(f).ok
    BY <1>1, AbortIs
  <2>2. Buffered(Abort(f)) /\ Grows(f, Abort(f))
    BY <2>1, SameViewGrows
  <2>3. g = Abort(f)
    BY <1>4 DEF PutSectors
  <2> HIDE DEF g
  <2> QED BY <1>1, <2>1, <2>2, <2>3 DEF g, SameView, SamePlace
<1>5. CASE k # 0 /\ f.left # 0
  <2> DEFINE a == Accessed(f)
  <2>1. /\ a \in Files /\ SameView(f, a) /\ SamePlace(f, a) /\ a.ok /\ a.err = f.err
    BY <1>1, AccessedIs
  <2>2. g = [a EXCEPT !.ptr = to, !.disk = d, !.size = Larger(a.size, to)]
    <3>1. a.disk = f.disk
      BY <2>1 DEF SameView
    <3>2. g = [a EXCEPT !.ptr = to, !.disk = Filled(a.disk, q, k), !.size = Larger(a.size, to)]
      BY <1>5 DEF PutSectors, q
    <3> HIDE DEF a, g
    <3> QED BY <3>1, <3>2
  <2> HIDE DEF a, g
  <2>5. /\ d \in Disks /\ d.hdr = f.disk.hdr /\ d.size = f.disk.size
        /\ \A t \in Parts : /\ t >= q /\ t < q + k => d.fill[t] = 512
                            /\ ~(t >= q /\ t < q + k) => d.fill[t] = f.disk.fill[t]
                            /\ f.disk.fill[t] <= d.fill[t]
    <3>1. f.disk \in Disks /\ q \in Nat
      BY <1>1, <1>2
    <3> QED BY ZenonT(30), <3>1, FilledIs
  <2>4. d.fill \in [Parts -> 0 .. Sector]
    BY <2>5 DEF Disks
  <2> HIDE DEF d
  <2>6. Larger(a.size, to) \in Nat /\ to <= Larger(a.size, to) /\ f.size <= Larger(a.size, to)
    BY <1>1, <1>2, <2>1 DEF Larger, SamePlace
  <2>7. /\ g \in Files /\ g.disk = d /\ g.ptr = to /\ to <= g.size /\ f.size <= g.size
        /\ ~g.dirty /\ g.sect = f.sect
        /\ g.fill = f.fill /\ g.hdr = f.hdr /\ g.ok /\ g.err = f.err /\ g.full = f.full
    <3> HIDE DEF to, d
    <3>0. to \in Nat
      BY <1>2
    <3>1. g \in Files
      <4>1. d \in Disks /\ a \in Files /\ Larger(a.size, to) \in Nat
        BY <2>1, <2>5, <2>6
      <4> QED BY <2>2, <3>0, <4>1 DEF Files
    <3>2. /\ g.disk = d /\ g.ptr = to /\ g.size = Larger(a.size, to) /\ g.dirty = a.dirty
          /\ g.sect = a.sect /\ g.fill = a.fill /\ g.hdr = a.hdr /\ g.ok = a.ok
          /\ g.err = a.err /\ g.full = a.full
      BY <2>1, <2>2 DEF Files
    <3>3. to <= g.size /\ f.size <= g.size
      BY <2>6, <3>2
    <3> QED BY Zenon, <2>1, <3>1, <3>2, <3>3 DEF SameView, SamePlace
  <2>9. g.sect < q /\ (g.sect \in Parts => d.fill[g.sect] = f.disk.fill[g.sect])
    <3>1. g.sect \in Int /\ g.sect < q
      BY <1>1, <2>7 DEF q
    <3> QED BY <1>2, <2>5, <3>1
  <2>10. Saved(g) = d
    <3>1. [d.fill EXCEPT ![g.sect] = g.fill] = d.fill
      <4>1. CASE g.sect \in Parts
        <5>1. f.fill = f.disk.fill[f.sect]
          <6>1. Saved(f).fill[f.sect] = f.fill
            BY <1>1, <2>7, <4>1, SavedIs
          <6> QED BY <1>1, <6>1
        <5> QED BY <2>4, <2>5, <2>7, <2>9, <5>1
      <4>2. CASE g.sect \notin Parts
        BY <2>4, <2>5, <4>2
      <4> QED BY <4>1, <4>2
    <3>2. g.sect = 0 => g.hdr = d.hdr
      <4>1. Saved(f).hdr = IF f.sect = 0 THEN f.hdr ELSE f.disk.hdr
        BY <1>1, SavedIs
      <4> QED BY <1>1, <2>5, <2>7, <4>1
    <3>3. Saved(g) = [d EXCEPT !.fill = d.fill, !.hdr = d.hdr]
      BY <2>7, <3>1, <3>2 DEF Saved
    <3> QED BY ZenonT(30), <2>5, <3>3 DEF Disks
  <2>11. Buffered(g)
    <3>1. g.sect \in Parts => d.fill[g.sect] <= g.fill
      BY <1>1, <2>7, <2>9 DEF Buffered
    <3> QED BY <2>7, <2>10, <3>1 DEF Buffered
  <2>12. Grows(f, g)
    BY <1>1, <2>5, <2>7, <2>10 DEF Grows, More
  <2>13. ASSUME OnCard(Saved(f), f.ptr) PROVE OnCard(Saved(g), to)
    <3>1. \A s \in Parts : Enough(f.disk, s, f.ptr)
      BY <1>1, <2>13, OnCardIs
    <3> SUFFICES ASSUME NEW s \in Parts PROVE Enough(d, s, to)
      BY <1>2, <2>5, <2>10, OnCardIs
    <3>2. s \in Nat /\ d.fill[s] \in Int /\ f.disk.fill[s] \in Int
      BY <1>1, <2>5, FillIs, FatFileSizes DEF Parts
    <3>3. CASE s < q
      <4>1. f.disk.fill[s] >= 512
        <5>1. f.ptr >= s * 512 + 512
          BY <1>2, <3>2, <3>3
        <5> QED BY <3>1, <5>1 DEF Enough
      <4>2. d.fill[s] >= 512
        BY <2>5, <3>2, <4>1
      <4>3. s * 512 < to /\ to < s * 512 + 512 => FALSE
        BY <1>2, <3>2, <3>3
      <4> QED BY <4>2, <4>3 DEF Enough
    <3>4. CASE q <= s /\ s < q + k
      <4>1. d.fill[s] = 512
        BY <2>5, <3>4
      <4> HIDE DEF to
      <4> QED BY <1>2, <3>2, <4>1 DEF Enough
    <3>5. CASE s >= q + k
      <4>1. to = 512 * (q + k)
        BY <1>2
      <4>2. to <= s * 512
        <5> HIDE DEF to
        <5> QED BY <1>2, <3>2, <3>5, <4>1
      <4> HIDE DEF to
      <4> QED BY <1>2, <3>2, <4>2 DEF Enough
    <3> QED BY <1>2, <3>2, <3>3, <3>4, <3>5
  <2> HIDE DEF to
  <2> QED BY <1>2, <2>5, <2>7, <2>11, <2>12, <2>13 DEF g
<1> QED BY <1>3, <1>4, <1>5

-----------------------------------------------------------------------------
(* The calls *)

(* The buffer holds the sector the pointer stands inside, or lies behind   *)
(* it: whole sectors written from here never meet the buffer.              *)
InPlace(f) ==
  IF f.ptr % Sector = 0 THEN f.sect < f.ptr \div Sector ELSE f.sect = f.ptr \div Sector

(* Ready for more, with all before the pointer safe once the buffer is.    *)
Standing(f) ==
  Buffered(f) /\ ~f.err /\ f.ptr <= f.size /\ InPlace(f) /\ OnCard(Saved(f), f.ptr)

(* What writing n bytes makes of a file. *)
Took(f, g, n) ==
  /\ Buffered(g) /\ Grows(f, g) /\ g.disk.size = f.disk.size /\ g.ptr <= g.size
  /\ f.ptr <= g.ptr /\ f.size <= g.size
  /\ g.ok => Standing(g) /\ g.ptr = f.ptr + n


(* What was there before the write, up to a call that failed. *)
Kept(f, g) ==
  /\ Buffered(g) /\ Grows(f, g) /\ g.disk.size = f.disk.size
  /\ f.ptr <= g.ptr /\ f.size <= g.size

LEMMA SamePlaceKept ==
  ASSUME NEW f, Buffered(f), NEW g, Buffered(g), Grows(f, g), g.disk.size = f.disk.size,
         SamePlace(f, g)
  PROVE  Kept(f, g)
BY DEF Kept, SamePlace, Buffered, Files

LEMMA KeptTook ==
  ASSUME NEW f, Buffered(f), NEW g, Kept(f, g), NEW h, NEW n, Took(g, h, n),
         NEW k, h.ok => h.ptr = f.ptr + k
  PROVE  Took(f, h, k)
<1>1. Grows(f, h)
  BY GrowsTrans DEF Took, Kept
<1>2. /\ f.ptr \in Int /\ g.ptr \in Int /\ h.ptr \in Int
      /\ f.size \in Int /\ g.size \in Int /\ h.size \in Int
  BY DEF Took, Kept, Buffered, Files
<1> QED BY <1>1, <1>2 DEF Took, Kept

LEMMA FailedTook ==
  ASSUME NEW f, Buffered(f), f.ptr <= f.size, NEW g, Kept(f, g), g.ptr <= g.size, ~g.ok, NEW n
  PROVE  Took(f, g, n)
BY DEF Took, Kept

LEMMA OkIs ==
  ASSUME NEW f, Buffered(f), NEW b \in BOOLEAN
  PROVE  LET g == [f EXCEPT !.ok = b]
         IN  /\ Buffered(g) /\ Grows(f, g) /\ SameView(f, g) /\ SamePlace(f, g)
             /\ Saved(g) = Saved(f) /\ g.ok = b /\ g.err = f.err /\ g.left = f.left
             /\ Standing(f) => Standing(g)
<1> DEFINE g == [f EXCEPT !.ok = b]
<1>1. f \in Files
  BY DEF Buffered
<1>2. /\ g \in Files /\ SameView(f, g) /\ SamePlace(f, g) /\ g.ok = b /\ g.err = f.err
      /\ g.left = f.left
  BY <1>1 DEF Files, SameView, SamePlace
<1> HIDE DEF g
<1>3. Buffered(g) /\ Grows(f, g) /\ Saved(g) = Saved(f)
  BY <1>2, SameViewGrows
<1>4. Standing(f) => Standing(g)
  BY <1>2, <1>3 DEF Standing, InPlace, SameView, SamePlace
<1> QED BY <1>2, <1>3, <1>4 DEF g

LEMMA FalseIs ==
  ASSUME NEW f, Buffered(f)
  PROVE  LET g == [f EXCEPT !.ok = FALSE]
         IN  /\ Buffered(g) /\ Grows(f, g) /\ SameView(f, g) /\ SamePlace(f, g)
             /\ Saved(g) = Saved(f) /\ ~g.ok /\ g.err = f.err
<1> DEFINE b == FALSE
           g == [f EXCEPT !.ok = b]
<1>1. b \in BOOLEAN
  OBVIOUS
<1> HIDE DEF b
<1>2. /\ Buffered(g) /\ Grows(f, g) /\ SameView(f, g) /\ SamePlace(f, g)
      /\ Saved(g) = Saved(f) /\ g.ok = b /\ g.err = f.err
  BY <1>1, OkIs
<1> HIDE DEF g
<1> QED BY Zenon, <1>2 DEF g, b

LEMMA TrueIs ==
  ASSUME NEW f, Buffered(f)
  PROVE  LET g == [f EXCEPT !.ok = TRUE]
         IN  /\ Buffered(g) /\ Grows(f, g) /\ SameView(f, g) /\ SamePlace(f, g)
             /\ Saved(g) = Saved(f) /\ g.ok /\ g.err = f.err
             /\ Standing(f) => Standing(g)
<1> DEFINE b == TRUE
           g == [f EXCEPT !.ok = b]
<1>1. b \in BOOLEAN
  OBVIOUS
<1> HIDE DEF b
<1>2. /\ Buffered(g) /\ Grows(f, g) /\ SameView(f, g) /\ SamePlace(f, g)
      /\ Saved(g) = Saved(f) /\ g.ok = b /\ g.err = f.err
      /\ Standing(f) => Standing(g)
  BY <1>1, OkIs
<1> HIDE DEF g
<1> QED BY Zenon, <1>2 DEF g, b

LEMMA PutInPlace ==
  ASSUME NEW p \in Nat, NEW n \in Nat \ {0}, (p % 512) + n <= 512
  PROVE  IF (p + n) % 512 = 0 THEN p \div 512 < (p + n) \div 512
                              ELSE p \div 512 = (p + n) \div 512
OBVIOUS

LEMMA PutStands ==
  ASSUME NEW f, Buffered(f), NEW n \in Nat \ {0}, ~f.err,
         f.sect = f.ptr \div Sector, (f.ptr % Sector) + n <= Sector,
         OnCard(Saved(f), f.ptr)
  PROVE  Took(f, Put(f, n), n) /\ Standing(Put(f, n)) /\ Put(f, n).sect = f.sect
<1> DEFINE g == Put(f, n)
<1>1. /\ Buffered(g) /\ Grows(f, g) /\ g.disk = f.disk
      /\ g.ptr = f.ptr + n /\ g.size = Larger(f.size, f.ptr + n)
      /\ g.sect = f.sect /\ g.err = f.err /\ OnCard(Saved(g), f.ptr + n)
  BY PutIs
<1> HIDE DEF g
<1>2. g.ptr <= g.size /\ f.ptr <= g.ptr /\ f.size <= g.size
  <2>1. f.size \in Nat /\ f.ptr + n \in Int /\ f.ptr <= f.ptr + n
    BY DEF Buffered, Files
  <2> QED BY <1>1, <2>1 DEF Larger
<1>3. InPlace(g)
  <2>1. f.ptr \in Nat /\ (f.ptr % 512) + n <= 512 /\ f.sect = f.ptr \div 512
    BY DEF Buffered, Files, Sector
  <2>2. IF (f.ptr + n) % 512 = 0 THEN f.ptr \div 512 < (f.ptr + n) \div 512
                                 ELSE f.ptr \div 512 = (f.ptr + n) \div 512
    BY <2>1, PutInPlace
  <2> QED BY <1>1, <2>1, <2>2 DEF InPlace, Sector
<1> QED BY <1>1, <1>2, <1>3 DEF Standing, Took, g

(* The last piece of a write, from a sector's start. *)
LEMMA PutRestIs ==
  ASSUME NEW f, Standing(f), ~f.dirty, f.ok, f.ptr % Sector = 0, NEW n \in 0 .. 511
  PROVE  Took(f, PutRest(f, n), n)
<1> DEFINE s == f.ptr \div Sector
           r == f.ptr < f.size
           g == Load(f, s, r)
<1>1. /\ Buffered(f) /\ f \in Files /\ f.ptr \in Nat /\ ~f.err /\ f.ptr <= f.size /\ f.sect < s
      /\ OnCard(Saved(f), f.ptr)
  BY DEF Standing, Buffered, Files, InPlace
<1>2. s \in Nat /\ f.ptr = 512 * s
  <2>1. f.ptr % 512 = 0
    BY DEF Sector
  <2> QED BY <1>1, <2>1, Division DEF Sector
<1>0. r \in BOOLEAN
  OBVIOUS
<1> HIDE DEF s, r
<1>3. CASE n = 0
  <2>1. PutRest(f, n) = f /\ f.ptr + n = f.ptr
    BY <1>1, <1>3 DEF PutRest
  <2>2. Grows(f, f) /\ f.ptr <= f.ptr /\ f.size <= f.size
    BY <1>1, SameViewGrows DEF SameView, Files
  <2> QED BY <1>1, <2>1, <2>2 DEF Took
<1>4. CASE n # 0 /\ NoCluster(f)
  <2>1. PutRest(f, n) = [f EXCEPT !.ok = FALSE]
    BY <1>4 DEF PutRest
  <2> DEFINE w == [f EXCEPT !.ok = FALSE]
  <2>2. Buffered(w) /\ Grows(f, w) /\ SameView(f, w) /\ SamePlace(f, w) /\ ~w.ok
    BY <1>1, FalseIs
  <2> HIDE DEF w
  <2>3. PutRest(f, n) = w
    BY <2>1 DEF w
  <2>4. Kept(f, w) /\ w.ptr <= w.size
    BY <1>1, <2>2, SamePlaceKept DEF SameView, SamePlace
  <2> QED BY <1>1, <2>2, <2>3, <2>4, FailedTook
<1>5. CASE n # 0 /\ ~NoCluster(f)
  <2>1. PutRest(f, n) = IF g.ok THEN Put(g, n) ELSE g
    <3>1. f.sect # s
      BY <1>1, <1>2 DEF Files
    <3> QED BY <1>5, <3>1 DEF PutRest, s, r
  <2>2. /\ Buffered(g) /\ Grows(f, g) /\ SamePlace(f, g)
        /\ g.disk = f.disk /\ Saved(g) = Saved(f)
        /\ g.ok => g.err = f.err /\ g.sect = s
    BY <1>0, <1>1, <1>2, LoadIs
  <2> HIDE DEF g
  <2>5. Kept(f, g) /\ g.ptr <= g.size
    BY <1>1, <2>2, SamePlaceKept DEF SamePlace
  <2>3. CASE ~g.ok
    BY <1>1, <2>1, <2>3, <2>5, FailedTook
  <2>4. CASE g.ok
    <3>1. g.ptr = f.ptr /\ g.sect = g.ptr \div Sector /\ OnCard(Saved(g), g.ptr) /\ ~g.err
      BY <1>1, <2>2, <2>4 DEF SamePlace, s
    <3>2. (g.ptr % Sector) + n <= Sector /\ n \in Nat \ {0}
      BY <1>5, <3>1 DEF Sector
    <3>3. Took(g, Put(g, n), n)
      BY <2>2, <3>1, <3>2, PutStands
    <3> DEFINE w == Put(g, n)
    <3> HIDE DEF w
    <3>4. Took(g, w, n) /\ (w.ok => w.ptr = f.ptr + n)
      BY <3>1, <3>3 DEF Took, w
    <3>5. Took(f, w, n)
      BY <1>1, <2>5, <3>4, KeptTook
    <3> QED BY <2>1, <2>4, <3>5 DEF w
  <2> QED BY <2>3, <2>4
<1> QED BY <1>3, <1>4, <1>5

LEMMA PutFromBoundaryIs ==
  ASSUME NEW f, Standing(f), f.ok, f.ptr % Sector = 0, NEW n \in Nat
  PROVE  Took(f, PutFromBoundary(f, n), n)
<1> DEFINE g == FlushOrAbort(f)
           h == PutSectors(g, n \div Sector)
           w == PutRest(h, n % Sector)
<1>1. /\ Buffered(f) /\ f \in Files /\ f.ptr \in Nat /\ ~f.err /\ f.ptr <= f.size
      /\ f.sect < f.ptr \div Sector /\ OnCard(Saved(f), f.ptr)
  BY DEF Standing, Buffered, Files, InPlace
<1>2. n \div 512 \in Nat /\ n % 512 \in 0 .. 511 /\ n = (n \div 512) * 512 + (n % 512)
  BY Division
<1>3. CASE NoCluster(f)
  <2>1. PutFromBoundary(f, n) = [f EXCEPT !.ok = FALSE]
    BY <1>3 DEF PutFromBoundary
  <2> DEFINE v == [f EXCEPT !.ok = FALSE]
  <2>2. Buffered(v) /\ Grows(f, v) /\ SameView(f, v) /\ SamePlace(f, v) /\ ~v.ok
    BY <1>1, FalseIs
  <2> HIDE DEF v
  <2>3. PutFromBoundary(f, n) = v
    BY <2>1 DEF v
  <2>4. Kept(f, v) /\ v.ptr <= v.size
    BY <1>1, <2>2, SamePlaceKept DEF SameView, SamePlace
  <2> QED BY <1>1, <2>2, <2>3, <2>4, FailedTook
<1>4. CASE ~NoCluster(f)
  <2>1. PutFromBoundary(f, n) = IF g.ok THEN w ELSE g
    BY <1>4 DEF PutFromBoundary
  <2>2. /\ Buffered(g) /\ Grows(f, g) /\ SamePlace(f, g) /\ Saved(g) = Saved(f)
        /\ g.disk.size = f.disk.size /\ g.sect = f.sect
        /\ g.ok => ~g.dirty /\ g.err = f.err
    BY <1>1, FlushOrAbortIs
  <2> HIDE DEF g
  <2>5. Kept(f, g) /\ g.ptr <= g.size
    BY <1>1, <2>2, SamePlaceKept DEF SamePlace
  <2>3. CASE ~g.ok
    BY <1>1, <2>1, <2>3, <2>5, FailedTook
  <2>4. CASE g.ok
    <3>1. g.ptr % Sector = 0 /\ g.sect < g.ptr \div Sector /\ g.ptr <= g.size
          /\ OnCard(Saved(g), g.ptr)
      BY <1>1, <2>2 DEF SamePlace
    <3>2. /\ Buffered(h) /\ Grows(g, h) /\ h.disk.size = g.disk.size /\ h.ptr <= h.size
          /\ g.ptr <= h.ptr /\ g.size <= h.size
          /\ h.ok => /\ h.ptr = g.ptr + (n \div 512) * 512 /\ h.err = g.err /\ ~h.dirty
                     /\ h.sect = g.sect /\ OnCard(Saved(h), h.ptr)
      BY <1>2, <2>2, <2>4, <3>1, PutSectorsIs DEF Sector
    <3> HIDE DEF h
    <3>3. Kept(f, h)
      <4>1. Grows(f, h)
        BY <1>1, <2>2, <3>2, GrowsTrans
      <4> QED BY <2>2, <3>2, <4>1 DEF Kept, SamePlace
    <3>4. CASE ~h.ok
      <4>1. w = h
        BY <3>4 DEF PutRest
      <4> QED BY <1>1, <2>1, <2>4, <3>2, <3>3, <3>4, <4>1, FailedTook
    <3>5. CASE h.ok
      <4>1. h.ptr % Sector = 0 /\ h.sect < h.ptr \div Sector
        <5> DEFINE p == g.ptr
                   k == n \div 512
        <5>1. p \in Nat /\ k \in Nat /\ p % 512 = 0 /\ g.sect < p \div 512 /\ g.sect \in Int
          BY <1>2, <2>2, <3>1 DEF Buffered, Files, Sector
        <5>2. h.ptr = p + k * 512
          BY <3>2, <3>5
        <5> HIDE DEF p, k
        <5>3. (p + k * 512) % 512 = 0 /\ p \div 512 <= (p + k * 512) \div 512
          BY <5>1
        <5>4. p \div 512 \in Int /\ (p + k * 512) \div 512 \in Int
          BY <5>1
        <5> QED BY <3>2, <3>5, <5>1, <5>2, <5>3, <5>4 DEF Sector
      <4>2. Standing(h)
        BY <1>1, <2>2, <2>4, <3>2, <3>5, <4>1 DEF Standing, InPlace
      <4>3. Took(h, w, n % 512)
        BY <1>2, <3>2, <3>5, <4>1, <4>2, PutRestIs DEF Sector
      <4> HIDE DEF w
      <4>5. w.ok => w.ptr = f.ptr + n
        <5> DEFINE k == n \div 512
                   r == n % 512
        <5>1. f.ptr \in Int /\ k \in Int /\ r \in Int /\ n = k * 512 + r
          BY <1>1, <1>2
        <5>2. h.ptr = f.ptr + k * 512 /\ (w.ok => w.ptr = h.ptr + r)
          BY <2>2, <3>2, <3>5, <4>3 DEF Took, SamePlace
        <5> HIDE DEF k, r
        <5> QED BY <5>1, <5>2
      <4>6. Took(f, w, n)
        <5> DEFINE r == n % 512
        <5>1. Took(h, w, r)
          BY <4>3
        <5> HIDE DEF r
        <5> QED BY <1>1, <3>3, <4>5, <5>1, KeptTook
      <4> QED BY <2>1, <2>4, <4>6
    <3> QED BY <3>4, <3>5
  <2> QED BY <2>3, <2>4
<1> QED BY <1>3, <1>4

(* The part of n bytes at p that the sector there still takes. *)
FirstPiece(p, n) ==
  LET room == (Sector - (p % Sector)) % Sector
  IN  IF n < room THEN n ELSE room

LEMMA FirstPieceIs ==
  ASSUME NEW p \in Nat, NEW n \in Nat \ {0}
  PROVE  /\ FirstPiece(p, n) \in Nat /\ (p % 512) + FirstPiece(p, n) <= 512
         /\ n - FirstPiece(p, n) \in Nat
         /\ FirstPiece(p, n) = 0 => p % 512 = 0
         /\ FirstPiece(p, n) # 0 => p % 512 # 0
         /\ n # FirstPiece(p, n) => (p + FirstPiece(p, n)) % 512 = 0
BY DEF FirstPiece, Sector

LEMMA f_writeIs ==
  ASSUME NEW f, Standing(f), NEW n \in Nat \ {0}
  PROVE  Took(f, f_write(f, n), n)
<1> DEFINE first == FirstPiece(f.ptr, n)
           g == [f EXCEPT !.ok = TRUE]
           h == IF first = 0 THEN g ELSE Put(g, first)
<1>1. /\ Buffered(f) /\ f.ptr \in Nat /\ ~f.err
  BY DEF Standing, Buffered, Files
<1>2. /\ Standing(g) /\ Buffered(g) /\ Grows(f, g) /\ g.ptr = f.ptr /\ g.disk = f.disk
      /\ g.sect = f.sect /\ g.ok /\ ~g.err /\ SamePlace(f, g)
  BY <1>1, TrueIs DEF SamePlace, SameView
<1>3. /\ first \in Nat /\ (f.ptr % 512) + first <= 512 /\ n - first \in Nat
      /\ first = 0 => f.ptr % 512 = 0
      /\ first # 0 => f.ptr % 512 # 0
      /\ n # first => (f.ptr + first) % 512 = 0
  <2> DEFINE p == f.ptr
  <2>1. p \in Nat
    BY <1>1
  <2> HIDE DEF p
  <2>2. /\ FirstPiece(p, n) \in Nat /\ (p % 512) + FirstPiece(p, n) <= 512
        /\ n - FirstPiece(p, n) \in Nat
        /\ FirstPiece(p, n) = 0 => p % 512 = 0
        /\ FirstPiece(p, n) # 0 => p % 512 # 0
        /\ n # FirstPiece(p, n) => (p + FirstPiece(p, n)) % 512 = 0
    BY <2>1, FirstPieceIs
  <2> QED BY <2>2 DEF p
<1>4. f_write(f, n) = IF n = first THEN h ELSE PutFromBoundary(h, n - first)
  BY <1>1 DEF f_write, FirstPiece
<1> HIDE DEF g, first
<1>8. Kept(f, g)
  BY <1>1, <1>2, SamePlaceKept
<1>5. Standing(h) /\ Took(f, h, first) /\ h.ok /\ h.ptr = f.ptr + first
  <2>1. CASE first = 0
    <3>1. f.ptr + first = f.ptr
      BY <1>1, <2>1
    <3> QED BY <1>1, <1>2, <1>8, <2>1, <3>1 DEF Took, Standing, Kept
  <2>2. CASE first # 0
    <3>1. g.sect = g.ptr \div Sector
      BY <1>2, <1>3, <2>2 DEF Standing, InPlace, Sector
    <3>2. first \in Nat \ {0} /\ (g.ptr % Sector) + first <= Sector /\ OnCard(Saved(g), g.ptr)
      BY <1>2, <1>3, <2>2 DEF Standing, Sector
    <3>3. Took(g, Put(g, first), first) /\ Standing(Put(g, first))
      BY <1>2, <3>1, <3>2, PutStands
    <3>4. Put(g, first).ok
      BY <1>2, <3>1, <3>2, PutIs
    <3> DEFINE w == Put(g, first)
    <3> HIDE DEF w
    <3>5. Took(g, w, first) /\ w.ptr = f.ptr + first /\ w.ok
      BY <1>2, <3>3, <3>4 DEF Took, w
    <3>6. Took(f, w, first)
      BY <1>1, <1>8, <3>5, KeptTook
    <3> QED BY <2>2, <3>3, <3>5, <3>6 DEF w
  <2> QED BY <2>1, <2>2
<1>6. CASE n = first
  BY <1>4, <1>5, <1>6
<1>7. CASE n # first
  <2>1. h.ptr % Sector = 0
    BY <1>3, <1>5, <1>7 DEF Sector
  <2> DEFINE w == PutFromBoundary(h, n - first)
  <2> HIDE DEF h
  <2>2. Took(h, w, n - first)
    BY <1>3, <1>5, <2>1, PutFromBoundaryIs
  <2>3. f.ptr + n = (f.ptr + first) + (n - first)
    BY <1>1, <1>3
  <2> HIDE DEF w
  <2>4. Kept(f, h)
    BY <1>5 DEF Took, Kept
  <2>5. Took(f, w, n)
    <3> DEFINE m == n - first
    <3>1. Took(h, w, m) /\ (w.ok => w.ptr = f.ptr + n)
      BY <1>5, <2>2, <2>3 DEF Took
    <3> HIDE DEF m
    <3> QED BY <1>1, <2>4, <3>1, KeptTook
  <2> QED BY <1>4, <1>7, <2>5 DEF w, h
<1> QED BY <1>6, <1>7

LEMMA f_lseekIs ==
  ASSUME NEW f, Buffered(f), NEW ofs \in Nat
  PROVE  LET g == f_lseek(f, ofs)
         IN  /\ Buffered(g) /\ Grows(f, g) /\ Saved(g) = Saved(f)
             /\ g.disk.size = f.disk.size /\ g.size = f.size /\ g.ptr \in {f.ptr, ofs}
             /\ g.ok => /\ g.ptr = ofs /\ ~f.err /\ ~g.err
                        /\ ofs % Sector # 0 => g.sect = ofs \div Sector
                        /\ ofs % Sector = 0 => g.sect = f.sect
             /\ ~g.ok => g.err
             /\ f.sect = ofs \div Sector => g.disk = f.disk /\ (~f.err => g.ok)
<1> DEFINE k == [f EXCEPT !.ptr = ofs, !.ok = TRUE]
           s == ofs \div Sector
           h == FlushOrAbort(k)
           w == Load(h, s, TRUE)
<1>1. f \in Files
  BY DEF Buffered
<1>2. /\ k \in Files /\ SameView(f, k) /\ k.ptr = ofs /\ k.size = f.size /\ k.ok /\ k.err = f.err
  BY <1>1 DEF Files, SameView
<1>3. s \in Nat
  BY Division DEF Sector
<1> HIDE DEF k, s
<1>4. Buffered(k) /\ Grows(f, k) /\ Saved(k) = Saved(f)
  BY <1>2, SameViewGrows
<1>5. CASE f.err
  <2> DEFINE e == [f EXCEPT !.ok = FALSE]
  <2>1. Buffered(e) /\ Grows(f, e) /\ SameView(f, e) /\ SamePlace(f, e) /\ Saved(e) = Saved(f)
        /\ ~e.ok /\ e.err = f.err
    BY FalseIs
  <2>2. f_lseek(f, ofs) = e
    BY <1>5 DEF f_lseek
  <2> HIDE DEF e
  <2> QED BY <1>5, <2>1, <2>2 DEF SameView, SamePlace
<1>6. CASE ~f.err /\ (ofs % Sector = 0 \/ s = f.sect)
  <2>1. f_lseek(f, ofs) = k
    BY <1>6 DEF f_lseek, k, s
  <2> QED BY <1>2, <1>4, <1>6, <2>1 DEF SameView, s
<1>7. CASE ~f.err /\ ofs % Sector # 0 /\ s # f.sect
  <2>1. f_lseek(f, ofs) = IF h.ok THEN w ELSE h
    BY <1>7 DEF f_lseek, k, s
  <2>2. /\ Buffered(h) /\ Grows(k, h) /\ SamePlace(k, h) /\ Saved(h) = Saved(k)
        /\ h.disk.size = k.disk.size
        /\ h.ok => ~h.dirty /\ h.disk = Saved(k) /\ h.err = k.err
        /\ ~h.ok => h.err
    BY <1>2, <1>4, FlushOrAbortIs
  <2> HIDE DEF h
  <2>3. Grows(f, h)
    BY <1>4, <2>2, GrowsTrans
  <2>4. CASE ~h.ok
    BY <1>2, <1>4, <1>7, <2>1, <2>2, <2>3, <2>4 DEF SamePlace, SameView, s
  <2>5. CASE h.ok
    <3> DEFINE t == TRUE
               v == Load(h, s, t)
    <3>1. t \in BOOLEAN /\ w = v
      OBVIOUS
    <3> HIDE DEF t
    <3>2. /\ Buffered(v) /\ Grows(h, v) /\ SamePlace(h, v)
          /\ v.disk = h.disk /\ Saved(v) = Saved(h)
          /\ v.ok => v.err = h.err /\ v.sect = s
          /\ ~v.ok => v.err
      BY <1>3, <2>2, <2>5, <3>1, LoadIs
    <3> HIDE DEF v
    <3>3. Grows(f, v)
      BY <2>2, <2>3, <3>2, GrowsTrans
    <3>4. f_lseek(f, ofs) = v
      BY <2>1, <2>5, <3>1
    <3> QED BY <1>2, <1>4, <1>7, <2>2, <2>5, <3>2, <3>3, <3>4 DEF SamePlace, SameView, s
  <2> QED BY <2>4, <2>5
<1> QED BY <1>5, <1>6, <1>7

LEMMA f_syncIs ==
  ASSUME NEW f, Buffered(f)
  PROVE  LET g == f_sync(f)
         IN  /\ Buffered(g) /\ Grows(f, g)
             /\ g.ptr = f.ptr /\ g.size = f.size /\ g.err = f.err
             /\ g.disk.size \in {f.disk.size, f.size}
             /\ Saved(g).fill = Saved(f).fill /\ Saved(g).hdr = Saved(f).hdr
             /\ g.sect = f.sect
             /\ g.ok => /\ g.disk.size = f.size /\ g.disk.hdr = Saved(f).hdr
                        /\ g.disk.fill = Saved(f).fill
<1> DEFINE k == [f EXCEPT !.ok = TRUE]
           h == Flush(k)
<1>1. /\ Buffered(k) /\ Grows(f, k) /\ SameView(f, k) /\ SamePlace(f, k)
      /\ Saved(k) = Saved(f) /\ k.ok /\ k.err = f.err
  BY TrueIs
<1> HIDE DEF k
<1>2. /\ Buffered(h) /\ Grows(k, h) /\ SamePlace(k, h) /\ Saved(h) = Saved(k)
      /\ h.disk.size = k.disk.size /\ h.err = k.err /\ h.sect = k.sect
      /\ h.ok => ~h.dirty /\ h.disk = Saved(k)
  BY <1>1, FlushIs
<1>3. f_sync(f) = IF ~h.ok THEN h ELSE IF h.left = 0 THEN Fail(h)
                  ELSE [Accessed(h) EXCEPT !.disk.size = f.size]
  BY DEF f_sync, k
<1> HIDE DEF h
<1>4. Grows(f, h)
  BY <1>1, <1>2, GrowsTrans
<1>5. CASE ~h.ok
  BY <1>1, <1>2, <1>3, <1>4, <1>5 DEF SamePlace, SameView
<1>6. CASE h.ok /\ h.left = 0
  <2> DEFINE w == Fail(h)
  <2>1. w \in Files /\ SameView(h, w) /\ SamePlace(h, w) /\ ~w.ok /\ w.err = h.err
    BY <1>2, FailIs DEF Buffered
  <2> HIDE DEF w
  <2>2. Buffered(w) /\ Grows(h, w) /\ Saved(w) = Saved(h)
    BY <1>2, <2>1, SameViewGrows
  <2>3. Grows(f, w)
    BY <1>2, <1>4, <2>2, GrowsTrans
  <2>4. f_sync(f) = w
    BY <1>3, <1>6 DEF w
  <2> QED BY <1>1, <1>2, <2>1, <2>2, <2>3, <2>4 DEF SamePlace, SameView
<1>7. CASE h.ok /\ h.left # 0
  <2> DEFINE a == Accessed(h)
             w == [a EXCEPT !.disk.size = f.size]
             e == [h.disk EXCEPT !.size = f.size]
  <2>1. a \in Files /\ SameView(h, a) /\ SamePlace(h, a) /\ a.ok = h.ok /\ a.err = h.err
    BY <1>2, AccessedIs DEF Buffered
  <2>2. f_sync(f) = w
    BY <1>3, <1>7
  <2> HIDE DEF a
  <2>3. h.disk \in Disks /\ f.size \in Nat
    BY <1>2 DEF Buffered, Files
  <2>4. e \in Disks /\ e.fill = h.disk.fill /\ e.hdr = h.disk.hdr /\ e.size = f.size
    BY <2>3 DEF Disks
  <2>5. w = [a EXCEPT !.disk = e]
    BY <2>1 DEF SameView
  <2> HIDE DEF w, e
  <2>6. w \in Files
    BY <2>1, <2>4, <2>5 DEF Files
  <2>7. /\ w.disk = e /\ w.sect = h.sect /\ w.fill = h.fill /\ w.hdr = h.hdr
        /\ w.dirty = h.dirty /\ w.ptr = h.ptr /\ w.size = h.size /\ w.err = h.err
    BY <2>1, <2>5 DEF Files, SameView, SamePlace
  <2>8. Saved(w) = [Saved(h) EXCEPT !.size = f.size]
    BY <2>3, <2>4, <2>7 DEF Saved, Disks, e
  <2>9. Saved(h) \in Disks /\ Saved(h) = h.disk
    BY <1>1, <1>2, <1>7, SavedIs DEF Buffered
  <2>10. Saved(w) = e
    BY <2>8, <2>9 DEF e
  <2>11. Buffered(w)
    BY <1>2, <2>4, <2>6, <2>7, <2>10 DEF Buffered
  <2>12. More(h.disk, e)
    BY <2>3, <2>4, FillIs DEF More
  <2>13. Grows(h, w)
    BY <2>7, <2>9, <2>10, <2>12 DEF Grows
  <2>14. Grows(f, w)
    BY <1>2, <1>4, <2>11, <2>13, GrowsTrans
  <2> QED BY <1>1, <1>2, <1>7, <2>2, <2>4, <2>7, <2>9, <2>10, <2>11, <2>14 DEF SamePlace, SameView
<1> QED BY <1>5, <1>6, <1>7

LEMMA f_truncateIs ==
  ASSUME NEW f, Buffered(f)
  PROVE  LET g == f_truncate(f)
         IN  /\ Buffered(g) /\ Grows(f, g) /\ Saved(g) = Saved(f)
             /\ g.disk.size = f.disk.size /\ g.ptr = f.ptr
             /\ f.ptr <= f.size => g.ptr <= g.size
             /\ g.size = f.size \/ (~f.err /\ g.size = f.ptr)
<1> DEFINE k == [f EXCEPT !.size = f.ptr, !.ok = TRUE]
           e == [f EXCEPT !.ok = FALSE]
           a == Accessed(k)
<1>1. f \in Files /\ f.ptr \in Nat
  BY DEF Buffered, Files
<1>2. k \in Files /\ SameView(f, k) /\ k.ptr = f.ptr /\ k.size = f.ptr /\ k.ok
  BY <1>1 DEF Files, SameView
<1>3. Buffered(e) /\ Grows(f, e) /\ SameView(f, e) /\ SamePlace(f, e) /\ Saved(e) = Saved(f)
  BY FalseIs
<1>4. Grows(f, f)
  BY <1>1, SameViewGrows DEF SameView
<1> HIDE DEF k
<1>5. Buffered(k) /\ Grows(f, k) /\ Saved(k) = Saved(f)
  BY <1>2, SameViewGrows
<1>6. f_truncate(f) = IF f.err THEN e ELSE IF f.ptr >= f.size THEN f
                      ELSE IF f.left = 0 THEN Abort(k) ELSE FlushOrAbort(a)
  BY DEF f_truncate, k
<1> HIDE DEF e
<1>7. /\ Abort(k) \in Files /\ SameView(k, Abort(k)) /\ SamePlace(k, Abort(k))
  BY <1>2, AbortIs
<1>8. Buffered(Abort(k)) /\ Grows(k, Abort(k)) /\ Saved(Abort(k)) = Saved(k)
  BY <1>5, <1>7, SameViewGrows
<1>9. Grows(f, Abort(k))
  BY <1>5, <1>8, GrowsTrans
<1>10. a \in Files /\ SameView(k, a) /\ SamePlace(k, a) /\ a.ok
  BY <1>2, AccessedIs
<1> HIDE DEF a
<1>11. Buffered(a) /\ Grows(k, a) /\ Saved(a) = Saved(k)
  BY <1>5, <1>10, SameViewGrows
<1>12. Grows(f, a)
  BY <1>5, <1>11, GrowsTrans
<1>13. /\ Buffered(FlushOrAbort(a)) /\ Grows(a, FlushOrAbort(a))
       /\ SamePlace(a, FlushOrAbort(a)) /\ Saved(FlushOrAbort(a)) = Saved(a)
       /\ FlushOrAbort(a).disk.size = a.disk.size
  BY <1>10, <1>11, FlushOrAbortIs
<1>14. Grows(f, FlushOrAbort(a))
  BY <1>11, <1>12, <1>13, GrowsTrans
<1>15. CASE f.err
  BY <1>3, <1>6, <1>15 DEF SameView, SamePlace
<1>16. CASE ~f.err /\ f.ptr >= f.size
  BY <1>4, <1>6, <1>16
<1>17. CASE ~f.err /\ ~(f.ptr >= f.size) /\ f.left = 0
  BY <1>1, <1>2, <1>5, <1>6, <1>7, <1>8, <1>9, <1>17 DEF SameView, SamePlace
<1>18. CASE ~f.err /\ ~(f.ptr >= f.size) /\ f.left # 0
  BY <1>1, <1>2, <1>5, <1>6, <1>10, <1>11, <1>13, <1>14, <1>18 DEF SameView, SamePlace
<1> QED BY <1>15, <1>16, <1>17, <1>18

LEMMA TotalIs == ASSUME NEW n \in Nat PROVE avi_chunk_total(n) \in Nat /\ avi_chunk_total(n) >= 8 + n
<1>1. pad4(n) \in Nat
  BY DEF pad4
<1> QED BY <1>1 DEF avi_chunk_total

(* g sums up the first k chunks. *)
SumsUp(c, g, k) ==
  /\ g \in [0 .. Len(c) -> Nat]
  /\ g[0] = 0
  /\ \A i \in 1 .. k : g[i] = g[i - 1] + avi_chunk_total(c[i])

LEMMA SumExists ==
  ASSUME NEW c \in Seq(Nat)
  PROVE  \E g : SumsUp(c, g, Len(c))
<1> DEFINE T == {k \in 0 .. Len(c) : ~ \E g : SumsUp(c, g, k)}
<1>1. Len(c) \in Nat
  OBVIOUS
<1> SUFFICES ASSUME T # {} PROVE FALSE
  BY <1>1
<1>2. T \subseteq Nat
  BY <1>1
<1>3. PICK x \in T : \A y \in T : x <= y
  <2> HIDE DEF T
  <2> QED BY <1>2, LowestExists
<1>4. x \in 0 .. Len(c) /\ ~ \E g : SumsUp(c, g, x)
  BY <1>3
<1>5. CASE x = 0
  <2>1. SumsUp(c, [i \in 0 .. Len(c) |-> 0], 0)
    BY <1>1 DEF SumsUp
  <2> QED BY <1>4, <1>5, <2>1
<1>6. CASE x # 0
  <2>1. x - 1 \in 0 .. Len(c) /\ x - 1 \notin T /\ x \in 1 .. Len(c)
    <3>1. x - 1 \in 0 .. Len(c) /\ x \in 1 .. Len(c) /\ ~(x <= x - 1)
      BY <1>1, <1>4, <1>6
    <3> HIDE DEF T
    <3> QED BY <1>3, <3>1
  <2>2. PICK g : SumsUp(c, g, x - 1)
    BY <2>1
  <2> DEFINE v == g[x - 1] + avi_chunk_total(c[x])
             h == [g EXCEPT ![x] = v]
  <2>3. v \in Nat
    <3>1. c[x] \in Nat
      BY <2>1
    <3>2. g[x - 1] \in Nat
      BY <2>1, <2>2 DEF SumsUp
    <3>3. avi_chunk_total(c[x]) \in Nat
      BY <3>1, TotalIs
    <3> QED BY <3>2, <3>3
  <2>4. h \in [0 .. Len(c) -> Nat] /\ h[x] = v /\ \A i \in 0 .. Len(c) : i # x => h[i] = g[i]
    <3> HIDE DEF v
    <3> QED BY <1>4, <2>2, <2>3 DEF SumsUp
  <2> HIDE DEF h
  <2>5. h[0] = 0
    BY <1>1, <1>6, <2>2, <2>4 DEF SumsUp
  <2>6. ASSUME NEW i \in 1 .. x PROVE h[i] = h[i - 1] + avi_chunk_total(c[i])
    <3>1. i \in Int /\ x \in Int /\ i - 1 \in 0 .. Len(c) /\ i \in 0 .. Len(c) /\ i - 1 # x
      BY <1>1, <1>4
    <3>2. CASE i = x
      BY <2>4, <3>1, <3>2
    <3>3. CASE i # x
      <4>1. i \in 1 .. x - 1
        BY <1>4, <3>1, <3>3
      <4>2. g[i] = g[i - 1] + avi_chunk_total(c[i])
        BY <2>2, <4>1 DEF SumsUp
      <4>3. h[i] = g[i] /\ h[i - 1] = g[i - 1]
        BY <2>4, <3>1, <3>3
      <4> QED BY <4>2, <4>3
    <3> QED BY <3>2, <3>3
  <2>7. SumsUp(c, h, x)
    BY <2>4, <2>5, <2>6 DEF SumsUp
  <2> QED BY <1>4, <2>7
<1> QED BY <1>5, <1>6

LEMMA ChunkBytesIs ==
  ASSUME NEW c \in Seq(Nat)
  PROVE  /\ ChunkBytes(c, 0) = 0
         /\ \A n \in 0 .. Len(c) : ChunkBytes(c, n) \in Nat
         /\ \A n \in 1 .. Len(c) :
              ChunkBytes(c, n) = ChunkBytes(c, n - 1) + avi_chunk_total(c[n])
<1> DEFINE Body(s) == [i \in 0 .. Len(c) |-> IF i = 0 THEN 0
                                             ELSE s[i - 1] + avi_chunk_total(c[i])]
           sum == CHOOSE s : s = Body(s)
<1>1. Len(c) \in Nat
  OBVIOUS
<1>2. PICK g : SumsUp(c, g, Len(c))
  BY SumExists
<1>3. g = Body(g)
  <2>1. \A i \in 0 .. Len(c) : g[i] = IF i = 0 THEN 0 ELSE g[i - 1] + avi_chunk_total(c[i])
    BY <1>1, <1>2 DEF SumsUp
  <2> QED BY <1>2, <2>1 DEF SumsUp
<1>4. sum = Body(sum)
  <2> HIDE DEF Body
  <2> QED BY <1>3
<1>5. \A n \in 0 .. Len(c) : ChunkBytes(c, n) = sum[n]
  BY DEF ChunkBytes
<1> HIDE DEF sum
<1>6. sum[0] = 0 /\ \A i \in 1 .. Len(c) : sum[i] = sum[i - 1] + avi_chunk_total(c[i])
  BY <1>1, <1>4
<1> DEFINE T == {k \in 0 .. Len(c) : sum[k] \notin Nat}
<1>7. T = {}
  <2> SUFFICES ASSUME T # {} PROVE FALSE
    OBVIOUS
  <2>1. T \subseteq Nat
    BY <1>1
  <2>2. PICK x \in T : \A y \in T : x <= y
    <3> HIDE DEF T
    <3> QED BY <2>1, LowestExists
  <2>3. x \in 0 .. Len(c) /\ sum[x] \notin Nat
    BY <2>2
  <2>4. x \in 1 .. Len(c)
    BY <1>1, <1>6, <2>3
  <2>5. x - 1 \in 0 .. Len(c) /\ ~(x <= x - 1)
    BY <1>1, <2>4
  <2>6. sum[x - 1] \in Nat
    BY <2>2, <2>5
  <2>7. c[x] \in Nat
    BY <2>4
  <2>8. avi_chunk_total(c[x]) \in Nat
    BY <2>7, TotalIs
  <2> QED BY <1>6, <2>3, <2>4, <2>6, <2>8
<1>8. \A n \in 0 .. Len(c) : sum[n] \in Nat
  BY <1>7
<1>9. 0 \in 0 .. Len(c) /\ \A n \in 1 .. Len(c) : n \in 0 .. Len(c) /\ n - 1 \in 0 .. Len(c)
  BY <1>1
<1> QED BY <1>5, <1>6, <1>8, <1>9

(* The first chunks fill the same bytes whatever follows them. *)
LEMMA ChunkBytesPrefix ==
  ASSUME NEW c \in Seq(Nat), NEW e \in Seq(Nat), NEW n \in Nat, n <= Len(c), n <= Len(e),
         \A i \in 1 .. n : c[i] = e[i]
  PROVE  \A m \in 0 .. n : ChunkBytes(e, m) = ChunkBytes(c, m)
<1> DEFINE T == {k \in 0 .. n : ChunkBytes(e, k) # ChunkBytes(c, k)}
<1> SUFFICES ASSUME T # {} PROVE FALSE
  OBVIOUS
<1>1. T \subseteq Nat
  OBVIOUS
<1>2. PICK x \in T : \A y \in T : x <= y
  <2> HIDE DEF T
  <2> QED BY <1>1, LowestExists
<1>3. x \in 0 .. n /\ ChunkBytes(e, x) # ChunkBytes(c, x)
  BY <1>2
<1>4. x # 0
  BY <1>3, ChunkBytesIs
<1>5. x - 1 \in 0 .. n /\ x \in 1 .. n /\ ~(x <= x - 1)
  BY <1>3, <1>4
<1>6. ChunkBytes(e, x - 1) = ChunkBytes(c, x - 1)
  BY <1>2, <1>5
<1>7. x \in 1 .. Len(c) /\ x \in 1 .. Len(e)
  BY <1>5
<1>8. /\ ChunkBytes(e, x) = ChunkBytes(e, x - 1) + avi_chunk_total(e[x])
      /\ ChunkBytes(c, x) = ChunkBytes(c, x - 1) + avi_chunk_total(c[x])
  BY <1>7, ChunkBytesIs
<1> QED BY <1>3, <1>5, <1>6, <1>8

LEMMA ChunkBytesAppend ==
  ASSUME NEW c \in Seq(Nat), NEW len \in Nat
  PROVE  LET e == Append(c, len)
         IN  /\ e \in Seq(Nat) /\ Len(e) = Len(c) + 1
             /\ \A i \in 1 .. Len(c) : e[i] = c[i]
             /\ e[Len(e)] = len
             /\ \A m \in 0 .. Len(c) : ChunkBytes(e, m) = ChunkBytes(c, m)
             /\ ChunkBytes(e, Len(e)) = ChunkBytes(c, Len(c)) + avi_chunk_total(len)
<1> DEFINE e == Append(c, len)
<1>1. /\ e \in Seq(Nat) /\ Len(e) = Len(c) + 1 /\ \A i \in 1 .. Len(c) : e[i] = c[i]
      /\ e[Len(e)] = len /\ Len(c) \in Nat
  OBVIOUS
<1> HIDE DEF e
<1>2. Len(c) <= Len(e)
  BY <1>1
<1>3. \A m \in 0 .. Len(c) : ChunkBytes(e, m) = ChunkBytes(c, m)
  <2>1. \A i \in 1 .. Len(c) : c[i] = e[i]
    BY <1>1
  <2> DEFINE n == Len(c)
  <2>2. n \in Nat /\ n <= Len(c) /\ n <= Len(e)
    BY <1>1, <1>2
  <2> HIDE DEF n
  <2>3. \A i \in 1 .. n : c[i] = e[i]
    BY <2>1 DEF n
  <2>4. \A m \in 0 .. n : ChunkBytes(e, m) = ChunkBytes(c, m)
    BY <1>1, <2>2, <2>3, ChunkBytesPrefix
  <2> QED BY <2>4 DEF n
<1>4. Len(e) \in 1 .. Len(e) /\ Len(e) - 1 = Len(c) /\ Len(c) \in 0 .. Len(c)
  BY <1>1
<1>5. ChunkBytes(e, Len(e)) = ChunkBytes(e, Len(c)) + avi_chunk_total(e[Len(e)])
  BY <1>1, <1>4, ChunkBytesIs
<1> QED BY <1>1, <1>3, <1>4, <1>5 DEF e

-----------------------------------------------------------------------------
(* Headers *)

LEMMA OnCardMore ==
  ASSUME NEW d \in Disks, NEW e \in Disks, NEW n \in Int, OnCard(d, n),
         \A s \in Parts : d.fill[s] <= e.fill[s]
  PROVE  OnCard(e, n)
<1>1. \A s \in Parts : Enough(d, s, n)
  BY OnCardIs
<1>2. ASSUME NEW s \in Parts PROVE Enough(e, s, n)
  <2>1. d.fill[s] \in Int /\ e.fill[s] \in Int /\ s \in Int /\ d.fill[s] <= e.fill[s]
    BY FillIs, FatFileSizes DEF Parts
  <2>2. Enough(d, s, n)
    BY <1>1
  <2> QED BY <2>1, <2>2 DEF Enough
<1> QED BY <1>2, OnCardIs

(* Less of a file is on the card when more of it is. *)
LEMMA OnCardLess ==
  ASSUME NEW d \in Disks, NEW n \in Int, NEW m \in Int, m <= n, OnCard(d, n)
  PROVE  OnCard(d, m)
<1>1. \A s \in Parts : Enough(d, s, n)
  BY OnCardIs
<1>2. ASSUME NEW s \in Parts PROVE Enough(d, s, m)
  <2>1. d.fill[s] \in Int /\ s \in Int
    BY FillIs, FatFileSizes DEF Parts
  <2>2. Enough(d, s, n)
    BY <1>1
  <2> QED BY <2>1, <2>2 DEF Enough
<1> QED BY <1>2, OnCardIs

FieldsAre == {4, 44, 48, 140, 216}

LEMMA FieldIs ==
  /\ Fields = FieldsAre
  /\ OFF_RIFFSZ \in Fields /\ OFF_FLAGS \in Fields /\ OFF_TOTALFRAMES \in Fields
  /\ OFF_STRH_LEN \in Fields /\ OFF_MOVISZ \in Fields
BY DEF Fields, FieldsAre, OFF_RIFFSZ, OFF_FLAGS, OFF_TOTALFRAMES, OFF_STRH_LEN, OFF_MOVISZ

(* The bytes of an index of n frames, with its chunk header. *)
IndexBytes(n) == 8 + 16 * (IF n < IdxCap THEN n ELSE IdxCap)

(* A header that tells the truth about the first n chunks. *)
Tells(h, chunks, n) ==
  LET indexed == IF ClaimsIndex(h) THEN IndexBytes(n) ELSE 0
  IN /\ h \in [Fields -> Nat]
     /\ n \in 0 .. Len(chunks)
     /\ h[OFF_TOTALFRAMES] = n
     /\ h[OFF_STRH_LEN] = n
     /\ h[OFF_MOVISZ] = 4 + ChunkBytes(chunks, n)
     /\ h[OFF_RIFFSZ] = HdrSize - 8 + ChunkBytes(chunks, n) + indexed

LEMMA HeaderTrueIs ==
  ASSUME NEW d \in Disks, NEW chunks \in Seq(Nat)
  PROVE  HeaderTrue(d, chunks) <=>
           \/ d.hdr = NoHeader
           \/ /\ Tells(d.hdr, chunks, d.hdr[OFF_TOTALFRAMES])
              /\ OnCard(d, 8 + d.hdr[OFF_RIFFSZ])
<1>1. d.hdr \in [Fields -> Nat] \/ d.hdr = NoHeader
  BY DEF Disks, Headers
<1>2. CASE d.hdr = NoHeader
  BY <1>2 DEF HeaderTrue
<1>3. CASE d.hdr \in [Fields -> Nat]
  <2> DEFINE h == d.hdr
             n == h[OFF_TOTALFRAMES]
  <2>1. n \in Nat /\ Len(chunks) \in Nat
    BY <1>3, FieldIs
  <2>2. n <= Len(chunks) <=> n \in 0 .. Len(chunks)
    BY <2>1
  <2>3. h # NoHeader
    BY <1>3, AviSizes
  <2> HIDE DEF n
  <2>4. HeaderTrue(d, chunks) <=>
          LET indexed == IF ClaimsIndex(h) THEN IndexBytes(n) ELSE 0
          IN /\ n <= Len(chunks)
             /\ h[OFF_STRH_LEN] = n
             /\ h[OFF_MOVISZ] = 4 + ChunkBytes(chunks, n)
             /\ h[OFF_RIFFSZ] = HdrSize - 8 + ChunkBytes(chunks, n) + indexed
             /\ OnCard(d, 8 + h[OFF_RIFFSZ])
    BY <2>3 DEF HeaderTrue, IndexBytes, n
  <2>5. n = h[OFF_TOTALFRAMES]
    BY DEF n
  <2> HIDE DEF h
  <2>6. h = d.hdr
    BY DEF h
  <2> QED BY <1>3, <2>2, <2>3, <2>4, <2>5, <2>6 DEF Tells
<1> QED BY <1>1, <1>2, <1>3

LEMMA TrueOfMore ==
  ASSUME NEW d \in Disks, NEW e \in Disks, NEW chunks \in Seq(Nat),
         More(d, e), HeaderTrue(d, chunks)
  PROVE  HeaderTrue(e, chunks)
<1>1. e.hdr = d.hdr /\ \A s \in Parts : d.fill[s] <= e.fill[s]
  BY DEF More
<1>2. CASE d.hdr = NoHeader
  BY <1>1, <1>2, HeaderTrueIs
<1>3. CASE d.hdr # NoHeader
  <2>1. /\ Tells(d.hdr, chunks, d.hdr[OFF_TOTALFRAMES])
        /\ OnCard(d, 8 + d.hdr[OFF_RIFFSZ])
    BY <1>3, HeaderTrueIs
  <2>2. 8 + d.hdr[OFF_RIFFSZ] \in Int
    BY <2>1, FieldIs DEF Tells
  <2>3. OnCard(e, 8 + d.hdr[OFF_RIFFSZ])
    BY <1>1, <2>1, <2>2, OnCardMore
  <2> QED BY <1>1, <2>1, <2>3, HeaderTrueIs
<1> QED BY <1>2, <1>3

LEMMA TrueOfPrefix ==
  ASSUME NEW d \in Disks, NEW chunks \in Seq(Nat), NEW len \in Nat, HeaderTrue(d, chunks)
  PROVE  HeaderTrue(d, Append(chunks, len))
<1> DEFINE e == Append(chunks, len)
<1>1. /\ e \in Seq(Nat) /\ Len(e) = Len(chunks) + 1
      /\ \A m \in 0 .. Len(chunks) : ChunkBytes(e, m) = ChunkBytes(chunks, m)
  BY ChunkBytesAppend
<1> HIDE DEF e
<1>2. CASE d.hdr = NoHeader
  <2>1. HeaderTrue(d, e)
    BY <1>1, <1>2, HeaderTrueIs
  <2> QED BY <2>1 DEF e
<1>3. CASE d.hdr # NoHeader
  <2> DEFINE n == d.hdr[OFF_TOTALFRAMES]
  <2>1. Tells(d.hdr, chunks, n) /\ OnCard(d, 8 + d.hdr[OFF_RIFFSZ])
    BY <1>3, HeaderTrueIs
  <2> HIDE DEF n
  <2>2. n \in 0 .. Len(chunks) /\ n \in 0 .. Len(e)
    BY <1>1, <2>1 DEF Tells
  <2>3. ChunkBytes(e, n) = ChunkBytes(chunks, n)
    BY <1>1, <2>2
  <2>4. Tells(d.hdr, e, n)
    BY <2>1, <2>2, <2>3 DEF Tells
  <2>5. HeaderTrue(d, e)
    BY <1>1, <2>1, <2>4, HeaderTrueIs DEF n
  <2> QED BY <2>5 DEF e
<1> QED BY <1>2, <1>3

(* Both what the card holds and what the buffer will make of it. *)
Truthful(f, chunks) == HeaderTrue(f.disk, chunks) /\ HeaderTrue(Saved(f), chunks)

LEMMA TruthfulGrows ==
  ASSUME NEW f, NEW g, Buffered(f), Buffered(g), Grows(f, g), NEW chunks \in Seq(Nat),
         Truthful(f, chunks)
  PROVE  Truthful(g, chunks)
<1>1. f.disk \in Disks /\ Saved(f) \in Disks /\ g.disk \in Disks /\ Saved(g) \in Disks
  BY SavedIs DEF Buffered, Files
<1> QED BY <1>1, TrueOfMore DEF Grows, Truthful

-----------------------------------------------------------------------------
(* A clip *)

Avis ==
  [frames : Nat, movi_bytes : Nat, off : Nat, error : BOOLEAN,
   idx : Seq([ofs : Nat, len : Nat]), chunks : Seq(Nat)]
Muxes == [avi : Avis, f : Files]

MuxInv(x) ==
  /\ x \in Muxes
  /\ Buffered(x.f) /\ x.f.ptr <= x.f.size
  /\ Truthful(x.f, x.avi.chunks)
  /\ x.avi.frames = Len(x.avi.chunks)
  /\ x.avi.movi_bytes = ChunkBytes(x.avi.chunks, x.avi.frames)

(* More can be written at its end. *)
Going(x) ==
  ~x.avi.error => /\ Standing(x.f) /\ x.f.ptr = x.avi.off
                  /\ x.avi.off >= HdrSize
                  /\ Saved(x.f).hdr \in [Fields -> Nat]

(* It ends with its chunks, and claims no index. *)
Recording(x) ==
  /\ MuxInv(x) /\ Going(x)
  /\ ~x.avi.error => /\ x.avi.off = HdrSize + x.avi.movi_bytes
                     /\ Saved(x.f).hdr[OFF_FLAGS] = 0

(* The muxer's state is as before but for the error and the end. *)
SameCount(x, y) ==
  /\ y.avi.frames = x.avi.frames /\ y.avi.movi_bytes = x.avi.movi_bytes
  /\ y.avi.chunks = x.avi.chunks /\ y.avi.idx = x.avi.idx

LEMMA WroteIs ==
  ASSUME NEW x \in Muxes, NEW g \in Files, NEW n \in Nat
  PROVE  LET y == Wrote(x, g, n)
         IN  /\ y \in Muxes /\ y.f = g /\ SameCount(x, y) /\ (y.avi.error <=> ~g.ok)
             /\ y.avi.off = IF g.ok THEN x.avi.off + n ELSE x.avi.off
<1> DEFINE b == ~g.ok
           o == IF g.ok THEN x.avi.off + n ELSE x.avi.off
           a == [x.avi EXCEPT !.error = b, !.off = o]
           y == Wrote(x, g, n)
<1>1. b \in BOOLEAN /\ o \in Nat /\ x.avi \in Avis
  BY SMTT(20) DEF Muxes, Avis, Files
<1>2. y = [x EXCEPT !.f = g, !.avi = a]
  BY DEF Wrote
<1>3. o = IF g.ok THEN x.avi.off + n ELSE x.avi.off
  OBVIOUS
<1>4. b <=> ~g.ok
  OBVIOUS
<1> HIDE DEF b, o, y
<1>5. /\ a \in Avis /\ a.error = b /\ a.off = o /\ a.frames = x.avi.frames
      /\ a.movi_bytes = x.avi.movi_bytes /\ a.chunks = x.avi.chunks /\ a.idx = x.avi.idx
  BY <1>1 DEF Avis
<1> HIDE DEF a
<1>6. y \in Muxes /\ y.f = g /\ y.avi = a
  BY <1>2, <1>5 DEF Muxes
<1>7. y.avi.error <=> ~g.ok
  BY Zenon, <1>4, <1>5, <1>6
<1> QED BY <1>3, <1>5, <1>6, <1>7 DEF SameCount, y

(* Nothing a call makes of the file can hurt a clip that is not continued. *)
LEMMA MuxGrows ==
  ASSUME NEW x, MuxInv(x), NEW y \in Muxes, SameCount(x, y),
         Buffered(y.f), Grows(x.f, y.f), y.f.ptr <= y.f.size
  PROVE  MuxInv(y)
<1>1. Buffered(x.f) /\ x.avi.chunks \in Seq(Nat)
  BY DEF MuxInv, Muxes, Avis
<1>2. Truthful(y.f, x.avi.chunks)
  BY <1>1, TruthfulGrows DEF MuxInv
<1> QED BY <1>2 DEF MuxInv, SameCount

LEMMA wrIs ==
  ASSUME NEW x, MuxInv(x), Going(x), NEW n \in Nat \ {0}
  PROVE  LET y == wr(x, n)
         IN  /\ MuxInv(y) /\ Going(y) /\ SameCount(x, y)
             /\ x.avi.error => y.avi.error
             /\ ~y.avi.error => /\ y.avi.off = x.avi.off + n
                                /\ Saved(y.f).hdr = Saved(x.f).hdr
             /\ Grows(x.f, y.f)
<1> DEFINE y == wr(x, n)
           g == f_write(x.f, n)
<1>1. x \in Muxes /\ Buffered(x.f) /\ x.avi \in Avis
  BY DEF MuxInv, Muxes
<1>2. CASE x.avi.error
  <2>1. y = x
    BY <1>2 DEF wr
  <2>2. Grows(x.f, x.f)
    BY <1>1, SameViewGrows DEF SameView, Buffered
  <2> HIDE DEF y
  <2> QED BY <1>2, <2>1, <2>2 DEF SameCount, y
<1>3. CASE ~x.avi.error
  <2>1. Standing(x.f) /\ x.f.ptr = x.avi.off /\ Saved(x.f).hdr \in [Fields -> Nat]
        /\ x.avi.off >= HdrSize
    BY <1>3 DEF Going
  <2>2. Took(x.f, g, n)
    BY <2>1, f_writeIs
  <2> HIDE DEF g
  <2>3. g \in Files /\ y = Wrote(x, g, n)
    BY <1>3, <2>2 DEF wr, g, Took, Buffered
  <2>4. /\ y \in Muxes /\ y.f = g /\ SameCount(x, y) /\ (y.avi.error <=> ~g.ok)
        /\ y.avi.off = IF g.ok THEN x.avi.off + n ELSE x.avi.off
    BY <1>1, <2>3, WroteIs
  <2> HIDE DEF y
  <2>5. MuxInv(y)
    BY <2>2, <2>4, MuxGrows DEF Took
  <2>6. Saved(g).hdr = Saved(x.f).hdr
    BY <2>2 DEF Took, Grows, More
  <2>7. ~y.avi.error => /\ Standing(y.f) /\ y.f.ptr = y.avi.off
                        /\ y.avi.off = x.avi.off + n
    BY <2>1, <2>2, <2>4 DEF Took
  <2>8. x.avi.off \in Nat
    BY <1>1 DEF Avis
  <2>9. Going(y)
    BY <2>1, <2>4, <2>6, <2>7, <2>8 DEF Going, HdrSize
  <2> QED BY <1>3, <2>2, <2>4, <2>5, <2>6, <2>7, <2>9 DEF Took, y
<1> QED BY <1>2, <1>3

-----------------------------------------------------------------------------
(* Chunks *)

(* The entries of the index lead to the chunks, one for each while there is *)
(* room, and one too many after a chunk that could not be written.          *)
Staged(a) == IF a.frames < IdxCap THEN a.frames ELSE IdxCap
IndexInv(a) ==
  /\ IndexTrue(a)
  /\ ~a.error => Len(a.idx) = Staged(a)
  /\ Len(a.idx) >= Staged(a)

LEMMA StageIs ==
  ASSUME NEW a \in Avis, ~a.error, NEW len \in Nat
  PROVE  LET b == idx_stage(a, len)
         IN  /\ b \in Avis /\ ~b.error /\ b.frames = a.frames /\ b.off = a.off
             /\ b.movi_bytes = a.movi_bytes /\ b.chunks = a.chunks
             /\ b.idx = IF a.frames >= IdxCap THEN a.idx
                        ELSE Append(a.idx, [ofs |-> 4 + a.movi_bytes, len |-> len])
<1> DEFINE e == [ofs |-> 4 + a.movi_bytes, len |-> len]
           i == Append(a.idx, e)
<1>1. e \in [ofs : Nat, len : Nat]
  BY DEF Avis
<1>2. i \in Seq([ofs : Nat, len : Nat])
  <2> HIDE DEF e
  <2> QED BY <1>1 DEF Avis
<1>3. idx_stage(a, len) = IF a.frames >= IdxCap THEN a ELSE [a EXCEPT !.idx = i]
  BY DEF idx_stage
<1> HIDE DEF i, e
<1>4. CASE a.frames >= IdxCap
  BY <1>3, <1>4
<1>5. CASE ~(a.frames >= IdxCap)
  <2> DEFINE b == [a EXCEPT !.idx = i]
  <2>1. /\ b \in Avis /\ b.error = a.error /\ b.frames = a.frames /\ b.off = a.off
        /\ b.movi_bytes = a.movi_bytes /\ b.chunks = a.chunks /\ b.idx = i
    BY <1>2 DEF Avis
  <2>2. idx_stage(a, len) = b
    BY <1>3, <1>5
  <2> HIDE DEF b
  <2> QED BY <1>5, <2>1, <2>2 DEF i, e
<1> QED BY <1>4, <1>5

LEMMA chunk_doneIs ==
  ASSUME NEW a \in Avis, NEW len \in Nat
  PROVE  LET b == chunk_done(a, len)
         IN  /\ b \in Avis /\ b.error = a.error /\ b.frames = a.frames + 1 /\ b.off = a.off
             /\ b.movi_bytes = a.movi_bytes + avi_chunk_total(len)
             /\ b.chunks = Append(a.chunks, len) /\ b.idx = a.idx
<1> DEFINE m == a.movi_bytes + avi_chunk_total(len)
           c == Append(a.chunks, len)
           k == a.frames + 1
<1>1. m \in Nat /\ c \in Seq(Nat) /\ k \in Nat
  <2>1. avi_chunk_total(len) \in Nat
    BY TotalIs
  <2> QED BY <2>1 DEF Avis
<1>2. chunk_done(a, len) = [a EXCEPT !.movi_bytes = m, !.frames = k, !.chunks = c]
  BY DEF chunk_done
<1> HIDE DEF m, c, k
<1>3. [a EXCEPT !.movi_bytes = m, !.frames = k, !.chunks = c] \in Avis
  BY <1>1 DEF Avis
<1> QED BY <1>2, <1>3 DEF Avis, m, c, k

(* The clip x with another muxer state. *)
LEMMA WithAviIs ==
  ASSUME NEW x \in Muxes, NEW a \in Avis
  PROVE  LET y == [x EXCEPT !.avi = a] IN y \in Muxes /\ y.avi = a /\ y.f = x.f
BY DEF Muxes

(* What IndexTrue says of entry i. *)
Leads(a, i) ==
  a.idx[i].ofs = 4 + ChunkBytes(a.chunks, i - 1) /\ a.idx[i].len = a.chunks[i]

LEMMA IndexTrueIs ==
  ASSUME NEW a \in Avis
  PROVE  IndexTrue(a) <=>
           \A i \in Nat \ {0} : i <= Len(a.idx) /\ i <= Len(a.chunks) => Leads(a, i)
<1>1. Len(a.idx) \in Nat /\ Len(a.chunks) \in Nat
  BY DEF Avis
<1> DEFINE m == IF Len(a.idx) < Len(a.chunks) THEN Len(a.idx) ELSE Len(a.chunks)
<1>2. \A i : i \in 1 .. m <=> i \in Nat \ {0} /\ i <= Len(a.idx) /\ i <= Len(a.chunks)
  BY <1>1
<1>3. IndexTrue(a) <=> \A i \in 1 .. m : Leads(a, i)
  BY DEF IndexTrue, Leads
<1> HIDE DEF m
<1> QED BY <1>2, <1>3

(* A chunk that was not counted leaves an entry that nobody reads. *)
LEMMA IndexKept ==
  ASSUME NEW a \in Avis, NEW b \in Avis, IndexInv(a), ~a.error, b.error,
         a.frames = Len(a.chunks), b.frames = a.frames, b.chunks = a.chunks,
         NEW e \in [ofs : Nat, len : Nat],
         b.idx = IF a.frames >= IdxCap THEN a.idx ELSE Append(a.idx, e)
  PROVE  IndexInv(b)
<1>1. /\ Len(a.idx) = Staged(a) /\ a.idx \in Seq([ofs : Nat, len : Nat])
      /\ a.frames \in Nat /\ IdxCap \in Nat /\ Staged(b) = Staged(a)
  BY AviSizes DEF IndexInv, Avis, Staged
<1>2. CASE a.frames >= IdxCap
  <2>1. b.idx = a.idx
    BY <1>2
  <2> QED BY ZenonT(30), <1>1, <2>1, IndexTrueIs DEF IndexInv, Leads
<1>3. CASE ~(a.frames >= IdxCap)
  <2>1. b.idx = Append(a.idx, e) /\ Staged(a) = Len(a.chunks)
    BY <1>1, <1>3 DEF Staged
  <2>2. Len(b.idx) = Len(a.idx) + 1 /\ \A i \in 1 .. Len(a.idx) : b.idx[i] = a.idx[i]
    BY <1>1, <2>1
  <2>3. ASSUME NEW i \in Nat \ {0}, i <= Len(b.chunks) PROVE Leads(b, i)
    <3>1. i \in 1 .. Len(a.idx) /\ i <= Len(a.idx) /\ i <= Len(a.chunks)
      BY <1>1, <2>1, <2>3
    <3>2. Leads(a, i)
      BY <3>1, IndexTrueIs DEF IndexInv
    <3> QED BY <2>2, <3>1, <3>2 DEF Leads
  <2>4. IndexTrue(b)
    BY <2>3, IndexTrueIs
  <2>5. Len(a.idx) \in Nat
    BY <1>1
  <2> QED BY <1>1, <2>2, <2>4, <2>5 DEF IndexInv
<1> QED BY <1>2, <1>3

(* The next entry leads to the chunk that follows. *)
LEMMA IndexGrown ==
  ASSUME NEW a \in Avis, NEW b \in Avis, NEW len \in Nat, IndexInv(a), ~a.error,
         a.frames = Len(a.chunks), a.movi_bytes = ChunkBytes(a.chunks, Len(a.chunks)),
         b.frames = a.frames + 1, b.chunks = Append(a.chunks, len),
         b.idx = IF a.frames >= IdxCap THEN a.idx
                 ELSE Append(a.idx, [ofs |-> 4 + a.movi_bytes, len |-> len])
  PROVE  IndexInv(b)
<1> DEFINE e == [ofs |-> 4 + a.movi_bytes, len |-> len]
           n == Len(a.chunks)
<1>1. /\ Len(a.idx) = Staged(a) /\ a.idx \in Seq([ofs : Nat, len : Nat])
      /\ a.frames \in Nat /\ IdxCap \in Nat /\ a.chunks \in Seq(Nat) /\ n \in Nat
      /\ a.frames = n /\ b.frames = n + 1
      /\ e \in [ofs : Nat, len : Nat] /\ e.ofs = 4 + ChunkBytes(a.chunks, n) /\ e.len = len
  <2>1. a.movi_bytes \in Nat /\ a.chunks \in Seq(Nat)
    BY DEF Avis
  <2>2. e \in [ofs : Nat, len : Nat] /\ e.ofs = 4 + ChunkBytes(a.chunks, n) /\ e.len = len
    BY <2>1
  <2> HIDE DEF e
  <2>3. n \in Nat /\ a.frames = n /\ b.frames = n + 1
    BY <2>1
  <2> HIDE DEF n
  <2> QED BY <2>1, <2>2, <2>3, AviSizes DEF IndexInv, Avis
<1>2. /\ Len(b.chunks) = n + 1 /\ b.chunks[n + 1] = len
      /\ \A i \in 1 .. n : b.chunks[i] = a.chunks[i]
      /\ \A m \in 0 .. n : ChunkBytes(b.chunks, m) = ChunkBytes(a.chunks, m)
  <2> DEFINE c == a.chunks
             d == Append(c, len)
  <2>1. c \in Seq(Nat)
    BY <1>1
  <2> HIDE DEF c
  <2>2. /\ Len(d) = Len(c) + 1 /\ d[Len(d)] = len /\ \A i \in 1 .. Len(c) : d[i] = c[i]
        /\ \A m \in 0 .. Len(c) : ChunkBytes(d, m) = ChunkBytes(c, m)
    BY <2>1, ChunkBytesAppend
  <2>3. b.chunks = d /\ Len(c) = n
    BY DEF c
  <2> HIDE DEF d, n
  <2> QED BY <2>2, <2>3 DEF c
<1>3. b.idx = IF n >= IdxCap THEN a.idx ELSE Append(a.idx, e)
  OBVIOUS
<1> HIDE DEF e, n
<1>4. ASSUME NEW i \in 1 .. n, i <= Len(a.idx), b.idx[i] = a.idx[i] PROVE Leads(b, i)
  <2>1. i - 1 \in 0 .. n /\ i \in Nat \ {0} /\ i <= n
    BY <1>1
  <2>2. Leads(a, i)
    BY <1>4, <2>1, IndexTrueIs DEF IndexInv, n
  <2> QED BY <1>2, <1>4, <2>1, <2>2 DEF Leads
<1>5. CASE n >= IdxCap
  <2>1. b.idx = a.idx /\ Len(a.idx) = IdxCap /\ Staged(b) = IdxCap /\ Len(b.idx) = IdxCap
    <3>1. Staged(a) = IdxCap /\ Staged(b) = IdxCap
      BY <1>1, <1>5 DEF Staged
    <3> QED BY <1>1, <1>3, <1>5, <3>1
  <2>2. ASSUME NEW i \in Nat \ {0}, i <= Len(b.idx) PROVE Leads(b, i)
    <3>1. i \in 1 .. n /\ i <= Len(a.idx)
      <4>1. n \in Nat /\ IdxCap \in Nat /\ i <= IdxCap /\ IdxCap <= n
        BY <1>1, <1>5, <2>1, <2>2
      <4> QED BY <2>1, <4>1
    <3> QED BY <1>4, <2>1, <3>1
  <2>3. IndexTrue(b)
    BY <2>2, IndexTrueIs
  <2> QED BY <1>1, <2>1, <2>3 DEF IndexInv
<1>6. CASE ~(n >= IdxCap)
  <2>1. b.idx = Append(a.idx, e) /\ Len(a.idx) = n /\ Staged(b) = n + 1
    <3>1. Staged(a) = n /\ Staged(b) = n + 1
      BY <1>1, <1>6 DEF Staged
    <3> QED BY <1>1, <1>3, <1>6, <3>1
  <2>2. Len(b.idx) = n + 1 /\ b.idx[n + 1] = e /\ \A i \in 1 .. n : b.idx[i] = a.idx[i]
    BY <1>1, <2>1
  <2>3. Leads(b, n + 1)
    <3>1. (n + 1) - 1 = n /\ n \in 0 .. n
      BY <1>1
    <3> QED BY <1>1, <1>2, <2>2, <3>1 DEF Leads
  <2>4. ASSUME NEW i \in Nat \ {0}, i <= Len(b.idx) PROVE Leads(b, i)
    <3>1. i \in 1 .. n \/ i = n + 1
      BY SMTT(20), <1>1, <2>2, <2>4
    <3>2. CASE i \in 1 .. n
      <4>1. i <= Len(a.idx) /\ b.idx[i] = a.idx[i]
        BY <1>1, <2>1, <2>2, <3>2
      <4> QED BY <1>4, <3>2, <4>1
    <3> QED BY <2>3, <3>1, <3>2
  <2>5. IndexTrue(b)
    BY <2>4, IndexTrueIs
  <2>6. Len(b.idx) = Staged(b) /\ Len(b.idx) \in Nat
    BY <1>1, <2>1, <2>2
  <2> QED BY <2>5, <2>6 DEF IndexInv
<1> QED BY <1>5, <1>6

LEMMA avi_addIs ==
  ASSUME NEW x, Recording(x), IndexInv(x.avi), NEW len \in Nat
  PROVE  LET y == avi_add(x, len)
         IN  /\ Recording(y) /\ IndexInv(y.avi) /\ Grows(x.f, y.f)
             /\ y.avi.error => y.avi.frames = x.avi.frames /\ y.avi.chunks = x.avi.chunks
             /\ ~y.avi.error => /\ ~x.avi.error
                                /\ y.avi.frames = x.avi.frames + 1
                                /\ y.avi.chunks = Append(x.avi.chunks, len)
                                /\ Saved(y.f).hdr = Saved(x.f).hdr
<1>1. /\ MuxInv(x) /\ Going(x) /\ x \in Muxes /\ x.avi \in Avis /\ Buffered(x.f)
      /\ x.avi.chunks \in Seq(Nat) /\ x.avi.frames = Len(x.avi.chunks)
  BY DEF Recording, MuxInv, Muxes, Avis
<1>2. CASE x.avi.error
  <2>1. avi_add(x, len) = x
    BY <1>2 DEF avi_add
  <2>2. Grows(x.f, x.f)
    BY <1>1, SameViewGrows DEF SameView, Buffered
  <2> QED BY <1>2, <2>1, <2>2
<1>3. CASE ~x.avi.error
  <2> DEFINE n == avi_chunk_total(len)
             b == idx_stage(x.avi, len)
             w == [x EXCEPT !.avi = b]
             y == wr(w, n)
             d == chunk_done(y.avi, len)
             z == [y EXCEPT !.avi = d]
  <2>1. avi_add(x, len) = IF y.avi.error THEN y ELSE z
    BY <1>3 DEF avi_add
  <2>2. n \in Nat \ {0}
    BY TotalIs
  <2> HIDE DEF n
  <2>3. /\ b \in Avis /\ ~b.error /\ b.frames = x.avi.frames /\ b.off = x.avi.off
        /\ b.movi_bytes = x.avi.movi_bytes /\ b.chunks = x.avi.chunks
        /\ b.idx = IF x.avi.frames >= IdxCap THEN x.avi.idx
                   ELSE Append(x.avi.idx, [ofs |-> 4 + x.avi.movi_bytes, len |-> len])
    BY <1>1, <1>3, StageIs
  <2> HIDE DEF b
  <2>4. w \in Muxes /\ w.avi = b /\ w.f = x.f
    BY <1>1, <2>3, WithAviIs
  <2> HIDE DEF w
  <2>5. MuxInv(w) /\ Going(w)
    BY <1>1, <1>3, <2>3, <2>4 DEF MuxInv, Going
  <2>6. /\ MuxInv(y) /\ Going(y) /\ SameCount(w, y) /\ Grows(w.f, y.f)
        /\ ~y.avi.error => y.avi.off = w.avi.off + n /\ Saved(y.f).hdr = Saved(w.f).hdr
    BY <2>2, <2>5, wrIs
  <2> HIDE DEF y
  <2>7. y \in Muxes /\ y.avi \in Avis
    BY <2>6 DEF MuxInv, Muxes
  <2>8. /\ d \in Avis /\ d.error = y.avi.error /\ d.frames = y.avi.frames + 1
        /\ d.off = y.avi.off /\ d.movi_bytes = y.avi.movi_bytes + n
        /\ d.chunks = Append(y.avi.chunks, len) /\ d.idx = y.avi.idx
    BY <2>7, chunk_doneIs DEF n
  <2> HIDE DEF d
  <2>9. z \in Muxes /\ z.avi = d /\ z.f = y.f
    BY <2>7, <2>8, WithAviIs
  <2> HIDE DEF z
  <2> DEFINE c == x.avi.chunks
             e == Append(c, len)
  <2>10. /\ e \in Seq(Nat) /\ Len(e) = Len(c) + 1 /\ \A i \in 1 .. Len(c) : e[i] = c[i]
         /\ e[Len(e)] = len /\ \A m \in 0 .. Len(c) : ChunkBytes(e, m) = ChunkBytes(c, m)
         /\ ChunkBytes(e, Len(e)) = ChunkBytes(c, Len(c)) + n
    BY <1>1, ChunkBytesAppend DEF n
  <2>11. c \in Seq(Nat) /\ Len(c) \in Nat /\ x.avi.frames = Len(c)
         /\ x.avi.movi_bytes = ChunkBytes(c, Len(c))
    BY <1>1 DEF MuxInv
  <2>12. /\ y.avi.chunks = c /\ y.avi.frames = Len(c) /\ y.avi.movi_bytes = ChunkBytes(c, Len(c))
         /\ y.avi.idx = b.idx
    BY <2>3, <2>4, <2>6, <2>11 DEF SameCount
  <2>13. z.avi.chunks = e
    BY <2>8, <2>9, <2>12
  <2> HIDE DEF e, c
  <2>14. /\ x.avi.idx \in Seq([ofs : Nat, len : Nat]) /\ x.avi.movi_bytes \in Nat
         /\ [ofs |-> 4 + x.avi.movi_bytes, len |-> len] \in [ofs : Nat, len : Nat]
    BY <1>1 DEF Avis
  <2>15. CASE y.avi.error
    <3>1. IndexInv(y.avi)
      BY <1>1, <1>3, <2>3, <2>7, <2>11, <2>12, <2>14, <2>15, IndexKept DEF c
    <3> QED BY <1>1, <2>1, <2>4, <2>6, <2>11, <2>12, <2>15, <3>1 DEF Recording, c
  <2>16. CASE ~y.avi.error
    <3>1. ~z.avi.error /\ z.avi.frames = Len(e) /\ z.avi.movi_bytes = ChunkBytes(e, Len(e))
          /\ z.avi.off = y.avi.off /\ z.avi.idx = b.idx
      BY <2>8, <2>9, <2>10, <2>12, <2>16
    <3>2. MuxInv(z)
      <4>1. Truthful(y.f, c)
        BY <2>6, <2>12 DEF MuxInv
      <4>2. y.f.disk \in Disks /\ Saved(y.f) \in Disks
        BY <2>7, SavedIs DEF Muxes, Files
      <4>3. Truthful(y.f, e)
        BY <2>11, <4>1, <4>2, TrueOfPrefix DEF Truthful, e
      <4> QED BY <2>6, <2>9, <2>13, <3>1, <4>3 DEF MuxInv
    <3>3. Going(z)
      BY <2>6, <2>9, <2>16, <3>1 DEF Going
    <3>4. IndexInv(z.avi)
      <4>1. z.avi \in Avis
        BY <2>8, <2>9
      <4>2. z.avi.chunks = Append(x.avi.chunks, len) /\ z.avi.frames = x.avi.frames + 1
        BY <2>8, <2>9, <2>11, <2>12, <2>13 DEF e, c
      <4> QED BY <1>1, <1>3, <2>3, <2>11, <3>1, <4>1, <4>2, IndexGrown DEF c
    <3>5. z.avi.off = HdrSize + z.avi.movi_bytes /\ Saved(z.f).hdr[OFF_FLAGS] = 0
      <4>1. x.avi.off = HdrSize + x.avi.movi_bytes /\ Saved(x.f).hdr[OFF_FLAGS] = 0
        BY <1>3 DEF Recording
      <4>2. y.avi.off = x.avi.off + n /\ Saved(z.f).hdr = Saved(x.f).hdr
        BY <2>3, <2>4, <2>6, <2>9, <2>16
      <4>3. z.avi.movi_bytes = x.avi.movi_bytes + n
        BY <2>8, <2>9, <2>11, <2>12
      <4> QED BY <2>2, <2>14, <3>1, <4>1, <4>2, <4>3 DEF HdrSize
    <3>6. Recording(z)
      BY <3>2, <3>3, <3>5 DEF Recording
    <3>7. Saved(z.f).hdr = Saved(x.f).hdr /\ Grows(x.f, z.f)
      BY <2>4, <2>6, <2>9, <2>16
    <3> QED BY <1>3, <2>1, <2>8, <2>9, <2>11, <2>12, <2>13, <2>16, <3>1, <3>4, <3>6, <3>7 DEF e, c
  <2> QED BY <2>15, <2>16
<1> QED BY <1>2, <1>3

-----------------------------------------------------------------------------
(* The header *)

(* The header in the buffer becomes h, over a file that has grown as if by *)
(* any other call; the card sees none of it while the buffer holds it.     *)
Rewrites(f, g, h) ==
  /\ Buffered(g) /\ ~g.err /\ g.sect = 0 /\ g.hdr = h /\ g.size = f.size /\ g.ptr <= g.size
  /\ g.disk.size = f.disk.size
  /\ \A s \in Parts : Saved(f).fill[s] <= Saved(g).fill[s]
  /\ f.sect = 0 => g.disk = f.disk
  /\ More(f.disk, g.disk) \/ More(Saved(f), g.disk)

LEMMA RewritesTwice ==
  ASSUME NEW f, NEW g, NEW k, NEW h, NEW i, Buffered(f), Rewrites(f, g, h), Rewrites(g, k, i)
  PROVE  Rewrites(f, k, i)
<1>1. Saved(f) \in Disks /\ Saved(g) \in Disks /\ Saved(k) \in Disks /\ k.disk = g.disk
  BY SavedIs DEF Rewrites, Buffered
<1>2. ASSUME NEW s \in Parts PROVE Saved(f).fill[s] <= Saved(k).fill[s]
  <2>1. Saved(f).fill[s] <= Saved(g).fill[s] /\ Saved(g).fill[s] <= Saved(k).fill[s]
    BY DEF Rewrites
  <2>2. Saved(f).fill[s] \in Int /\ Saved(g).fill[s] \in Int /\ Saved(k).fill[s] \in Int
    BY <1>1, FillIs
  <2> QED BY <2>1, <2>2
<1> QED BY <1>1, <1>2 DEF Rewrites

LEMMA FourBytesIs ==
  ASSUME NEW f, Buffered(f), f.ok, ~f.err, NEW ofs \in FieldsAre, f.ptr = ofs, f.sect = 0,
         f.size >= HdrSize, NEW val \in Nat, f.hdr \in [Fields -> Nat]
  PROVE  LET g == FourBytes(f)
             w == [g EXCEPT !.hdr[ofs] = val]
         IN  g.ok /\ Rewrites(f, w, [f.hdr EXCEPT ![ofs] = val])
<1> DEFINE k == [f EXCEPT !.ok = TRUE]
           g == Put(k, 4)
           i == [f.hdr EXCEPT ![ofs] = val]
           w == [g EXCEPT !.hdr = i]
<1>1. /\ Buffered(k) /\ Grows(f, k) /\ SameView(f, k) /\ SamePlace(f, k)
      /\ Saved(k) = Saved(f) /\ k.ok /\ k.err = f.err
  BY TrueIs
<1>2. /\ ofs \in Nat /\ ofs % 512 = ofs /\ ofs \div 512 = 0 /\ ofs + 4 <= 220 /\ ofs > 0
      /\ ofs \in Fields
  BY FieldIs DEF FieldsAre
<1>3. FirstPiece(ofs, 4) = 4
  BY DEF FirstPiece, Sector, FieldsAre
<1>4. FourBytes(f) = g
  <2>1. f_write(f, 4) = LET h == IF FirstPiece(ofs, 4) = 0 THEN k ELSE Put(k, FirstPiece(ofs, 4))
                        IN  IF 4 = FirstPiece(ofs, 4) THEN h
                            ELSE PutFromBoundary(h, 4 - FirstPiece(ofs, 4))
    BY DEF f_write, FirstPiece
  <2>2. f_write(f, 4) = g
    <3> HIDE DEF k, g
    <3> QED BY <1>3, <2>1 DEF g
  <2> QED BY <2>2 DEF FourBytes
<1> HIDE DEF k
<1>5. /\ Buffered(g) /\ Grows(k, g) /\ g.disk = k.disk
      /\ g.ptr = k.ptr + 4 /\ g.size = Larger(k.size, k.ptr + 4)
      /\ g.sect = k.sect /\ g.hdr = k.hdr /\ g.dirty
      /\ g.ok = k.ok /\ g.err = k.err
  <2>1. k.sect = k.ptr \div Sector /\ (k.ptr % Sector) + 4 <= Sector
    BY <1>1, <1>2 DEF SamePlace, SameView, Sector
  <2> DEFINE n == 4
             v == Put(k, n)
  <2>2. n \in Nat \ {0} /\ (k.ptr % Sector) + n <= Sector
    BY <2>1
  <2> HIDE DEF n
  <2>3. /\ Buffered(v) /\ Grows(k, v) /\ v.disk = k.disk
        /\ v.ptr = k.ptr + n /\ v.size = Larger(k.size, k.ptr + n)
        /\ v.sect = k.sect /\ v.hdr = k.hdr /\ v.dirty
        /\ v.ok = k.ok /\ v.err = k.err
    BY <1>1, <2>1, <2>2, PutIs
  <2> HIDE DEF v
  <2>4. g = v
    BY DEF n, v
  <2> QED BY <2>3, <2>4 DEF n
<1> HIDE DEF g
<1>6. g.ptr = ofs + 4 /\ g.size = f.size /\ g.ptr <= g.size /\ g \in Files
  <2>1. f.size \in Nat
    BY DEF Buffered, Files
  <2> QED BY <1>1, <1>2, <1>5, <2>1 DEF SamePlace, Larger, HdrSize, Buffered
<1>7. i \in [Fields -> Nat] /\ i \in Headers
  BY DEF Headers
<1>8. g.hdr = f.hdr /\ [g EXCEPT !.hdr[ofs] = val] = w
  BY <1>1, <1>5 DEF SameView
<1> HIDE DEF i
<1>9. /\ w \in Files /\ w.disk = g.disk /\ w.ptr = g.ptr /\ w.size = g.size /\ w.sect = g.sect
      /\ w.fill = g.fill /\ w.dirty = g.dirty /\ w.err = g.err /\ w.hdr = i
  BY <1>6, <1>7 DEF Files
<1> HIDE DEF w
<1>10. Buffered(w)
  BY <1>5, <1>9 DEF Buffered
<1>11. \A s \in Parts : Saved(f).fill[s] <= Saved(w).fill[s]
  <2>1. \A s \in Parts : Saved(w).fill[s] = Saved(g).fill[s]
    BY <1>6, <1>9, SavedIs
  <2> QED BY <1>1, <1>5, <2>1 DEF Grows, More
<1>12. w.disk = f.disk /\ f.disk \in Disks
  BY <1>1, <1>5, <1>9 DEF SameView, Buffered, Files
<1>13. Rewrites(f, w, i)
  <2>1. More(f.disk, w.disk)
    BY <1>12, MoreSelf
  <2>2. ~w.err /\ w.sect = 0
    BY Zenon, <1>1, <1>5, <1>9 DEF SameView
  <2> QED BY <1>6, <1>9, <1>10, <1>11, <1>12, <2>1, <2>2 DEF Rewrites
<1> QED BY <1>1, <1>4, <1>5, <1>8, <1>13 DEF i

(* A seek has failed: the file has stuck, and has kept its sizes. *)
Stuck(f, g) == g.err /\ g.size = f.size /\ g.disk.size = f.disk.size

LEMMA patch32Is ==
  ASSUME NEW x \in Muxes, Buffered(x.f), x.f.size >= HdrSize, x.f.ptr <= x.f.size,
         Saved(x.f).hdr \in [Fields -> Nat], NEW ofs \in Fields, NEW val \in Nat
  PROVE  LET y == patch32(x, ofs, val)
         IN  /\ y \in Muxes /\ SameCount(x, y) /\ y.avi.off = x.avi.off
             /\ x.avi.error => y = x
             /\ y.avi.error => Buffered(y.f) /\ Grows(x.f, y.f) /\ y.f.ptr <= y.f.size
             /\ y.avi.error /\ ~x.avi.error => Stuck(x.f, y.f)
             /\ ~y.avi.error => /\ ~x.avi.error
                                /\ Rewrites(x.f, y.f, [Saved(x.f).hdr EXCEPT ![ofs] = val])
             /\ x.f.sect = 0 /\ ~x.f.err /\ ~x.avi.error => ~y.avi.error
<1> DEFINE y == patch32(x, ofs, val)
           g == f_lseek(x.f, ofs)
           h == FourBytes(g)
<1>1. x.f \in Files /\ x.avi \in Avis /\ Grows(x.f, x.f)
  BY SameViewGrows DEF Muxes, SameView
<1>2. CASE x.avi.error
  <2>1. y = x
    BY <1>2 DEF patch32
  <2> HIDE DEF y
  <2> QED BY <1>1, <1>2, <2>1 DEF SameCount, y
<1>3. CASE ~x.avi.error
  <2>1. ofs \in FieldsAre /\ ofs \in Nat /\ ofs % Sector = ofs /\ ofs \div Sector = 0 /\ ofs > 0
        /\ ofs <= HdrSize
    BY FieldIs DEF FieldsAre, Sector, HdrSize
  <2>2. /\ Buffered(g) /\ Grows(x.f, g) /\ Saved(g) = Saved(x.f)
        /\ g.disk.size = x.f.disk.size /\ g.size = x.f.size /\ g.ptr \in {x.f.ptr, ofs}
        /\ g.ok => g.ptr = ofs /\ ~x.f.err /\ ~g.err /\ g.sect = 0
        /\ ~g.ok => g.err
        /\ x.f.sect = 0 => g.disk = x.f.disk /\ (~x.f.err => g.ok)
    BY SMTT(20), <2>1, f_lseekIs
  <2>3. y = Patched(x, h, ofs, val)
    BY <1>3 DEF patch32
  <2> HIDE DEF g
  <2>4. g \in Files /\ g.ptr <= g.size
    BY <1>1, <2>1, <2>2 DEF Buffered, Files, HdrSize
  <2>5. CASE ~g.ok
    <3> DEFINE b == TRUE
               a == [x.avi EXCEPT !.error = b]
               z == [x EXCEPT !.f = g, !.avi = a]
    <3>1. h = g
      BY <2>5 DEF FourBytes
    <3>2. y = z
      BY <2>3, <2>5, <3>1 DEF Patched
    <3>3. b \in BOOLEAN /\ b
      OBVIOUS
    <3> HIDE DEF b
    <3>4. /\ a \in Avis /\ a.error = b /\ a.frames = x.avi.frames /\ a.off = x.avi.off
          /\ a.movi_bytes = x.avi.movi_bytes /\ a.chunks = x.avi.chunks /\ a.idx = x.avi.idx
      BY <1>1, <3>3 DEF Avis
    <3> HIDE DEF a
    <3>5. z \in Muxes /\ z.f = g /\ z.avi = a
      BY <2>4, <3>4 DEF Muxes
    <3> HIDE DEF y, z
    <3>6. y.avi.error
      BY Zenon, <3>2, <3>3, <3>4, <3>5
    <3>7. Stuck(x.f, z.f)
      BY <2>2, <2>5, <3>5 DEF Stuck
    <3> QED BY <1>3, <2>2, <2>4, <2>5, <3>2, <3>4, <3>5, <3>6, <3>7 DEF SameCount, y
  <2>6. CASE g.ok
    <3> DEFINE w == [h EXCEPT !.hdr[ofs] = val]
               i == [g.hdr EXCEPT ![ofs] = val]
               z == [x EXCEPT !.f = w]
    <3>1. g.hdr = Saved(x.f).hdr /\ g.hdr \in [Fields -> Nat] /\ g.size >= HdrSize
      <4>1. Saved(g).hdr = g.hdr
        BY <2>2, <2>4, <2>6, SavedIs
      <4> QED BY <2>2, <4>1
    <3>2. h.ok /\ Rewrites(g, w, i)
      BY <2>1, <2>2, <2>6, <3>1, FourBytesIs
    <3>3. y = z
      BY <2>3, <3>2 DEF Patched
    <3> HIDE DEF h, w, y
    <3>4. w \in Files
      BY <3>2 DEF Rewrites, Buffered
    <3>5. z \in Muxes /\ z.f = w /\ z.avi = x.avi
      BY <3>4 DEF Muxes
    <3> HIDE DEF z
    <3>6. Rewrites(x.f, w, i)
      <4>1. x.f.disk \in Disks /\ Saved(x.f) \in Disks /\ w.disk \in Disks /\ g.disk \in Disks
        BY <1>1, <2>4, <3>4, SavedIs DEF Files
      <4>2. w.disk = g.disk
        BY <2>2, <2>6, <3>2 DEF Rewrites
      <4> QED BY <2>2, <3>2, <4>1, <4>2 DEF Rewrites, Grows
    <3> QED BY <1>3, <2>2, <3>1, <3>3, <3>5, <3>6 DEF SameCount, y, i
  <2> QED BY <2>5, <2>6
<1> QED BY <1>2, <1>3

(* The header can be patched. *)
Patchable(x) ==
  /\ x \in Muxes /\ Buffered(x.f) /\ x.f.size >= HdrSize /\ x.f.ptr <= x.f.size
  /\ Saved(x.f).hdr \in [Fields -> Nat]

(* The patches of x have made y of it, with header h, or have failed. *)
Patching(x, y, h) ==
  /\ y \in Muxes /\ SameCount(x, y) /\ y.avi.off = x.avi.off
  /\ y.avi.error => Buffered(y.f) /\ Grows(x.f, y.f) /\ y.f.ptr <= y.f.size
  /\ y.avi.error /\ ~x.avi.error => Stuck(x.f, y.f)
  /\ ~y.avi.error => ~x.avi.error /\ Patchable(y) /\ Rewrites(x.f, y.f, h)
  /\ x.f.sect = 0 /\ ~x.f.err /\ ~x.avi.error => ~y.avi.error

LEMMA PatchedOnce ==
  ASSUME NEW x, Patchable(x), NEW ofs \in Fields, NEW val \in Nat
  PROVE  LET y == patch32(x, ofs, val)
             h == [Saved(x.f).hdr EXCEPT ![ofs] = val]
         IN  Patching(x, y, h) /\ (x.avi.error => y = x) /\ h \in [Fields -> Nat]
<1> DEFINE y == patch32(x, ofs, val)
           h == [Saved(x.f).hdr EXCEPT ![ofs] = val]
<1>1. /\ y \in Muxes /\ SameCount(x, y) /\ y.avi.off = x.avi.off
      /\ x.avi.error => y = x
      /\ y.avi.error => Buffered(y.f) /\ Grows(x.f, y.f) /\ y.f.ptr <= y.f.size
      /\ y.avi.error /\ ~x.avi.error => Stuck(x.f, y.f)
      /\ ~y.avi.error => ~x.avi.error /\ Rewrites(x.f, y.f, h)
      /\ x.f.sect = 0 /\ ~x.f.err /\ ~x.avi.error => ~y.avi.error
  BY patch32Is DEF Patchable
<1>2. h \in [Fields -> Nat]
  BY DEF Patchable
<1> HIDE DEF y, h
<1>3. ~y.avi.error => Patchable(y)
  <2> SUFFICES ASSUME ~y.avi.error PROVE Patchable(y)
    OBVIOUS
  <2>1. y.f \in Files
    BY <1>1 DEF Muxes
  <2>2. Saved(y.f).hdr = h
    BY <1>1, <2>1, SavedIs DEF Rewrites
  <2> QED BY <1>1, <1>2, <2>2 DEF Patchable, Rewrites
<1> QED BY <1>1, <1>2, <1>3 DEF Patching, y, h

LEMMA PatchedAgain ==
  ASSUME NEW x, Patchable(x), NEW y, NEW h \in [Fields -> Nat], Patching(x, y, h),
         NEW ofs \in Fields, NEW val \in Nat
  PROVE  Patching(x, patch32(y, ofs, val), [h EXCEPT ![ofs] = val])
<1> DEFINE z == patch32(y, ofs, val)
           i == [h EXCEPT ![ofs] = val]
<1>1. CASE y.avi.error
  <2>1. z = y
    BY <1>1 DEF patch32
  <2> QED BY <1>1, <2>1 DEF Patching
<1>2. CASE ~y.avi.error
  <2>1. ~x.avi.error /\ Patchable(y) /\ Rewrites(x.f, y.f, h) /\ SameCount(x, y)
        /\ y.avi.off = x.avi.off
    BY <1>2 DEF Patching
  <2>2. Saved(y.f).hdr = h
    BY <2>1, SavedIs DEF Rewrites, Buffered
  <2>3. Patching(y, z, i)
    BY <2>1, <2>2, PatchedOnce
  <2>4. ~z.avi.error
    BY <1>2, <2>1, <2>3 DEF Patching, Rewrites
  <2>5. Rewrites(x.f, z.f, i)
    BY <2>1, <2>3, <2>4, RewritesTwice DEF Patching, Patchable
  <2> HIDE DEF z, i
  <2>6. Patching(x, z, i)
    BY <2>1, <2>3, <2>4, <2>5 DEF Patching, SameCount
  <2> QED BY <2>6 DEF z, i
<1> QED BY <1>1, <1>2

Sizes4(h, r, n, m) ==
  [[[[h EXCEPT ![OFF_RIFFSZ] = r] EXCEPT ![OFF_TOTALFRAMES] = n]
      EXCEPT ![OFF_STRH_LEN] = n] EXCEPT ![OFF_MOVISZ] = m]

LEMMA Sizes4Is ==
  ASSUME NEW h \in [Fields -> Nat], NEW r \in Nat, NEW n \in Nat, NEW m \in Nat
  PROVE  LET i == Sizes4(h, r, n, m)
         IN  /\ i \in [Fields -> Nat] /\ i[OFF_RIFFSZ] = r /\ i[OFF_TOTALFRAMES] = n
             /\ i[OFF_STRH_LEN] = n /\ i[OFF_MOVISZ] = m /\ i[OFF_FLAGS] = h[OFF_FLAGS]
BY FieldIs DEF Sizes4, FieldsAre, OFF_RIFFSZ, OFF_FLAGS, OFF_TOTALFRAMES, OFF_STRH_LEN, OFF_MOVISZ

LEMMA ResizedIs ==
  ASSUME NEW x, Patchable(x), NEW r \in Nat
  PROVE  Patching(x, Resized(x, r),
                  Sizes4(Saved(x.f).hdr, r, x.avi.frames, x.avi.movi_bytes + 4))
<1> DEFINE n == x.avi.frames
           m == x.avi.movi_bytes + 4
           h1 == [Saved(x.f).hdr EXCEPT ![OFF_RIFFSZ] = r]
           h2 == [h1 EXCEPT ![OFF_TOTALFRAMES] = n]
           h3 == [h2 EXCEPT ![OFF_STRH_LEN] = n]
           h4 == [h3 EXCEPT ![OFF_MOVISZ] = m]
           y1 == patch32(x, OFF_RIFFSZ, r)
           y2 == patch32(y1, OFF_TOTALFRAMES, n)
           y3 == patch32(y2, OFF_STRH_LEN, n)
           y4 == patch32(y3, OFF_MOVISZ, m)
<1>1. n \in Nat /\ m \in Nat
  BY DEF Patchable, Muxes, Avis
<1>2. Resized(x, r) = y4
  BY DEF Resized
<1>3. h4 = Sizes4(Saved(x.f).hdr, r, n, m)
  BY DEF Sizes4
<1> HIDE DEF n, m
<1>4. Patching(x, y1, h1) /\ h1 \in [Fields -> Nat]
  BY FieldIs, PatchedOnce
<1> HIDE DEF y1, h1
<1>5. Patching(x, y2, h2) /\ h2 \in [Fields -> Nat]
  BY <1>1, <1>4, FieldIs, PatchedAgain
<1> HIDE DEF y2, h2
<1>6. Patching(x, y3, h3) /\ h3 \in [Fields -> Nat]
  BY <1>1, <1>5, FieldIs, PatchedAgain
<1> HIDE DEF y3, h3
<1>7. Patching(x, y4, h4)
  BY <1>1, <1>6, FieldIs, PatchedAgain
<1> HIDE DEF y4, h4
<1> QED BY <1>2, <1>3, <1>7 DEF n, m

LEMMA BackIs ==
  ASSUME NEW x \in Muxes, ~x.avi.error, NEW g \in Files
  PROVE  LET y == Back(x, g)
         IN  /\ y \in Muxes /\ y.f = g /\ SameCount(x, y) /\ (y.avi.error <=> ~g.ok)
             /\ y.avi.off = x.avi.off
<1> DEFINE b == ~g.ok
           a == [x.avi EXCEPT !.error = b]
           y == Back(x, g)
<1>1. b \in BOOLEAN /\ x.avi \in Avis
  BY DEF Muxes, Files
<1>2. y = [x EXCEPT !.f = g, !.avi = a]
  BY DEF Back
<1>3. b <=> ~g.ok
  OBVIOUS
<1> HIDE DEF b, y
<1>4. /\ a \in Avis /\ a.error = b /\ a.frames = x.avi.frames /\ a.off = x.avi.off
      /\ a.movi_bytes = x.avi.movi_bytes /\ a.chunks = x.avi.chunks /\ a.idx = x.avi.idx
  BY <1>1 DEF Avis
<1> HIDE DEF a
<1>5. y \in Muxes /\ y.f = g /\ y.avi = a
  BY <1>2, <1>4 DEF Muxes
<1>6. y.avi.error <=> ~g.ok
  BY Zenon, <1>3, <1>4, <1>5
<1> QED BY <1>4, <1>5, <1>6 DEF SameCount, y

LEMMA PastTheHeader ==
  ASSUME NEW p \in Nat, p >= 224, p % 512 = 0
  PROVE  0 < p \div 512
OBVIOUS

(* Back at the end, more can be written there. *)
LEMMA ToEndIs ==
  ASSUME NEW y \in Muxes, ~y.avi.error, Buffered(y.f), y.f.ptr <= y.f.size,
         y.avi.off <= y.f.size, y.avi.off >= HdrSize, y.f.sect = 0,
         Saved(y.f).hdr \in [Fields -> Nat], OnCard(Saved(y.f), y.avi.off)
  PROVE  LET z == ToEnd(y)
         IN  /\ z \in Muxes /\ SameCount(y, z) /\ z.avi.off = y.avi.off
             /\ Buffered(z.f) /\ Grows(y.f, z.f) /\ z.f.ptr <= z.f.size
             /\ Saved(z.f) = Saved(y.f) /\ Going(z)
             /\ z.f.size = y.f.size /\ z.f.disk.size = y.f.disk.size
             /\ z.avi.error => z.f.err
<1> DEFINE ofs == y.avi.off
           g == f_lseek(y.f, ofs)
           z == ToEnd(y)
<1>1. ofs \in Nat
  BY DEF Muxes, Avis
<1>2. /\ Buffered(g) /\ Grows(y.f, g) /\ Saved(g) = Saved(y.f)
      /\ g.size = y.f.size /\ g.ptr \in {y.f.ptr, ofs}
      /\ g.disk.size = y.f.disk.size /\ (~g.ok => g.err)
      /\ g.ok => /\ g.ptr = ofs /\ ~g.err
                 /\ ofs % Sector # 0 => g.sect = ofs \div Sector
                 /\ ofs % Sector = 0 => g.sect = y.f.sect
  BY <1>1, f_lseekIs
<1>3. z = Back(y, g)
  BY DEF ToEnd, Back
<1> HIDE DEF g, z
<1>4. g \in Files /\ g.ptr <= g.size
  BY <1>2 DEF Buffered
<1>5. z \in Muxes /\ z.f = g /\ SameCount(y, z) /\ (z.avi.error <=> ~g.ok) /\ z.avi.off = ofs
  BY <1>3, <1>4, BackIs
<1>6. ofs % Sector = 0 => 0 < ofs \div Sector
  BY <1>1, PastTheHeader DEF Sector, HdrSize
<1>7. g.ok => Standing(g)
  BY <1>2, <1>4, <1>6 DEF Standing, InPlace
<1>8. Going(z)
  BY <1>2, <1>5, <1>7 DEF Going
<1> QED BY <1>2, <1>4, <1>5, <1>8 DEF z

(* The sizes are true of what the clip holds, and all of it is there. *)
ReadyFor(x, r) ==
  /\ Patchable(x) /\ ~x.avi.error /\ ~x.f.err
  /\ HeaderTrue(x.f.disk, x.avi.chunks)
  /\ x.f.sect # 0 => HeaderTrue(Saved(x.f), x.avi.chunks)
  /\ x.avi.frames = Len(x.avi.chunks)
  /\ x.avi.movi_bytes = ChunkBytes(x.avi.chunks, x.avi.frames)
  /\ x.avi.off = 8 + r /\ x.avi.off <= x.f.size /\ OnCard(Saved(x.f), x.avi.off)
  /\ r = HdrSize - 8 + x.avi.movi_bytes
           + (IF ClaimsIndex(Saved(x.f).hdr) THEN IndexBytes(x.avi.frames) ELSE 0)

LEMMA IndexBytesIs == \A n \in Nat : IndexBytes(n) \in Nat
BY AviSizes DEF IndexBytes

(* The header has become h or is as it was, and the pointer has moved. *)
Repatched(f, g, h) ==
  \E k : /\ k = f \/ Rewrites(f, k, h)
         /\ Buffered(g) /\ Grows(k, g)
         /\ g.size = f.size /\ g.disk.size = f.disk.size

LEMMA patch_headerIs ==
  ASSUME NEW x, NEW r \in Nat, ReadyFor(x, r)
  PROVE  LET z == patch_header(x, r)
             h == Sizes4(Saved(x.f).hdr, r, x.avi.frames, x.avi.movi_bytes + 4)
         IN  /\ MuxInv(z) /\ Going(z) /\ SameCount(x, z) /\ z.avi.off = x.avi.off
             /\ ~z.avi.error => Saved(z.f).hdr = h
             /\ Repatched(x.f, z.f, h) /\ (z.avi.error => z.f.err)
<1> DEFINE h == Sizes4(Saved(x.f).hdr, r, x.avi.frames, x.avi.movi_bytes + 4)
           y == Resized(x, r)
           z == patch_header(x, r)
           c == x.avi.chunks
<1>1. /\ x \in Muxes /\ Buffered(x.f) /\ x.f.size >= HdrSize /\ x.f.ptr <= x.f.size
      /\ Saved(x.f).hdr \in [Fields -> Nat] /\ ~x.f.err /\ ~x.avi.error
      /\ c \in Seq(Nat) /\ x.avi.frames \in Nat /\ x.avi.movi_bytes \in Nat
      /\ x.avi.off \in Nat /\ x.f.disk \in Disks /\ Saved(x.f) \in Disks /\ x.f.size \in Nat
  BY SavedIs DEF ReadyFor, Patchable, Muxes, Avis, Files
<1>2. Patching(x, y, h)
  BY ResizedIs DEF ReadyFor
<1>3. /\ h \in [Fields -> Nat] /\ h[OFF_RIFFSZ] = r /\ h[OFF_TOTALFRAMES] = x.avi.frames
      /\ h[OFF_STRH_LEN] = x.avi.frames /\ h[OFF_MOVISZ] = x.avi.movi_bytes + 4
      /\ h[OFF_FLAGS] = Saved(x.f).hdr[OFF_FLAGS]
  <2> DEFINE n == x.avi.frames
             m == x.avi.movi_bytes + 4
             s == Saved(x.f).hdr
  <2>1. n \in Nat /\ m \in Nat /\ s \in [Fields -> Nat]
    BY <1>1
  <2> HIDE DEF n, m, s
  <2>2. LET i == Sizes4(s, r, n, m)
        IN  /\ i \in [Fields -> Nat] /\ i[OFF_RIFFSZ] = r /\ i[OFF_TOTALFRAMES] = n
            /\ i[OFF_STRH_LEN] = n /\ i[OFF_MOVISZ] = m /\ i[OFF_FLAGS] = s[OFF_FLAGS]
    BY <2>1, Sizes4Is
  <2> QED BY <2>2 DEF n, m, s
<1>4. z = ToEnd(y)
  BY DEF patch_header
<1> HIDE DEF h, y, z
<1>5. y \in Muxes /\ SameCount(x, y) /\ y.avi.off = x.avi.off
  BY <1>2 DEF Patching
<1>6. CASE y.avi.error
  <2>1. z = y
    BY <1>4, <1>6 DEF ToEnd, Back
  <2>2. x.f.sect # 0 /\ Buffered(y.f) /\ Grows(x.f, y.f) /\ y.f.ptr <= y.f.size
    BY <1>1, <1>2, <1>6 DEF Patching
  <2>3. Truthful(y.f, c)
    BY <1>1, <2>2, TruthfulGrows DEF ReadyFor, Truthful
  <2>4. MuxInv(y) /\ Going(y)
    BY <1>5, <1>6, <2>2, <2>3 DEF MuxInv, Going, SameCount, ReadyFor
  <2>5. Repatched(x.f, y.f, h) /\ y.f.err
    BY <1>1, <1>2, <1>6, <2>2 DEF Patching, Repatched, Stuck
  <2> QED BY <1>5, <1>6, <2>1, <2>4, <2>5 DEF z, h
<1>7. CASE ~y.avi.error
  <2>1. Patchable(y) /\ Rewrites(x.f, y.f, h)
    BY <1>2, <1>7 DEF Patching
  <2>2. y.f \in Files /\ y.f.disk \in Disks /\ Saved(y.f) \in Disks /\ Saved(y.f).hdr = h
    BY <1>5, <2>1, SavedIs DEF Muxes, Files, Rewrites
  <2>3. OnCard(Saved(y.f), x.avi.off)
    <3>1. x.avi.off \in Int /\ OnCard(Saved(x.f), x.avi.off)
      BY <1>1 DEF ReadyFor
    <3> QED BY <1>1, <2>1, <2>2, <3>1, OnCardMore DEF Rewrites
  <2>4. HeaderTrue(Saved(y.f), c)
    <3> DEFINE n == x.avi.frames
    <3>1. n \in 0 .. Len(c) /\ x.avi.movi_bytes = ChunkBytes(c, n)
      BY <1>1 DEF ReadyFor
    <3>2. ClaimsIndex(h) <=> ClaimsIndex(Saved(x.f).hdr)
      BY <1>3 DEF ClaimsIndex
    <3>3. r = HdrSize - 8 + ChunkBytes(c, n) + (IF ClaimsIndex(h) THEN IndexBytes(n) ELSE 0)
      BY <3>1, <3>2 DEF ReadyFor
    <3>4. h[OFF_MOVISZ] = 4 + ChunkBytes(c, n)
      BY <1>1, <1>3, <3>1
    <3>5. Tells(h, c, n)
      BY <1>3, <3>1, <3>3, <3>4 DEF Tells
    <3>6. OnCard(Saved(y.f), 8 + h[OFF_RIFFSZ])
      BY <1>3, <2>3 DEF ReadyFor
    <3> QED BY <1>1, <1>3, <2>2, <3>5, <3>6, HeaderTrueIs
  <2>5. HeaderTrue(y.f.disk, c)
    <3>1. CASE x.f.sect = 0
      BY <2>1, <3>1 DEF Rewrites, ReadyFor
    <3>2. CASE x.f.sect # 0
      BY <1>1, <2>1, <2>2, <3>2, TrueOfMore DEF Rewrites, ReadyFor
    <3> QED BY <3>1, <3>2
  <2>6. MuxInv(y)
    BY <1>5, <2>1, <2>4, <2>5 DEF MuxInv, Truthful, SameCount, ReadyFor, Patchable
  <2>7. /\ z \in Muxes /\ SameCount(y, z) /\ z.avi.off = y.avi.off
        /\ Buffered(z.f) /\ Grows(y.f, z.f) /\ z.f.ptr <= z.f.size
        /\ Saved(z.f) = Saved(y.f) /\ Going(z)
        /\ z.f.size = y.f.size /\ z.f.disk.size = y.f.disk.size
        /\ z.avi.error => z.f.err
    <3>1. /\ y.avi.off <= y.f.size /\ y.avi.off >= HdrSize /\ y.f.sect = 0
          /\ OnCard(Saved(y.f), y.avi.off)
      <4>1. x.avi.off >= HdrSize
        <5>1. ReadyFor(x, r)
          OBVIOUS
        <5>2. (IF ClaimsIndex(Saved(x.f).hdr) THEN IndexBytes(x.avi.frames) ELSE 0) \in Nat
          BY <1>1, IndexBytesIs
        <5> QED BY <1>1, <5>1, <5>2 DEF ReadyFor, HdrSize
      <4> QED BY <1>5, <2>1, <2>3, <4>1 DEF Rewrites, ReadyFor
    <3> QED BY <1>4, <1>5, <1>7, <2>1, <3>1, ToEndIs DEF Patchable
  <2>8. MuxInv(z)
    BY <2>6, <2>7, MuxGrows
  <2>9. SameCount(x, z)
    BY <1>5, <2>7 DEF SameCount
  <2>10. Repatched(x.f, z.f, h)
    BY <2>1, <2>7 DEF Repatched, Rewrites
  <2> QED BY <1>5, <2>2, <2>7, <2>8, <2>9, <2>10 DEF z, h
<1> QED BY <1>6, <1>7

LEMMA ReadyToRefresh ==
  ASSUME NEW x, Recording(x), ~x.avi.error
  PROVE  HdrSize - 8 + x.avi.movi_bytes \in Nat
         /\ ReadyFor(x, HdrSize - 8 + x.avi.movi_bytes)
<1> DEFINE r == HdrSize - 8 + x.avi.movi_bytes
<1>1. /\ MuxInv(x) /\ Standing(x.f) /\ x.f.ptr = x.avi.off /\ x.avi.off >= HdrSize
      /\ Saved(x.f).hdr \in [Fields -> Nat]
      /\ x.avi.off = HdrSize + x.avi.movi_bytes /\ Saved(x.f).hdr[OFF_FLAGS] = 0
  BY DEF Recording, Going
<1>2. /\ x \in Muxes /\ Buffered(x.f) /\ x.f.ptr <= x.f.size /\ ~x.f.err
      /\ OnCard(Saved(x.f), x.f.ptr) /\ x.avi.movi_bytes \in Nat /\ x.avi.off \in Nat
      /\ x.f.size \in Nat
  BY <1>1 DEF MuxInv, Muxes, Avis, Files, Standing
<1>3. r \in Nat /\ x.avi.off = 8 + r
  BY <1>1, <1>2 DEF HdrSize
<1>4. Patchable(x)
  BY <1>1, <1>2 DEF Patchable, HdrSize
<1>5. ~ClaimsIndex(Saved(x.f).hdr)
  BY <1>1 DEF ClaimsIndex, HasIndex
<1>6. r + 0 = r
  BY <1>3
<1> HIDE DEF r
<1>7. r = HdrSize - 8 + x.avi.movi_bytes
           + (IF ClaimsIndex(Saved(x.f).hdr) THEN IndexBytes(x.avi.frames) ELSE 0)
  BY <1>2, <1>5, <1>6 DEF r, HdrSize
<1>8. ReadyFor(x, r)
  BY <1>1, <1>2, <1>3, <1>4, <1>7 DEF ReadyFor, MuxInv, Truthful
<1> QED BY <1>3, <1>8 DEF r

LEMMA avi_refreshIs ==
  ASSUME NEW x, Recording(x), IndexInv(x.avi)
  PROVE  LET y == avi_refresh_header(x)
         IN  /\ Recording(y) /\ IndexInv(y.avi) /\ SameCount(x, y)
             /\ ~y.avi.error => /\ ~x.avi.error
                                /\ Saved(y.f).hdr[OFF_TOTALFRAMES] = x.avi.frames
<1> DEFINE y == avi_refresh_header(x)
           r == HdrSize - 8 + x.avi.movi_bytes
           h == Sizes4(Saved(x.f).hdr, r, x.avi.frames, x.avi.movi_bytes + 4)
<1>1. CASE x.avi.error
  BY <1>1 DEF avi_refresh_header, SameCount
<1>2. CASE ~x.avi.error
  <2>1. r \in Nat /\ ReadyFor(x, r)
    BY <1>2, ReadyToRefresh
  <2>2. /\ Saved(x.f).hdr \in [Fields -> Nat] /\ x.avi.frames \in Nat /\ x.avi.movi_bytes \in Nat
        /\ x.avi.off = HdrSize + x.avi.movi_bytes /\ Saved(x.f).hdr[OFF_FLAGS] = 0
        /\ x.avi.movi_bytes + 4 \in Nat
    BY <1>2 DEF Recording, Going, MuxInv, Muxes, Avis
  <2>3. y = patch_header(x, r)
    BY <1>2 DEF avi_refresh_header
  <2> HIDE DEF r
  <2>4. h[OFF_TOTALFRAMES] = x.avi.frames /\ h[OFF_FLAGS] = 0
    <3> DEFINE n == x.avi.frames
               m == x.avi.movi_bytes + 4
               s == Saved(x.f).hdr
    <3>1. n \in Nat /\ m \in Nat /\ s \in [Fields -> Nat]
      BY <2>2
    <3> HIDE DEF n, m, s
    <3>2. LET i == Sizes4(s, r, n, m)
          IN  i[OFF_TOTALFRAMES] = n /\ i[OFF_FLAGS] = s[OFF_FLAGS]
      BY SMTT(20), <2>1, <3>1, Sizes4Is
    <3> QED BY <2>2, <3>2 DEF n, m, s
  <2>5. /\ MuxInv(y) /\ Going(y) /\ SameCount(x, y) /\ y.avi.off = x.avi.off
        /\ ~y.avi.error => Saved(y.f).hdr = h
    BY <2>1, <2>3, patch_headerIs
  <2> HIDE DEF y, h
  <2>6. Recording(y)
    BY <2>2, <2>4, <2>5 DEF Recording, SameCount
  <2>7. IndexInv(y.avi)
    BY <1>2, <2>5 DEF SameCount, IndexInv, IndexTrue, Staged
  <2> QED BY <1>2, <2>4, <2>5, <2>6, <2>7 DEF y
<1> QED BY <1>1, <1>2

(* The header on the card counts n frames, and the file is long enough. *)
Whole(x, n) ==
  /\ x.f.disk.hdr \in [Fields -> Nat]
  /\ x.f.disk.hdr[OFF_TOTALFRAMES] = n
  /\ 8 + x.f.disk.hdr[OFF_RIFFSZ] <= x.f.disk.size
  /\ 8 + x.f.disk.hdr[OFF_RIFFSZ] <= x.f.ptr
  /\ Saved(x.f).hdr = x.f.disk.hdr

(* The index has been written: nothing claims it yet. *)
LEMMA IndexedIs ==
  ASSUME NEW x, Recording(x)
  PROVE  LET y == Indexed(x)
         IN  /\ MuxInv(y) /\ Going(y) /\ SameCount(x, y)
             /\ ~y.avi.error => /\ ~x.avi.error
                                /\ y.avi.off = x.avi.off + IndexBytes(x.avi.frames)
<1> DEFINE k == IdxBytes(x.avi)
           e == 8
           a == wr(x, e)
           b == wr(a, k)
           y == Indexed(x)
<1>1. MuxInv(x) /\ Going(x) /\ x.avi.frames \in Nat /\ x.avi.off \in Nat
  BY DEF Recording, MuxInv, Muxes, Avis
<1>2. k \in Nat /\ IndexBytes(x.avi.frames) = e + k /\ e \in Nat \ {0} /\ e = 8
  BY <1>1, AviSizes DEF IdxBytes, IndexBytes
<1>3. y = IF IdxBytes(a.avi) = 0 THEN a ELSE wr(a, IdxBytes(a.avi))
  BY DEF Indexed, Entries
<1> HIDE DEF e
<1>4. /\ MuxInv(a) /\ Going(a) /\ SameCount(x, a) /\ (x.avi.error => a.avi.error)
      /\ ~a.avi.error => a.avi.off = x.avi.off + e
  BY <1>1, <1>2, wrIs
<1>5. IdxBytes(a.avi) = k
  BY <1>4 DEF IdxBytes, SameCount
<1> HIDE DEF a, k, y
<1>6. CASE k = 0
  <2>1. y = a /\ IndexBytes(x.avi.frames) = e
    BY <1>2, <1>3, <1>5, <1>6
  <2> QED BY <1>4, <2>1 DEF y
<1>7. CASE k # 0
  <2>1. k \in Nat \ {0} /\ y = b
    BY <1>2, <1>3, <1>5, <1>7
  <2>2. /\ MuxInv(b) /\ Going(b) /\ SameCount(a, b) /\ (a.avi.error => b.avi.error)
        /\ ~b.avi.error => b.avi.off = a.avi.off + k
    BY <1>4, <2>1, wrIs
  <2> HIDE DEF b
  <2>3. ~b.avi.error => b.avi.off = x.avi.off + IndexBytes(x.avi.frames)
    BY <1>1, <1>2, <1>4, <2>2
  <2> QED BY <1>4, <2>1, <2>2, <2>3 DEF SameCount, y
<1> QED BY <1>6, <1>7

(* With the flag in the buffer's header, the sizes with the index are true. *)
LEMMA ReadyToClaim ==
  ASSUME NEW x, MuxInv(x), Going(x), ~x.avi.error,
         x.avi.off = HdrSize + x.avi.movi_bytes + IndexBytes(x.avi.frames),
         ~Flagged(x).avi.error
  PROVE  LET y == Flagged(x)
             r == HdrSize - 8 + x.avi.movi_bytes + 8 + IdxBytes(x.avi)
         IN  /\ ReadyFor(y, r) /\ r \in Nat /\ SameCount(x, y) /\ y.avi.off = x.avi.off
             /\ ClaimsIndex(Saved(y.f).hdr)
<1> DEFINE y == Flagged(x)
           r == HdrSize - 8 + x.avi.movi_bytes + 8 + IdxBytes(x.avi)
           n == HasIndex
           h == [Saved(x.f).hdr EXCEPT ![OFF_FLAGS] = n]
<1>1. /\ Standing(x.f) /\ x.f.ptr = x.avi.off /\ x.avi.off >= HdrSize
      /\ Saved(x.f).hdr \in [Fields -> Nat]
  BY DEF Going
<1>2. /\ x \in Muxes /\ Buffered(x.f) /\ x.f.ptr <= x.f.size /\ ~x.f.err
      /\ OnCard(Saved(x.f), x.avi.off) /\ x.avi.movi_bytes \in Nat /\ x.avi.off \in Nat
      /\ x.f.size \in Nat /\ x.avi.frames \in Nat /\ x.avi.chunks \in Seq(Nat)
      /\ x.f.disk \in Disks /\ Saved(x.f) \in Disks
  BY <1>1, SavedIs DEF MuxInv, Muxes, Avis, Files, Standing
<1>3. Patchable(x)
  BY <1>1, <1>2 DEF Patchable, HdrSize
<1>4. n \in Nat /\ n = HasIndex
  BY DEF HasIndex
<1>5. y = patch32(x, OFF_FLAGS, n)
  BY DEF Flagged
<1> HIDE DEF n
<1>6. Patching(x, y, h) /\ h \in [Fields -> Nat]
  BY <1>3, <1>4, <1>5, FieldIs, PatchedOnce
<1>7. h[OFF_FLAGS] = HasIndex
  BY <1>1, <1>4, FieldIs
<1> HIDE DEF y, h
<1>8. /\ y \in Muxes /\ SameCount(x, y) /\ y.avi.off = x.avi.off /\ ~y.avi.error
      /\ Patchable(y) /\ Rewrites(x.f, y.f, h)
  BY <1>6 DEF Patching, y
<1>9. y.f \in Files /\ y.f.disk \in Disks /\ Saved(y.f) \in Disks /\ Saved(y.f).hdr = h
  BY <1>8, SavedIs DEF Muxes, Files, Rewrites
<1>10. ClaimsIndex(h)
  BY <1>7 DEF ClaimsIndex
<1>11. /\ r \in Nat /\ x.avi.off = 8 + r
       /\ r = HdrSize - 8 + x.avi.movi_bytes + IndexBytes(x.avi.frames)
  <2> DEFINE k == IF x.avi.frames < IdxCap THEN x.avi.frames ELSE IdxCap
  <2>1. k \in Nat /\ IdxBytes(x.avi) = 16 * k /\ IndexBytes(x.avi.frames) = 8 + 16 * k
    BY <1>2, AviSizes DEF IdxBytes, IndexBytes
  <2> DEFINE m == x.avi.movi_bytes
             o == x.avi.off
  <2>2. m \in Nat /\ o \in Nat /\ o = 224 + m + (8 + 16 * k)
    BY <1>2, <2>1 DEF HdrSize
  <2>3. r = 224 - 8 + m + 8 + 16 * k
    BY <2>1 DEF HdrSize
  <2> HIDE DEF k, m, o, r
  <2>4. r \in Nat /\ o = 8 + r /\ r = 224 - 8 + m + (8 + 16 * k)
    BY <2>1, <2>2, <2>3
  <2> QED BY <2>1, <2>4 DEF m, o, HdrSize
<1>12. OnCard(Saved(y.f), y.avi.off)
  <2>1. x.avi.off \in Int
    BY <1>2
  <2>2. OnCard(Saved(y.f), x.avi.off)
    BY <1>2, <1>8, <1>9, <2>1, OnCardMore DEF Rewrites
  <2> QED BY <1>8, <2>2
<1>13. HeaderTrue(y.f.disk, x.avi.chunks)
  <2>1. HeaderTrue(x.f.disk, x.avi.chunks) /\ HeaderTrue(Saved(x.f), x.avi.chunks)
    BY DEF MuxInv, Truthful
  <2> QED BY <1>2, <1>8, <1>9, <2>1, TrueOfMore DEF Rewrites
<1>14. y.avi.off <= y.f.size
  BY <1>1, <1>2, <1>8 DEF Rewrites
<1> HIDE DEF r
<1>15. ReadyFor(y, r)
  BY <1>8, <1>9, <1>10, <1>11, <1>12, <1>13, <1>14 DEF ReadyFor, SameCount, MuxInv, Rewrites
<1> QED BY <1>8, <1>9, <1>10, <1>11, <1>15 DEF y, r

LEMMA SyncedIs ==
  ASSUME NEW x, MuxInv(x), Going(x)
  PROVE  LET y == Synced(x)
         IN  /\ MuxInv(y) /\ SameCount(x, y)
             /\ ~y.avi.error /\ Saved(x.f).hdr[OFF_TOTALFRAMES] = x.avi.frames
                  /\ 8 + Saved(x.f).hdr[OFF_RIFFSZ] = x.avi.off
                => Whole(y, x.avi.frames)
<1> DEFINE y == Synced(x)
           g == f_sync(x.f)
<1>1. x \in Muxes /\ Buffered(x.f) /\ x.f.ptr <= x.f.size
  BY DEF MuxInv
<1>2. CASE x.avi.error
  <2>1. y = x
    BY <1>2 DEF Synced
  <2> HIDE DEF y
  <2> QED BY <1>2, <2>1 DEF SameCount, y
<1>3. CASE ~x.avi.error
  <2>1. /\ Buffered(g) /\ Grows(x.f, g) /\ g.ptr = x.f.ptr /\ g.size = x.f.size
        /\ Saved(g).hdr = Saved(x.f).hdr
        /\ g.ok => g.disk.size = x.f.size /\ g.disk.hdr = Saved(x.f).hdr
    BY <1>1, f_syncIs
  <2>2. y = Back(x, g)
    BY <1>3 DEF Synced
  <2> HIDE DEF y, g
  <2>3. g \in Files
    BY <2>1 DEF Buffered
  <2>4. y \in Muxes /\ y.f = g /\ SameCount(x, y) /\ (y.avi.error <=> ~g.ok)
    BY <1>1, <1>3, <2>2, <2>3, BackIs
  <2>5. MuxInv(y)
    BY <1>1, <2>1, <2>4, MuxGrows
  <2>6. ASSUME ~y.avi.error, Saved(x.f).hdr[OFF_TOTALFRAMES] = x.avi.frames,
               8 + Saved(x.f).hdr[OFF_RIFFSZ] = x.avi.off
        PROVE  Whole(y, x.avi.frames)
    <3>1. x.f.ptr = x.avi.off /\ Saved(x.f).hdr \in [Fields -> Nat]
      BY <1>3 DEF Going
    <3>2. x.f.ptr \in Nat /\ x.f.size \in Nat
      BY <1>1 DEF Muxes, Files
    <3> QED BY <1>1, <2>1, <2>4, <2>6, <3>1, <3>2 DEF Whole
  <2> QED BY <2>4, <2>5, <2>6 DEF y
<1> QED BY <1>2, <1>3

LEMMA avi_finalizeIs ==
  ASSUME NEW x, Recording(x)
  PROVE  LET y == avi_finalize(x)
         IN  MuxInv(y) /\ SameCount(x, y) /\ (~y.avi.error => Whole(y, x.avi.frames))
<1> DEFINE a == Indexed(x)
           b == Flagged(a)
           c == Sized(b)
           y == avi_finalize(x)
<1>1. MuxInv(x)
  BY DEF Recording
<1>2. CASE x.avi.error
  <2>1. y = x
    BY <1>2 DEF avi_finalize
  <2> HIDE DEF y
  <2> QED BY <1>1, <1>2, <2>1 DEF SameCount, y
<1>3. CASE ~x.avi.error
  <2>1. y = Synced(c)
    BY <1>3 DEF avi_finalize
  <2>2. /\ MuxInv(a) /\ Going(a) /\ SameCount(x, a)
        /\ ~a.avi.error => a.avi.off = x.avi.off + IndexBytes(x.avi.frames)
    BY IndexedIs
  <2> HIDE DEF a, y
  <2>3. MuxInv(c) /\ Going(c) /\ SameCount(x, c)
        /\ (~c.avi.error => /\ Saved(c.f).hdr[OFF_TOTALFRAMES] = x.avi.frames
                            /\ 8 + Saved(c.f).hdr[OFF_RIFFSZ] = c.avi.off)
    <3>1. CASE a.avi.error
      <4>1. c = a
        BY <3>1 DEF Flagged, patch32, Sized
      <4> HIDE DEF c
      <4> QED BY <2>2, <3>1, <4>1
    <3>2. CASE ~a.avi.error /\ b.avi.error
      <4>1. Patchable(a)
        <5>1. /\ Standing(a.f) /\ a.f.ptr = a.avi.off /\ a.avi.off >= HdrSize
              /\ Saved(a.f).hdr \in [Fields -> Nat] /\ a \in Muxes /\ a.f.ptr <= a.f.size
          BY <2>2, <3>2 DEF Going, MuxInv
        <5>2. a.f.ptr \in Nat /\ a.f.size \in Nat
          BY <5>1 DEF Muxes, Files
        <5> QED BY <2>2, <5>1, <5>2 DEF Patchable, MuxInv, HdrSize
      <4>2. Patching(a, b, [Saved(a.f).hdr EXCEPT ![OFF_FLAGS] = HasIndex])
        <5> DEFINE n == HasIndex
        <5>1. n \in Nat
          BY DEF HasIndex
        <5>2. b = patch32(a, OFF_FLAGS, n)
          BY DEF Flagged
        <5> HIDE DEF b, n
        <5>3. Patching(a, b, [Saved(a.f).hdr EXCEPT ![OFF_FLAGS] = n])
          BY <4>1, <5>1, <5>2, FieldIs, PatchedOnce
        <5> QED BY <5>3 DEF n
      <4>3. c = b
        BY <3>2 DEF Sized
      <4> HIDE DEF b, c
      <4>4. MuxInv(b) /\ SameCount(a, b)
        BY <2>2, <3>2, <4>2, MuxGrows DEF Patching
      <4> QED BY <2>2, <3>2, <4>3, <4>4 DEF Going, SameCount
    <3>3. CASE ~a.avi.error /\ ~b.avi.error
      <4> DEFINE r == HdrSize - 8 + a.avi.movi_bytes + 8 + IdxBytes(a.avi)
                 h == Sizes4(Saved(b.f).hdr, r, b.avi.frames, b.avi.movi_bytes + 4)
      <4>1. a.avi.off = HdrSize + a.avi.movi_bytes + IndexBytes(a.avi.frames)
        <5>1. x.avi.off = HdrSize + x.avi.movi_bytes
          BY <1>3 DEF Recording
        <5> QED BY <2>2, <3>3, <5>1 DEF SameCount
      <4>2. /\ ReadyFor(b, r) /\ r \in Nat /\ SameCount(a, b) /\ b.avi.off = a.avi.off
        BY <2>2, <3>3, <4>1, ReadyToClaim
      <4>3. c = patch_header(b, r)
        BY <3>3, <4>2 DEF Sized, SameCount, IdxBytes
      <4> HIDE DEF b, c, r
      <4>4. /\ MuxInv(c) /\ Going(c) /\ SameCount(b, c) /\ c.avi.off = b.avi.off
            /\ ~c.avi.error => Saved(c.f).hdr = h
        BY <4>2, <4>3, patch_headerIs
      <4>5. h[OFF_TOTALFRAMES] = b.avi.frames /\ h[OFF_RIFFSZ] = r
        <5> DEFINE n == b.avi.frames
                   m == b.avi.movi_bytes + 4
                   s == Saved(b.f).hdr
        <5>0. r \in Nat
          BY <4>2
        <5>1. n \in Nat /\ m \in Nat /\ s \in [Fields -> Nat]
          BY <4>2 DEF ReadyFor, Patchable, Muxes, Avis
        <5> HIDE DEF n, m, s
        <5>2. LET i == Sizes4(s, r, n, m)
              IN  i[OFF_TOTALFRAMES] = n /\ i[OFF_RIFFSZ] = r
          BY <5>0, <5>1, Sizes4Is
        <5> QED BY <5>2 DEF n, m, s
      <4>6. b.avi.off = 8 + r
        BY <4>2 DEF ReadyFor
      <4> HIDE DEF h
      <4> QED BY <2>2, <4>2, <4>4, <4>5, <4>6 DEF SameCount
    <3> QED BY <3>1, <3>2, <3>3
  <2> HIDE DEF c
  <2>4. /\ MuxInv(y) /\ SameCount(c, y)
        /\ ~y.avi.error /\ Saved(c.f).hdr[OFF_TOTALFRAMES] = c.avi.frames
             /\ 8 + Saved(c.f).hdr[OFF_RIFFSZ] = c.avi.off
           => Whole(y, c.avi.frames)
    BY <2>1, <2>3, SyncedIs
  <2>5. c.avi.error => y.avi.error
    BY <2>1 DEF Synced
  <2> QED BY <2>3, <2>4, <2>5 DEF SameCount, y
<1> QED BY <1>2, <1>3

(* f_truncate and f_close, whatever avi_finalize came to. *)
LEMMA CloseFileIs ==
  ASSUME NEW x, MuxInv(x)
  PROVE  LET y == CloseFile(x)
         IN  /\ MuxInv(y) /\ y.avi = x.avi
             /\ \A n \in Nat : Whole(x, n) => Whole(y, n)
<1> DEFINE t == f_truncate(x.f)
           g == f_close(t)
           y == CloseFile(x)
<1>1. x \in Muxes /\ Buffered(x.f) /\ x.f.ptr <= x.f.size
  BY DEF MuxInv
<1>2. /\ Buffered(t) /\ Grows(x.f, t) /\ Saved(t) = Saved(x.f)
      /\ t.disk.size = x.f.disk.size /\ t.ptr = x.f.ptr /\ t.ptr <= t.size
  BY <1>1, f_truncateIs
<1> HIDE DEF t
<1>3. /\ Buffered(g) /\ Grows(t, g) /\ g.ptr = t.ptr /\ g.size = t.size
      /\ g.disk.size \in {t.disk.size, t.size} /\ Saved(g).hdr = Saved(t).hdr
  BY <1>2, f_syncIs DEF f_close
<1>4. y = [x EXCEPT !.f = g]
  BY DEF CloseFile, t
<1> HIDE DEF g, y
<1>5. Grows(x.f, g) /\ g \in Files
  BY <1>1, <1>2, <1>3, GrowsTrans DEF Buffered
<1>6. y \in Muxes /\ y.f = g /\ y.avi = x.avi
  BY <1>1, <1>4, <1>5 DEF Muxes
<1>7. MuxInv(y)
  BY <1>2, <1>3, <1>5, <1>6, MuxGrows DEF SameCount
<1>8. ASSUME NEW n \in Nat, Whole(x, n) PROVE Whole(y, n)
  <2>1. g.disk.hdr = x.f.disk.hdr
    BY <1>5, <1>8 DEF Whole, Grows, More
  <2>2. t.ptr \in Nat /\ t.size \in Nat /\ x.f.disk.size \in Nat
    BY <1>1, <1>2 DEF Buffered, Files, Muxes, Disks
  <2>3. 8 + x.f.disk.hdr[OFF_RIFFSZ] \in Nat
    BY <1>8, FieldIs DEF Whole
  <2>4. 8 + x.f.disk.hdr[OFF_RIFFSZ] <= g.disk.size
    <3> DEFINE k == 8 + x.f.disk.hdr[OFF_RIFFSZ]
    <3>1. k <= t.ptr /\ k <= x.f.disk.size /\ k \in Nat
      BY <1>2, <1>8, <2>3 DEF Whole
    <3> HIDE DEF k
    <3>2. k <= g.disk.size
      BY <1>2, <1>3, <2>2, <3>1
    <3> QED BY <3>2 DEF k
  <2> QED BY <1>2, <1>3, <1>6, <1>8, <2>1, <2>4 DEF Whole
<1> QED BY <1>6, <1>7, <1>8 DEF y

(* More chunks, more bytes. *)
LEMMA BytesGrow ==
  ASSUME NEW c \in Seq(Nat), NEW m \in 0 .. Len(c), NEW n \in 0 .. Len(c), m <= n
  PROVE  ChunkBytes(c, m) <= ChunkBytes(c, n)
<1> DEFINE T == {k \in 0 .. Len(c) : m <= k /\ ~(ChunkBytes(c, m) <= ChunkBytes(c, k))}
<1>1. Len(c) \in Nat
  OBVIOUS
<1> SUFFICES ASSUME T # {} PROVE FALSE
  OBVIOUS
<1>2. T \subseteq Nat
  BY <1>1
<1>3. PICK x \in T : \A y \in T : x <= y
  <2> HIDE DEF T
  <2> QED BY <1>2, LowestExists
<1>4. x \in 0 .. Len(c) /\ m <= x /\ ~(ChunkBytes(c, m) <= ChunkBytes(c, x))
  BY <1>3
<1>5. x \in Nat /\ m \in Nat /\ ChunkBytes(c, m) \in Nat /\ ChunkBytes(c, x) \in Nat
  BY <1>1, <1>4, ChunkBytesIs
<1>6. x # m
  BY <1>4, <1>5
<1>7. x - 1 \in 0 .. Len(c) /\ m <= x - 1 /\ ~(x <= x - 1) /\ x \in 1 .. Len(c)
  BY <1>1, <1>4, <1>5, <1>6
<1>8. ChunkBytes(c, m) <= ChunkBytes(c, x - 1)
  BY <1>3, <1>7
<1>9. /\ ChunkBytes(c, x) = ChunkBytes(c, x - 1) + avi_chunk_total(c[x])
      /\ ChunkBytes(c, x - 1) \in Nat
  BY <1>7, ChunkBytesIs
<1>10. avi_chunk_total(c[x]) \in Nat
  <2>1. c[x] \in Nat
    BY <1>7
  <2> QED BY <2>1, TotalIs
<1> QED BY <1>4, <1>5, <1>8, <1>9, <1>10

Pictures(c, n) == {i \in 1 .. n : c[i] > 0}

LEMMA PicturesFinite ==
  ASSUME NEW c, NEW n \in Nat
  PROVE  IsFiniteSet(Pictures(c, n)) /\ Cardinality(Pictures(c, n)) \in Nat
<1>1. IsFiniteSet(1 .. n)
  BY FS_Interval
<1>2. Pictures(c, n) \subseteq 1 .. n
  BY DEF Pictures
<1>3. IsFiniteSet(Pictures(c, n))
  BY <1>1, <1>2, FS_Subset
<1> QED BY <1>3, FS_CardinalityType

LEMMA PictureTotal ==
  ASSUME NEW n \in Nat, n > 0
  PROVE  avi_chunk_total(n) >= 12
BY DEF avi_chunk_total, pad4

(* A picture takes a dozen bytes at the least. *)
LEMMA PicturesWeigh ==
  ASSUME NEW c \in Seq(Nat), NEW n \in 0 .. Len(c)
  PROVE  12 * Cardinality(Pictures(c, n)) <= ChunkBytes(c, n)
<1> DEFINE T == {k \in 0 .. Len(c) : ~(12 * Cardinality(Pictures(c, k)) <= ChunkBytes(c, k))}
<1>1. Len(c) \in Nat
  OBVIOUS
<1> SUFFICES ASSUME T # {} PROVE FALSE
  OBVIOUS
<1>2. T \subseteq Nat
  BY <1>1
<1>3. PICK x \in T : \A y \in T : x <= y
  <2> HIDE DEF T
  <2> QED BY <1>2, LowestExists
<1>4. x \in 0 .. Len(c) /\ ~(12 * Cardinality(Pictures(c, x)) <= ChunkBytes(c, x)) /\ x \in Nat
  BY <1>1, <1>3
<1>5. x # 0
  <2>1. Pictures(c, 0) = {}
    BY DEF Pictures
  <2>2. Cardinality(Pictures(c, 0)) = 0
    BY <2>1, FS_EmptySet
  <2> QED BY <1>4, <2>2, ChunkBytesIs
<1>6. x - 1 \in 0 .. Len(c) /\ ~(x <= x - 1) /\ x \in 1 .. Len(c) /\ x - 1 \in Nat
  BY <1>1, <1>4, <1>5
<1>7. 12 * Cardinality(Pictures(c, x - 1)) <= ChunkBytes(c, x - 1)
  BY <1>3, <1>6
<1>8. /\ ChunkBytes(c, x) = ChunkBytes(c, x - 1) + avi_chunk_total(c[x])
      /\ ChunkBytes(c, x - 1) \in Nat
  BY <1>6, ChunkBytesIs
<1>9. c[x] \in Nat /\ avi_chunk_total(c[x]) \in Nat
  <2>1. c[x] \in Nat
    BY <1>6
  <2> QED BY <2>1, TotalIs
<1>10. IsFiniteSet(Pictures(c, x - 1)) /\ Cardinality(Pictures(c, x - 1)) \in Nat
  BY <1>6, PicturesFinite
<1>11. CASE c[x] = 0
  <2>1. Pictures(c, x) = Pictures(c, x - 1)
    <3>1. \A i : i \in 1 .. x <=> i \in 1 .. x - 1 \/ i = x
      BY <1>6
    <3>2. ~(c[x] > 0)
      BY <1>11
    <3> QED BY <3>1, <3>2 DEF Pictures
  <2> QED BY <1>4, <1>7, <1>8, <1>9, <1>10, <2>1
<1>12. CASE c[x] > 0
  <2>1. Pictures(c, x) = Pictures(c, x - 1) \cup {x} /\ x \notin Pictures(c, x - 1)
    <3>1. \A i : i \in 1 .. x <=> i \in 1 .. x - 1 \/ i = x
      BY <1>6
    <3>2. x \notin 1 .. x - 1
      BY <1>6
    <3> QED BY <1>12, <3>1, <3>2 DEF Pictures
  <2>2. Cardinality(Pictures(c, x)) = Cardinality(Pictures(c, x - 1)) + 1
    BY <1>10, <2>1, FS_AddElement
  <2>3. avi_chunk_total(c[x]) >= 12
    BY <1>9, <1>12, PictureTotal
  <2> QED BY <1>4, <1>7, <1>8, <1>9, <1>10, <2>2, <2>3
<1> QED BY <1>9, <1>11, <1>12

(* The readable part of a clip whose header tells the truth. *)
LEMMA ReadableIs ==
  ASSUME NEW d \in Disks, NEW chunks \in Seq(Nat), HeaderTrue(d, chunks)
  PROVE  /\ Readable(d, chunks) \in Nat
         /\ d.hdr = NoHeader => Readable(d, chunks) = 0
         /\ d.hdr # NoHeader =>
              LET n == d.hdr[OFF_TOTALFRAMES]
              IN  /\ n \in 0 .. Len(chunks) /\ Readable(d, chunks) <= n
                  /\ HdrSize + ChunkBytes(chunks, n) <= d.size => Readable(d, chunks) = n
<1>1. CASE d.hdr = NoHeader
  BY <1>1 DEF Readable
<1>2. CASE d.hdr # NoHeader
  <2> DEFINE n == d.hdr[OFF_TOTALFRAMES]
             S == {m \in 1 .. n : HdrSize + ChunkBytes(chunks, m) <= d.size}
  <2>1. Tells(d.hdr, chunks, n)
    BY <1>2, HeaderTrueIs
  <2>2. n \in 0 .. Len(chunks) /\ n \in Nat /\ Len(chunks) \in Nat
    BY <2>1 DEF Tells
  <2>3. Readable(d, chunks) = Cardinality(S)
    BY <1>2 DEF Readable
  <2> HIDE DEF n
  <2>4. IsFiniteSet(1 .. n) /\ Cardinality(1 .. n) = n
    BY <2>2, FS_Interval
  <2>5. S \subseteq 1 .. n
    OBVIOUS
  <2>6. IsFiniteSet(S) /\ Cardinality(S) <= n /\ Cardinality(S) \in Nat
    <3> HIDE DEF S
    <3> QED BY <2>4, <2>5, FS_Subset, FS_CardinalityType
  <2>7. ASSUME HdrSize + ChunkBytes(chunks, n) <= d.size PROVE Cardinality(S) = n
    <3>1. ASSUME NEW m \in 1 .. n PROVE HdrSize + ChunkBytes(chunks, m) <= d.size
      <4>1. m \in 0 .. Len(chunks) /\ m <= n
        BY <2>2
      <4>2. ChunkBytes(chunks, m) <= ChunkBytes(chunks, n)
        BY <2>2, <4>1, BytesGrow
      <4>3. ChunkBytes(chunks, m) \in Nat /\ ChunkBytes(chunks, n) \in Nat /\ d.size \in Nat
        BY <2>2, <4>1, ChunkBytesIs DEF Disks
      <4> QED BY <2>7, <4>2, <4>3 DEF HdrSize
    <3>2. S = 1 .. n
      BY <3>1
    <3> QED BY <2>4, <3>2
  <2> HIDE DEF S
  <2> QED BY <1>2, <2>2, <2>3, <2>6, <2>7 DEF n
<1> QED BY <1>1, <1>2

-----------------------------------------------------------------------------
(* The first write *)

(* A file just opened: nothing in it, nothing buffered. *)
Blank(f) ==
  Buffered(f) /\ f.sect = -1 /\ f.ptr = 0 /\ ~f.err /\ f.disk.hdr = NoHeader

LEMMA BlankIs ==
  ASSUME NEW f, Blank(f)
  PROVE  Standing(f) /\ f \in Files /\ Saved(f).hdr = NoHeader
<1>1. f \in Files /\ Buffered(f) /\ f.disk \in Disks /\ f.size \in Nat
  BY DEF Blank, Buffered, Files
<1>2. Saved(f) \in Disks /\ Saved(f).hdr = NoHeader
  BY <1>1, SavedIs DEF Blank
<1>3. InPlace(f)
  <2>1. f.ptr = 0 /\ f.sect = -1
    BY DEF Blank
  <2>2. 0 % 512 = 0 /\ -1 < 0 \div 512
    OBVIOUS
  <2> QED BY <2>1, <2>2 DEF InPlace, Sector
<1>4. OnCard(Saved(f), f.ptr)
  <2>1. \A s \in Parts : Enough(Saved(f), s, 0)
    BY FatFileSizes DEF Enough, Parts
  <2> QED BY <1>2, <2>1, OnCardIs DEF Blank
<1> QED BY <1>1, <1>2, <1>3, <1>4 DEF Blank, Standing

(* Whatever goes into the file without a header leaves it without one. *)
LEMMA NoHeaderKept ==
  ASSUME NEW f, NEW g, Grows(f, g), f.disk.hdr = NoHeader, Saved(f).hdr = NoHeader
  PROVE  g.disk.hdr = NoHeader /\ Saved(g).hdr = NoHeader
BY DEF Grows, More

(* The header's bytes are in the buffer only, once written. *)
LEMMA FirstWriteIs ==
  ASSUME NEW f, Standing(f), f.ptr = 0
  PROVE  f_write(f, HdrSize).ok => f_write(f, HdrSize).dirty
<1> DEFINE k == [f EXCEPT !.ok = TRUE]
           g == FlushOrAbort(k)
           h == PutRest(g, 224)
<1>1. Buffered(f) /\ ~f.err /\ f.sect # 0
  BY DEF Standing, InPlace, Sector, Buffered, Files
<1>2. Buffered(k) /\ SameView(f, k) /\ SamePlace(f, k) /\ k.ok
  BY <1>1, TrueIs
<1>3. f_write(f, HdrSize) = PutFromBoundary(k, 224)
  <2>1. (Sector - (f.ptr % Sector)) % Sector = 0
    BY DEF Sector
  <2> HIDE DEF k
  <2>2. f_write(f, 224) = PutFromBoundary(k, 224)
    BY <1>1, <2>1 DEF f_write, k
  <2> QED BY <2>2 DEF HdrSize
<1> HIDE DEF k
<1>4. CASE NoCluster(k)
  <2>1. PutFromBoundary(k, 224) = [k EXCEPT !.ok = FALSE]
    BY <1>4 DEF PutFromBoundary
  <2>2. ~[k EXCEPT !.ok = FALSE].ok
    BY <1>2, FalseIs
  <2> QED BY <1>3, <2>1, <2>2
<1>5. CASE ~NoCluster(k)
  <2>1. /\ Buffered(g) /\ SamePlace(k, g) /\ g.sect = k.sect /\ (g.ok => ~g.dirty)
    BY <1>2, FlushOrAbortIs
  <2> HIDE DEF g
  <2>2. f_write(f, HdrSize) = IF ~g.ok THEN g ELSE h
    <3>1. 224 \div Sector = 0 /\ 224 % Sector = 224
      BY DEF Sector
    <3>2. PutSectors(g, 0) = g
      BY DEF PutSectors
    <3> QED BY <1>3, <1>5, <3>1, <3>2 DEF PutFromBoundary, g
  <2>3. ASSUME g.ok, h.ok PROVE h.dirty
    <3>1. g.ptr = 0 /\ g.sect # 0 /\ 0 \div Sector = 0
      BY <1>1, <1>2, <2>1 DEF SamePlace, SameView, Sector
    <3> DEFINE r == g.ptr < g.size
               l == Load(g, 0, r)
    <3>2. r \in BOOLEAN
      OBVIOUS
    <3> HIDE DEF r
    <3>3. /\ Buffered(l) /\ SamePlace(g, l) /\ (l.ok => l.sect = 0)
      <4> DEFINE z == 0
      <4>1. z \in Nat
        OBVIOUS
      <4> HIDE DEF z
      <4>2. LET m == Load(g, z, r)
            IN  Buffered(m) /\ SamePlace(g, m) /\ (m.ok => m.sect = z)
        BY <2>1, <2>3, <3>2, <4>1, LoadIs
      <4> QED BY <4>2 DEF z
    <3>4. CASE NoCluster(g)
      <4>1. h = [g EXCEPT !.ok = FALSE]
        BY <2>3, <3>4 DEF PutRest
      <4>2. ~[g EXCEPT !.ok = FALSE].ok
        BY <2>1, FalseIs
      <4> QED BY <2>3, <4>1, <4>2
    <3>5. CASE ~NoCluster(g)
      <4>1. h = IF l.ok THEN Put(l, 224) ELSE l
        BY <2>3, <3>1, <3>5 DEF PutRest, r
      <4> HIDE DEF l, h
      <4>2. l.ok /\ h = Put(l, 224) /\ l.sect = 0
        BY <2>3, <3>3, <4>1
      <4>3. l.sect = l.ptr \div Sector /\ (l.ptr % Sector) + 224 <= Sector
        BY <3>1, <3>3, <4>2 DEF SamePlace, Sector
      <4> DEFINE n == 224
      <4>4. n \in Nat \ {0} /\ (l.ptr % Sector) + n <= Sector
        BY <4>3
      <4> HIDE DEF n
      <4>5. Put(l, n).dirty
        BY <3>3, <4>3, <4>4, PutIs
      <4> QED BY <4>2, <4>5 DEF n
    <3> QED BY <3>4, <3>5
  <2> HIDE DEF h
  <2> QED BY <2>2, <2>3
<1> QED BY <1>4, <1>5

LEMMA EmptyMovieIs ==
  /\ EmptyMovie \in [Fields -> Nat]
  /\ EmptyMovie[OFF_RIFFSZ] = 216 /\ EmptyMovie[OFF_MOVISZ] = 4
  /\ EmptyMovie[OFF_TOTALFRAMES] = 0 /\ EmptyMovie[OFF_STRH_LEN] = 0
  /\ EmptyMovie[OFF_FLAGS] = 0
<1>1. EmptyMovie = [o \in Fields |-> IF o = 4 THEN 216 ELSE IF o = 216 THEN 4 ELSE 0]
  BY DEF EmptyMovie, OFF_RIFFSZ, OFF_MOVISZ, HdrSize
<1>2. Fields = {4, 44, 48, 140, 216}
  BY FieldIs DEF FieldsAre
<1> QED BY <1>1, <1>2 DEF OFF_RIFFSZ, OFF_MOVISZ, OFF_TOTALFRAMES, OFF_STRH_LEN, OFF_FLAGS

LEMMA EmptyMovieTells == Tells(EmptyMovie, <<>>, 0)
<1>1. <<>> \in Seq(Nat) /\ Len(<<>>) = 0 /\ 0 \in 0 .. Len(<<>>)
  OBVIOUS
<1> DEFINE c == <<>>
<1>2. c \in Seq(Nat)
  BY <1>1
<1> HIDE DEF c
<1>3. ChunkBytes(c, 0) = 0
  BY <1>2, ChunkBytesIs
<1>4. ~ClaimsIndex(EmptyMovie)
  BY EmptyMovieIs DEF ClaimsIndex, HasIndex
<1> QED BY <1>1, <1>3, <1>4, EmptyMovieIs DEF Tells, HdrSize, c

(* The header in the buffer becomes another one, for what the sectors hold. *)
LEMMA HeadedIs ==
  ASSUME NEW f, Standing(f), f.dirty, f.sect = 0, NEW h \in [Fields -> Nat]
  PROVE  LET g == [f EXCEPT !.hdr = h]
         IN  /\ g \in Files /\ Standing(g) /\ g.disk = f.disk /\ g.ptr = f.ptr
             /\ Saved(g) \in Disks /\ Saved(g).hdr = h /\ g.sect = 0
             /\ OnCard(Saved(g), g.ptr)
<1> DEFINE g == [f EXCEPT !.hdr = h]
<1>1. f \in Files /\ Buffered(f)
  BY DEF Standing, Buffered
<1>2. h \in Headers
  BY DEF Headers
<1>3. /\ g \in Files /\ g.disk = f.disk /\ g.ptr = f.ptr /\ g.sect = f.sect /\ g.fill = f.fill
      /\ g.dirty = f.dirty /\ g.err = f.err /\ g.size = f.size /\ g.hdr = h
  BY <1>1, <1>2 DEF Files
<1> HIDE DEF g
<1>4. Buffered(g)
  BY <1>1, <1>3 DEF Buffered
<1>5. /\ Saved(g) \in Disks /\ Saved(g).hdr = h /\ Saved(f) \in Disks
      /\ \A s \in Parts : Saved(g).fill[s] = Saved(f).fill[s]
  BY <1>1, <1>3, SavedIs
<1>6. OnCard(Saved(g), g.ptr)
  <2>1. OnCard(Saved(f), f.ptr) /\ f.ptr \in Int
    BY <1>1 DEF Standing, Files
  <2>2. \A s \in Parts : Saved(f).fill[s] <= Saved(g).fill[s]
    BY <1>5, FillIs
  <2> QED BY <1>3, <1>5, <2>1, <2>2, OnCardMore
<1>7. Standing(g)
  BY <1>3, <1>4, <1>6 DEF Standing, InPlace
<1> QED BY <1>3, <1>5, <1>6, <1>7 DEF g

Fresh ==
  [frames |-> 0, movi_bytes |-> 0, off |-> 0, error |-> FALSE,
   idx |-> <<>>, chunks |-> <<>>]

LEMMA FreshIs == Fresh \in Avis
BY DEF Fresh, Avis

(* avi_start leaves an empty movie, with its header in the buffer. *)
LEMMA avi_startIs ==
  ASSUME NEW f, Blank(f), ~avi_start(f).avi.error
  PROVE  LET x == avi_start(f)
         IN  /\ Recording(x) /\ IndexInv(x.avi)
             /\ x.avi.frames = 0 /\ x.avi.off = HdrSize
             /\ x.f.disk.hdr = NoHeader /\ Saved(x.f).hdr[OFF_TOTALFRAMES] = 0
<1> DEFINE g == f_lseek(f, 0)
           m == [avi |-> Fresh, f |-> g]
           w == f_write(g, HdrSize)
           y == wr(m, HdrSize)
           v == [w EXCEPT !.hdr = EmptyMovie]
           x == avi_start(f)
<1>1. x = IF ~g.ok THEN [avi |-> [Fresh EXCEPT !.error = TRUE], f |-> g]
          ELSE IF y.avi.error THEN y ELSE [y EXCEPT !.f.hdr = EmptyMovie]
  BY DEF avi_start, Fresh
<1>2. Standing(f) /\ f \in Files /\ Saved(f).hdr = NoHeader
  BY BlankIs
<1>3. g.ok
  <2>1. [Fresh EXCEPT !.error = TRUE].error
    BY DEF Fresh
  <2> HIDE DEF g, y
  <2> QED BY <1>1, <2>1 DEF x
<1>4. Blank(g)
  <2> DEFINE z == 0
             k == f_lseek(f, z)
  <2>1. z \in Nat /\ z % Sector = 0
    BY DEF Sector
  <2> HIDE DEF z
  <2>2. /\ Buffered(k) /\ Grows(f, k) /\ (k.ok => k.ptr = z /\ ~k.err /\ k.sect = f.sect)
    BY <2>1, f_lseekIs DEF Blank
  <2> HIDE DEF k
  <2>3. k.disk.hdr = NoHeader
    BY <1>2, <2>2, NoHeaderKept DEF Blank
  <2>4. k = g
    BY DEF k, z
  <2> QED BY <1>3, <2>2, <2>3, <2>4 DEF Blank, z
<1>5. Standing(g) /\ g \in Files /\ Saved(g).hdr = NoHeader /\ g.ptr = 0 /\ g.disk.hdr = NoHeader
  BY <1>4, BlankIs DEF Blank
<1> HIDE DEF g
<1>6. m \in Muxes /\ m.avi = Fresh /\ m.f = g
  BY <1>5, FreshIs DEF Muxes
<1> HIDE DEF m
<1>7. HdrSize \in Nat \ {0}
  BY DEF HdrSize
<1>8. y = Wrote(m, w, HdrSize)
  <2>1. ~m.avi.error
    BY <1>6 DEF Fresh
  <2> QED BY <1>6, <2>1 DEF wr
<1>9. Took(g, w, HdrSize) /\ (w.ok => w.dirty) /\ w \in Files
  <2>1. Took(g, w, HdrSize)
    BY <1>5, <1>7, f_writeIs
  <2> QED BY <1>5, <2>1, FirstWriteIs DEF Took, Buffered
<1> HIDE DEF w
<1>10. /\ y \in Muxes /\ y.f = w /\ SameCount(m, y) /\ (y.avi.error <=> ~w.ok)
       /\ y.avi.off = IF w.ok THEN m.avi.off + HdrSize ELSE m.avi.off
  BY <1>6, <1>7, <1>8, <1>9, WroteIs
<1> HIDE DEF y
<1>11. ~y.avi.error /\ w.ok /\ x = [y EXCEPT !.f.hdr = EmptyMovie]
  BY <1>1, <1>3, <1>10 DEF x
<1> HIDE DEF x
<1>12. Standing(w) /\ w.ptr = 224 /\ w.dirty /\ w.sect = 0
  <2>1. Standing(w) /\ w.ptr = 224 /\ w.dirty
    BY <1>5, <1>9, <1>11 DEF Took, HdrSize
  <2>2. 224 % Sector # 0 /\ 224 \div Sector = 0
    BY DEF Sector
  <2> QED BY <2>1, <2>2 DEF Standing, InPlace
<1>13. w.disk.hdr = NoHeader
  BY <1>5, <1>9, NoHeaderKept DEF Took
<1>14. /\ v \in Files /\ Standing(v) /\ v.disk = w.disk /\ v.ptr = w.ptr /\ v.sect = 0
       /\ Saved(v) \in Disks /\ Saved(v).hdr = EmptyMovie /\ OnCard(Saved(v), v.ptr)
  BY <1>12, HeadedIs, EmptyMovieIs
<1>15. x = [y EXCEPT !.f = v]
  BY <1>10, <1>11
<1> HIDE DEF v
<1>16. x \in Muxes /\ x.f = v /\ x.avi = y.avi
  BY <1>10, <1>14, <1>15 DEF Muxes
<1>17. /\ x.avi.frames = 0 /\ x.avi.movi_bytes = 0 /\ x.avi.off = 224 /\ ~x.avi.error
       /\ x.avi.idx = <<>> /\ x.avi.chunks = <<>>
  BY <1>6, <1>10, <1>11, <1>16 DEF SameCount, Fresh, HdrSize
<1>18. Len(<<>>) = 0 /\ <<>> \in Seq(Nat) /\ ChunkBytes(<<>>, 0) = 0
  <2> DEFINE c == <<>>
  <2>1. c \in Seq(Nat)
    OBVIOUS
  <2> HIDE DEF c
  <2>2. ChunkBytes(c, 0) = 0
    BY <2>1, ChunkBytesIs
  <2> QED BY <2>2 DEF c
<1>19. Truthful(v, <<>>)
  <2> DEFINE c == <<>>
  <2>1. c \in Seq(Nat)
    OBVIOUS
  <2>2. Tells(EmptyMovie, c, EmptyMovie[OFF_TOTALFRAMES])
    BY EmptyMovieIs, EmptyMovieTells
  <2> HIDE DEF c
  <2>3. v.disk \in Disks /\ v.disk.hdr = NoHeader
    BY <1>13, <1>14 DEF Files
  <2>4. HeaderTrue(v.disk, c)
    BY <2>1, <2>3, HeaderTrueIs
  <2>5. 8 + EmptyMovie[OFF_RIFFSZ] = v.ptr
    BY <1>12, <1>14, EmptyMovieIs
  <2>6. HeaderTrue(Saved(v), c)
    BY <1>14, <2>1, <2>2, <2>5, HeaderTrueIs
  <2> QED BY <2>4, <2>6 DEF Truthful, c
<1>20. MuxInv(x)
  <2>1. Buffered(v) /\ v.ptr <= v.size
    BY <1>14 DEF Standing
  <2> QED BY <1>16, <1>17, <1>18, <1>19, <2>1 DEF MuxInv
<1>21. Going(x)
  <2>1. x.f.ptr = x.avi.off /\ x.avi.off >= HdrSize
    BY <1>12, <1>14, <1>16, <1>17 DEF HdrSize
  <2> QED BY <1>14, <1>16, <2>1, EmptyMovieIs DEF Going
<1>22. Recording(x)
  BY <1>14, <1>16, <1>17, <1>20, <1>21, EmptyMovieIs DEF Recording, HdrSize
<1>23. IndexInv(x.avi)
  <2>1. x.avi \in Avis
    BY <1>16 DEF Muxes
  <2>2. IndexTrue(x.avi)
    <3>1. \A i \in Nat \ {0} : ~(i <= Len(x.avi.idx))
      BY <1>17, <1>18
    <3> QED BY <2>1, <3>1, IndexTrueIs
  <2>3. Staged(x.avi) = 0
    BY <1>17, AviSizes DEF Staged
  <2> QED BY <1>17, <1>18, <2>2, <2>3 DEF IndexInv
<1> QED BY <1>13, <1>14, <1>16, <1>17, <1>22, <1>23, EmptyMovieIs DEF x, HdrSize

-----------------------------------------------------------------------------
(* Faults come and go *)

LEMMA FaultIs ==
  ASSUME NEW fault \in Faults
  PROVE  fault.left \in Int /\ fault.dead \in BOOLEAN /\ fault.full \in BOOLEAN
<1>1. MaxAccess \in Nat
  BY CardFilesConstants DEF Never
<1> DEFINE A == {[left |-> Never, dead |-> FALSE, cut |-> FALSE, full |-> FALSE]}
           B == [left : 0 .. MaxAccess, dead : BOOLEAN, cut : {FALSE}, full : {FALSE}]
           C == [left : 0 .. MaxAccess, dead : {TRUE}, cut : {TRUE}, full : {FALSE}]
           D == [left : {Never}, dead : {FALSE}, cut : {FALSE}, full : {TRUE}]
<1>2. fault \in A \/ fault \in B \/ fault \in C \/ fault \in D
  <2>1. fault \in A \cup B \cup C \cup IF MayRunFull THEN D ELSE {}
    BY DEF Faults
  <2> HIDE DEF A, B, C, D
  <2> QED BY <2>1
<1>3. ASSUME fault \in A PROVE fault.left \in Int /\ fault.dead \in BOOLEAN /\ fault.full \in BOOLEAN
  <2>1. fault = [left |-> Never, dead |-> FALSE, cut |-> FALSE, full |-> FALSE]
    BY <1>3
  <2>2. fault.left = Never
    BY <2>1
  <2>3. fault.dead = FALSE
    BY Zenon, <2>1
  <2>4. fault.full = FALSE
    BY Zenon, <2>1
  <2>5. fault.left \in Int
    BY <2>2 DEF Never
  <2> QED BY Zenon, <2>3, <2>4, <2>5
<1>4. ASSUME fault \in B PROVE fault.left \in Int /\ fault.dead \in BOOLEAN /\ fault.full \in BOOLEAN
  <2>1. fault.left \in 0 .. MaxAccess /\ fault.dead \in BOOLEAN /\ fault.full \in {FALSE}
    BY Zenon, <1>4
  <2>2. fault.left \in Int
    BY <1>1, <2>1
  <2> QED BY Zenon, <2>1, <2>2
<1>5. ASSUME fault \in C PROVE fault.left \in Int /\ fault.dead \in BOOLEAN /\ fault.full \in BOOLEAN
  <2>1. fault.left \in 0 .. MaxAccess /\ fault.dead \in {TRUE} /\ fault.full \in {FALSE}
    BY Zenon, <1>5
  <2>2. fault.left \in Int
    BY <1>1, <2>1
  <2> QED BY Zenon, <2>1, <2>2
<1>6. ASSUME fault \in D PROVE fault.left \in Int /\ fault.dead \in BOOLEAN /\ fault.full \in BOOLEAN
  <2>1. fault.left \in {Never} /\ fault.dead \in {FALSE} /\ fault.full \in {TRUE}
    BY Zenon, <1>6
  <2>2. fault.left \in Int
    BY <2>1 DEF Never
  <2> QED BY Zenon, <2>1, <2>2
<1> HIDE DEF A, B, C, D
<1> QED BY <1>2, <1>3, <1>4, <1>5, <1>6

LEMMA ArmedIs ==
  ASSUME NEW f \in Files, NEW fault \in Faults
  PROVE  LET g == Armed(f, fault)
         IN  /\ g \in Files /\ SameView(f, g) /\ g.ptr = f.ptr /\ g.size = f.size
             /\ g.err = f.err
BY FaultIs DEF Armed, Files, SameView

LEMMA DisarmedIs ==
  ASSUME NEW f \in Files
  PROVE  LET g == Disarmed(f)
         IN  /\ g \in Files /\ SameView(f, g) /\ g.ptr = f.ptr /\ g.size = f.size
             /\ g.err = f.err
<1> DEFINE n == 99
           g == [f EXCEPT !.left = n, !.dead = FALSE, !.full = FALSE, !.ok = TRUE]
<1>1. n \in Int
  OBVIOUS
<1>2. Disarmed(f) = g
  BY DEF Disarmed, Never
<1> HIDE DEF n
<1>3. g \in Files
  BY <1>1 DEF Files
<1>4. /\ SameView(f, g) /\ g.ptr = f.ptr /\ g.size = f.size
      /\ g.err = f.err
  BY DEF Files, SameView
<1> HIDE DEF g
<1> QED BY <1>2, <1>3, <1>4

(* A clip on the same file, but for what the next call meets. *)
LEMMA RearmedIs ==
  ASSUME NEW x, Recording(x), NEW y \in Muxes, y.avi = x.avi, SameView(x.f, y.f),
         y.f.ptr = x.f.ptr, y.f.size = x.f.size, y.f.err = x.f.err
  PROVE  Recording(y) /\ Saved(y.f) = Saved(x.f)
<1>1. MuxInv(x) /\ Going(x) /\ Buffered(x.f) /\ x.f.ptr <= x.f.size /\ y.f \in Files
  BY DEF Recording, MuxInv, Muxes
<1>2. Buffered(y.f) /\ Grows(x.f, y.f) /\ Saved(y.f) = Saved(x.f)
  BY <1>1, SameViewGrows
<1>3. MuxInv(y)
  BY <1>1, <1>2, MuxGrows DEF SameCount
<1>4. Standing(x.f) => Standing(y.f)
  BY <1>1, <1>2 DEF Standing, InPlace, SameView
<1>5. Going(y)
  BY <1>1, <1>2, <1>4 DEF Going
<1> QED BY <1>2, <1>3, <1>5 DEF Recording

-----------------------------------------------------------------------------
(* clip_start *)

LEMMA NewFileIs ==
  /\ NewFile \in Files /\ Buffered(NewFile)
  /\ NewFile.sect = -1 /\ NewFile.ptr = 0 /\ ~NewFile.err /\ NewFile.disk.hdr = NoHeader
<1> DEFINE d == [hdr |-> NoHeader, fill |-> [s \in 0 .. MaxSectors |-> 0], size |-> 0]
<1>1. d \in Disks /\ d.hdr = NoHeader
  BY DEF Disks, Headers, Parts, Sector
<1>2. [d EXCEPT !.fill = [@ EXCEPT ![-1] = 0], !.hdr = @] = d
  <2>1. [d.fill EXCEPT ![-1] = 0] = d.fill
    OBVIOUS
  <2> QED BY <2>1
<1> DEFINE n == [ptr |-> 0, size |-> 0, sect |-> -1, fill |-> 0, hdr |-> NoHeader,
                 dirty |-> FALSE, err |-> FALSE, ok |-> TRUE, disk |-> d,
                 left |-> Never, dead |-> FALSE, full |-> FALSE]
<1>3. NewFile = n
  BY DEF NewFile
<1> HIDE DEF d
<1>4. /\ n \in Files /\ n.disk = d /\ n.sect = -1 /\ n.fill = 0 /\ n.ptr = 0 /\ ~n.err
      /\ ~n.dirty
  BY <1>1 DEF Files, Headers, Sector, Never
<1> HIDE DEF n
<1>5. Saved(n) = n.disk
  <2>1. n.sect # 0
    BY <1>4
  <2> QED BY <1>2, <1>4, <2>1 DEF Saved
<1>6. Buffered(n)
  <2>1. n.sect \notin Parts
    BY <1>4, FatFileSizes DEF Parts
  <2> QED BY <1>4, <1>5, <2>1 DEF Buffered
<1> QED BY <1>1, <1>3, <1>4, <1>6

LEMMA BlankStays ==
  ASSUME NEW f, Blank(f), NEW g \in Files, SameView(f, g), g.ptr = f.ptr, g.err = f.err
  PROVE  Blank(g)
<1>1. Buffered(g)
  BY SameViewGrows DEF Blank
<1> QED BY <1>1 DEF Blank, SameView

LEMMA f_expandIs ==
  ASSUME NEW f, Blank(f), NEW n \in Nat
  PROVE  Blank(f_expand(f, n))
<1>1. f \in Files
  BY DEF Blank, Buffered
<1>2. CASE f.full
  <2> DEFINE g == [f EXCEPT !.ok = FALSE]
  <2>1. g \in Files /\ SameView(f, g) /\ g.ptr = f.ptr /\ g.err = f.err
    BY <1>1 DEF Files, SameView
  <2>2. f_expand(f, n) = g
    BY <1>2 DEF f_expand
  <2> HIDE DEF g
  <2> QED BY <2>1, <2>2, BlankStays
<1>3. CASE ~f.full /\ f.left = 0
  <2>1. f_expand(f, n) = Fail(f)
    BY <1>3 DEF f_expand
  <2> QED BY <1>1, <2>1, FailIs, BlankStays DEF SamePlace
<1>4. CASE ~f.full /\ f.left # 0
  <2> DEFINE k == Accessed(f)
             g == [k EXCEPT !.size = n, !.ok = TRUE]
  <2>1. k \in Files /\ SameView(f, k) /\ SamePlace(f, k) /\ k.err = f.err
    BY <1>1, AccessedIs
  <2>2. f_expand(f, n) = g
    BY <1>4 DEF f_expand
  <2> HIDE DEF k
  <2>3. g \in Files /\ SameView(f, g) /\ g.ptr = f.ptr /\ g.err = f.err
    BY <2>1 DEF Files, SameView, SamePlace
  <2> HIDE DEF g
  <2> QED BY <2>2, <2>3, BlankStays
<1> QED BY <1>2, <1>3, <1>4

(* What clip_start hands over is an empty movie. *)
LEMMA PreparedIs ==
  ASSUME NEW fault \in Faults, ~Prepared(fault).avi.error
  PROVE  LET x == Prepared(fault)
         IN  /\ Recording(x) /\ IndexInv(x.avi)
             /\ x.avi.frames = 0 /\ x.avi.off = HdrSize
             /\ x.f.disk.hdr = NoHeader /\ Saved(x.f).hdr[OFF_TOTALFRAMES] = 0
<1> DEFINE f == Armed(NewFile, fault)
           g == f_expand(f, Prealloc)
           s == f_sync(g)
           x == avi_start(s)
<1>1. Blank(f)
  BY NewFileIs, ArmedIs, BlankStays DEF Blank
<1> HIDE DEF f
<1>2. Blank(g)
  BY <1>1, FatFileSizes, f_expandIs
<1> HIDE DEF g
<1>3. Blank(s)
  <2>1. Buffered(g) /\ Saved(g).hdr = NoHeader
    BY <1>2, BlankIs DEF Blank
  <2>2. /\ Buffered(s) /\ Grows(g, s) /\ s.ptr = g.ptr /\ s.err = g.err /\ s.sect = g.sect
    BY <2>1, f_syncIs
  <2> HIDE DEF s
  <2> QED BY <1>2, <2>1, <2>2, NoHeaderKept DEF Blank
<1>4. \A y : NoClip(y).avi.error
  BY DEF NoClip
<1>5. Prepared(fault) = IF s.ok THEN (IF x.avi.error THEN NoClip(x.f) ELSE x) ELSE NoClip(s)
  BY DEF Prepared, Started, f, g
<1> HIDE DEF s
<1>6. Prepared(fault) = x /\ ~x.avi.error
  <2> HIDE DEF x
  <2> QED BY <1>4, <1>5
<1> QED BY <1>3, <1>6, avi_startIs

-----------------------------------------------------------------------------
(* The open clip *)

OpenClips ==
  [open : {TRUE}, name : Names, frames_written : Nat, last_refresh_frame : Nat,
   avi : Avis, f : Files]

Sound(c) == c \in OpenClips /\ Recording(Muxed(c)) /\ IndexInv(c.avi)

LEMMA MuxedIs ==
  ASSUME NEW c \in OpenClips
  PROVE  Muxed(c) \in Muxes /\ Muxed(c).avi = c.avi /\ Muxed(c).f = c.f
BY DEF Muxed, Muxes, OpenClips

LEMMA WithIs ==
  ASSUME NEW c \in OpenClips, NEW x \in Muxes
  PROVE  LET e == With(c, x)
         IN  /\ e \in OpenClips /\ Muxed(e) = x /\ e.avi = x.avi /\ e.f = x.f
             /\ e.open /\ e.name = c.name
             /\ e.frames_written = c.frames_written
             /\ e.last_refresh_frame = c.last_refresh_frame
<1> DEFINE e == With(c, x)
<1>1. e \in OpenClips
  BY DEF With, OpenClips, Muxes
<1>2. /\ e.avi = x.avi /\ e.f = x.f /\ e.name = c.name
      /\ e.frames_written = c.frames_written
      /\ e.last_refresh_frame = c.last_refresh_frame
  BY DEF With, OpenClips
<1>3. e.open
  BY <1>1 DEF OpenClips
<1>4. x = [avi |-> x.avi, f |-> x.f]
  BY DEF Muxes
<1> HIDE DEF e
<1>5. Muxed(e) = x
  BY <1>2, <1>4 DEF Muxed
<1> QED BY Zenon, <1>1, <1>2, <1>3, <1>5 DEF e

(* The same clip, on a file that differs in what the next call meets. *)
LEMMA SoundOn ==
  ASSUME NEW c, Sound(c), NEW g \in Files, SameView(c.f, g),
         g.ptr = c.f.ptr, g.size = c.f.size, g.err = c.f.err
  PROVE  LET e == [c EXCEPT !.f = g]
         IN  /\ Sound(e) /\ e.f = g /\ e.avi = c.avi /\ e.name = c.name
             /\ e.frames_written = c.frames_written
             /\ e.last_refresh_frame = c.last_refresh_frame
             /\ Saved(g) = Saved(c.f)
<1> DEFINE e == [c EXCEPT !.f = g]
<1>1. c \in OpenClips /\ Recording(Muxed(c)) /\ IndexInv(c.avi)
  BY DEF Sound
<1>2. /\ e \in OpenClips /\ e.f = g /\ e.avi = c.avi /\ e.name = c.name
      /\ e.frames_written = c.frames_written
      /\ e.last_refresh_frame = c.last_refresh_frame
  BY <1>1 DEF OpenClips
<1> HIDE DEF e
<1>3. /\ Muxed(c).avi = c.avi /\ Muxed(c).f = c.f
      /\ Muxed(e) \in Muxes /\ Muxed(e).avi = e.avi /\ Muxed(e).f = e.f
  BY <1>1, <1>2, MuxedIs
<1>4. Recording(Muxed(e)) /\ Saved(g) = Saved(c.f)
  <2> DEFINE x == Muxed(c)
             y == Muxed(e)
  <2>1. /\ Recording(x) /\ y \in Muxes /\ y.avi = x.avi /\ y.f = g /\ x.f = c.f
        /\ SameView(x.f, y.f) /\ y.f.ptr = x.f.ptr /\ y.f.size = x.f.size
        /\ y.f.err = x.f.err
    BY <1>1, <1>2, <1>3
  <2> HIDE DEF x, y
  <2>2. Recording(y) /\ Saved(y.f) = Saved(x.f)
    BY <2>1, RearmedIs
  <2> QED BY <2>1, <2>2 DEF y
<1> QED BY <1>1, <1>2, <1>4 DEF Sound, e

LEMMA SoundArmed ==
  ASSUME NEW c, Sound(c), NEW fault \in Faults
  PROVE  LET e == [c EXCEPT !.f = Armed(@, fault)]
         IN  /\ Sound(e) /\ e.avi = c.avi /\ e.name = c.name
             /\ e.f.disk = c.f.disk /\ Saved(e.f) = Saved(c.f)
             /\ e.frames_written = c.frames_written
             /\ e.last_refresh_frame = c.last_refresh_frame
<1> DEFINE g == Armed(c.f, fault)
<1>1. c.f \in Files
  BY DEF Sound, OpenClips
<1>2. /\ g \in Files /\ SameView(c.f, g) /\ g.ptr = c.f.ptr /\ g.size = c.f.size
      /\ g.err = c.f.err
  BY <1>1, ArmedIs
<1> HIDE DEF g
<1> QED BY <1>2, SoundOn DEF g, SameView

LEMMA SoundDisarmed ==
  ASSUME NEW c, Sound(c)
  PROVE  LET e == [c EXCEPT !.f = Disarmed(@)]
         IN  /\ Sound(e) /\ e.avi = c.avi /\ e.name = c.name
             /\ e.f.disk = c.f.disk /\ Saved(e.f) = Saved(c.f)
             /\ e.frames_written = c.frames_written
             /\ e.last_refresh_frame = c.last_refresh_frame
<1> DEFINE g == Disarmed(c.f)
<1>1. c.f \in Files
  BY DEF Sound, OpenClips
<1>2. /\ g \in Files /\ SameView(c.f, g) /\ g.ptr = c.f.ptr /\ g.size = c.f.size
      /\ g.err = c.f.err
  BY <1>1, DisarmedIs
<1> HIDE DEF g
<1> QED BY <1>2, SoundOn DEF g, SameView

LEMMA SettledIs ==
  ASSUME NEW c, NEW x, MuxInv(x), c.f = x.f, c.avi = x.avi
  PROVE  Settled(c) \in Nat /\ Settled(c) = Readable(x.f.disk, x.avi.chunks)
<1>1. HeaderTrue(x.f.disk, x.avi.chunks)
  BY DEF MuxInv, Truthful
<1>2. x.f.disk \in Disks /\ x.avi.chunks \in Seq(Nat)
  BY DEF MuxInv, Muxes, Avis, Files
<1> QED BY <1>1, <1>2, ReadableIs DEF Settled

LEMMA AddedIs ==
  ASSUME NEW c \in OpenClips, NEW x \in Muxes
  PROVE  LET e == Added(c, x)
         IN  /\ e \in OpenClips /\ Muxed(e) = x /\ e.avi = x.avi /\ e.f = x.f
             /\ e.name = c.name
             /\ e.frames_written = IF x.avi.error THEN c.frames_written
                                   ELSE c.frames_written + 1
             /\ e.last_refresh_frame = c.last_refresh_frame
<1> DEFINE w == With(c, x)
           n == IF x.avi.error THEN w.frames_written ELSE w.frames_written + 1
           e == [w EXCEPT !.frames_written = n]
<1>1. /\ w \in OpenClips /\ Muxed(w) = x /\ w.avi = x.avi /\ w.f = x.f /\ w.name = c.name
      /\ w.frames_written = c.frames_written
      /\ w.last_refresh_frame = c.last_refresh_frame
  BY WithIs
<1>2. e = Added(c, x)
  BY DEF Added
<1> HIDE DEF w
<1>3. n \in Nat
  BY <1>1 DEF OpenClips
<1> HIDE DEF n
<1>4. /\ e \in OpenClips /\ e.avi = w.avi /\ e.f = w.f /\ e.name = w.name
      /\ e.frames_written = n /\ e.last_refresh_frame = w.last_refresh_frame
  BY <1>1, <1>3 DEF OpenClips
<1>5. Muxed(e) = Muxed(w)
  BY <1>4 DEF Muxed
<1> QED BY <1>1, <1>2, <1>4, <1>5 DEF n

LEMMA NotedIs ==
  ASSUME NEW c \in OpenClips
  PROVE  LET e == Noted(c)
         IN  /\ e \in OpenClips /\ Muxed(e) = Muxed(c) /\ e.avi = c.avi /\ e.f = c.f
             /\ e.name = c.name /\ e.frames_written = c.frames_written
             /\ e.last_refresh_frame = c.frames_written
BY DEF Noted, OpenClips, Muxed

-----------------------------------------------------------------------------
(* A frame, an empty frame, the end *)

LEMMA RefreshIfDueIs ==
  ASSUME NEW c, Sound(c)
  PROVE  LET e == RefreshIfDue(c) IN Sound(e) /\ e.name = c.name
<1>1. c \in OpenClips /\ Recording(Muxed(c)) /\ IndexInv(Muxed(c).avi) /\ Muxed(c).avi = c.avi
  BY MuxedIs DEF Sound
<1> DEFINE x == Muxed(c)
           y == avi_refresh_header(x)
           w == With(c, y)
<1>2. CASE c.avi.error \/ ~RefreshDue(c)
  BY <1>2 DEF RefreshIfDue
<1>3. CASE ~(c.avi.error \/ ~RefreshDue(c))
  <2>1. RefreshIfDue(c) = Noted(w)
    BY <1>3 DEF RefreshIfDue
  <2> HIDE DEF x
  <2>2. Recording(y) /\ IndexInv(y.avi)
    BY <1>1, avi_refreshIs DEF x
  <2> HIDE DEF y
  <2>3. y \in Muxes
    BY <2>2 DEF Recording, MuxInv
  <2>4. w \in OpenClips /\ Muxed(w) = y /\ w.avi = y.avi /\ w.name = c.name
    BY <1>1, <2>3, WithIs
  <2> HIDE DEF w
  <2>5. /\ Noted(w) \in OpenClips /\ Muxed(Noted(w)) = Muxed(w) /\ Noted(w).avi = w.avi
        /\ Noted(w).name = w.name
    BY <2>4, NotedIs
  <2> QED BY <2>1, <2>2, <2>4, <2>5 DEF Sound
<1> QED BY <1>2, <1>3

LEMMA WithFrameIs ==
  ASSUME NEW c, Sound(c), NEW len \in Nat
  PROVE  LET e == WithFrame(c, len) IN Sound(e) /\ e.name = c.name
<1> DEFINE x == Muxed(c)
           y == avi_add(x, len)
           a == Added(c, y)
<1>1. c \in OpenClips /\ Recording(x) /\ IndexInv(x.avi)
  BY MuxedIs DEF Sound
<1> HIDE DEF x
<1>2. Recording(y) /\ IndexInv(y.avi) /\ y \in Muxes
  <2>1. Recording(y) /\ IndexInv(y.avi)
    BY <1>1, avi_addIs
  <2> QED BY <2>1 DEF Recording, MuxInv
<1> HIDE DEF y
<1>3. a \in OpenClips /\ Muxed(a) = y /\ a.avi = y.avi /\ a.name = c.name
  BY <1>1, <1>2, AddedIs
<1>4. WithFrame(c, len) = RefreshIfDue(a)
  BY DEF WithFrame, x, y
<1> HIDE DEF a
<1>5. Sound(a)
  BY <1>2, <1>3 DEF Sound
<1> QED BY <1>3, <1>4, <1>5, RefreshIfDueIs

LEMMA WithEmptyFrameIs ==
  ASSUME NEW c, Sound(c)
  PROVE  LET e == WithEmptyFrame(c)
             y == avi_add(Muxed(c), 0)
         IN  /\ Sound(e) /\ e.name = c.name /\ e.avi = y.avi /\ e.f = y.f
             /\ e.frames_written = c.frames_written + 1
             /\ e.last_refresh_frame = c.last_refresh_frame
<1> DEFINE x == Muxed(c)
           y == avi_add(x, 0)
           w == With(c, y)
           n == w.frames_written + 1
           e == [w EXCEPT !.frames_written = n]
<1>1. c \in OpenClips /\ Recording(x) /\ IndexInv(x.avi)
  BY MuxedIs DEF Sound
<1> HIDE DEF x
<1>2. Recording(y) /\ IndexInv(y.avi) /\ y \in Muxes
  <2> DEFINE z == 0
             v == avi_add(x, z)
  <2>1. z \in Nat
    OBVIOUS
  <2> HIDE DEF z
  <2>2. Recording(v) /\ IndexInv(v.avi)
    BY <1>1, <2>1, avi_addIs
  <2> QED BY <2>2 DEF Recording, MuxInv, z
<1> HIDE DEF y
<1>3. /\ w \in OpenClips /\ Muxed(w) = y /\ w.avi = y.avi /\ w.f = y.f /\ w.name = c.name
      /\ w.frames_written = c.frames_written
      /\ w.last_refresh_frame = c.last_refresh_frame
  BY <1>1, <1>2, WithIs
<1>4. WithEmptyFrame(c) = e
  BY DEF WithEmptyFrame, x, y
<1> HIDE DEF w
<1>5. n \in Nat
  BY <1>3 DEF OpenClips
<1> HIDE DEF n
<1>6. /\ e \in OpenClips /\ e.avi = w.avi /\ e.f = w.f /\ e.name = w.name
      /\ e.frames_written = n /\ e.last_refresh_frame = w.last_refresh_frame
  BY <1>3, <1>5 DEF OpenClips
<1> HIDE DEF e
<1>7. Muxed(e) = y
  BY <1>3, <1>6 DEF Muxed
<1>8. Sound(e)
  BY <1>2, <1>3, <1>6, <1>7 DEF Sound
<1> QED BY <1>3, <1>4, <1>6, <1>8 DEF n, x, y

LEMMA StoppedIs ==
  ASSUME NEW c, Sound(c)
  PROVE  LET x == Stopped(c)
         IN  /\ MuxInv(x) /\ x.avi.frames = c.avi.frames
             /\ ~x.avi.error => Settled(With(c, x)) = c.avi.frames
             /\ Settled(With(c, x)) \in Nat
<1> DEFINE m == Muxed(c)
           y == avi_finalize(m)
           x == CloseFile(y)
           w == With(c, x)
<1>1. c \in OpenClips /\ Recording(m) /\ m.avi = c.avi
  BY MuxedIs DEF Sound
<1> HIDE DEF m
<1>2. MuxInv(y) /\ SameCount(m, y) /\ (~y.avi.error => Whole(y, m.avi.frames))
  BY <1>1, avi_finalizeIs
<1> HIDE DEF y
<1>3. MuxInv(x) /\ x.avi = y.avi /\ \A n \in Nat : Whole(y, n) => Whole(x, n)
  BY <1>2, CloseFileIs
<1>4. Stopped(c) = x
  BY DEF Stopped, m, y
<1> HIDE DEF x
<1>5. c.avi.frames \in Nat /\ x \in Muxes
  BY <1>1, <1>3 DEF OpenClips, Avis, MuxInv
<1>6. w.f = x.f /\ w.avi = x.avi
  BY <1>1, <1>5, WithIs
<1> HIDE DEF w
<1>7. Settled(w) \in Nat /\ Settled(w) = Readable(x.f.disk, x.avi.chunks)
  BY <1>3, <1>6, SettledIs
<1>8. x.avi.frames = c.avi.frames
  BY <1>1, <1>2, <1>3 DEF SameCount
<1>9. ASSUME ~x.avi.error PROVE Settled(w) = c.avi.frames
  <2> DEFINE n == c.avi.frames
             d == x.f.disk
             ch == x.avi.chunks
  <2>1. Whole(x, n)
    BY <1>1, <1>2, <1>3, <1>5, <1>9
  <2>2. /\ d.hdr \in [Fields -> Nat] /\ d.hdr[OFF_TOTALFRAMES] = n
        /\ 8 + d.hdr[OFF_RIFFSZ] <= d.size /\ d.hdr # NoHeader
    BY <2>1, AviSizes DEF Whole
  <2>3. d \in Disks /\ ch \in Seq(Nat) /\ HeaderTrue(d, ch)
    BY <1>3 DEF MuxInv, Muxes, Avis, Files, Truthful
  <2> HIDE DEF d, ch, n
  <2>4. Tells(d.hdr, ch, n)
    BY <2>2, <2>3, HeaderTrueIs
  <2>5. n \in 0 .. Len(ch) /\ n \in Nat /\ ChunkBytes(ch, n) \in Nat
    BY <2>3, <2>4, ChunkBytesIs DEF Tells
  <2>6. HdrSize + ChunkBytes(ch, n) <= d.size
    <3>1. d.hdr[OFF_RIFFSZ] >= 216 + ChunkBytes(ch, n)
      <4>1. IndexBytes(n) \in Nat
        BY <2>5, IndexBytesIs
      <4> QED BY <2>4, <2>5, <4>1 DEF Tells, HdrSize
    <3>2. d.size \in Nat /\ d.hdr[OFF_RIFFSZ] \in Nat
      BY <2>2, <2>3, FieldIs DEF Disks
    <3> QED BY SMTT(20), <2>2, <2>5, <3>1, <3>2 DEF HdrSize
  <2>7. Readable(d, ch) = n
    BY <2>2, <2>3, <2>6, ReadableIs
  <2> QED BY <1>7, <2>7 DEF d, ch, n
<1> QED BY <1>3, <1>4, <1>7, <1>8, <1>9 DEF w

-----------------------------------------------------------------------------
(* Types of the names, short listings or not *)

LEMMA ListedIs == ASSUME NEW S, NEW T \in Listed(S) PROVE T \subseteq S
BY DEF Listed

LEMMA ScannedIs ==
  ASSUME NEW found, NEW seen, found \subseteq Dirs, seen \subseteq Names
  PROVE  Scanned(found, seen) \in DcfRecords /\ Scanned(found, seen).ready
<1> USE DcfConstants
<1> DEFINE I == Indices(seen) \cup {0}
           s == IF found = {} THEN DirMin ELSE Highest(found) + 1
           n == Highest(I) + 1
<1>1. I \subseteq 0 .. IdxMax /\ I # {}
  BY DEF Indices, Names
<1>2. n \in 1 .. IdxMax + 1
  <2>1. Highest(I) \in I
    <3> HIDE DEF I
    <3> QED BY <1>1, HighestIs
  <2>2. Highest(I) \in 0 .. IdxMax
    <3> HIDE DEF I
    <3> QED BY <1>1, <2>1
  <2> HIDE DEF I
  <2> QED BY <2>2
<1>3. s \in DirMin .. DirMax + 1
  <2>1. found \subseteq 0 .. DirMax
    BY DEF Dirs
  <2>2. found # {} => Highest(found) \in Dirs
    BY <2>1, HighestIs
  <2> QED BY <2>2 DEF Dirs
<1>4. Scanned(found, seen) = [ready |-> TRUE, session_dir |-> s, next_index |-> n,
                              session_made |-> FALSE]
  BY DEF Scanned
<1> HIDE DEF s, n
<1> QED BY <1>2, <1>3, <1>4 DEF DcfRecords

LEMMA ScanTyped ==
  ASSUME DcfTypeOK, NEW d \in ScanResults
  PROVE  d \in DcfRecords /\ d.ready
<1>1. CASE dcf.ready
  BY <1>1 DEF ScanResults, DcfTypeOK, DcfRecords
<1>2. CASE ~dcf.ready
  <2>1. PICK found \in Listed(dirs) : \E seen \in Listed(InDirs(clips, found)) :
               d = Scanned(found, seen)
    BY <1>2 DEF ScanResults
  <2>3. PICK seen \in Listed(InDirs(clips, found)) : d = Scanned(found, seen)
    BY <2>1
  <2>2. found \subseteq Dirs /\ seen \subseteq Names
    <3>1. found \subseteq dirs /\ seen \subseteq InDirs(clips, found)
      BY <2>1, <2>3, ListedIs
    <3> QED BY <3>1 DEF DcfTypeOK, InDirs
  <2> QED BY <2>2, <2>3, ScannedIs
<1> QED BY <1>1, <1>2

LEMMA DcfTypeKept == ASSUME DcfTypeOK, [DcfNext]_dcfVars PROVE DcfTypeOK'
<1> USE DcfConstants
<1>1. ASSUME NEW d \in ScanResults, NameOpened(d) PROVE DcfTypeOK'
  <2>1. d \in DcfRecords /\ ~Exhausted(d)
    BY <1>1, ScanTyped DEF NameOpened
  <2>2. Named(d) \in DcfRecords /\ NoDcf \in DcfRecords /\ d.session_dir \in Dirs
    BY <2>1, NamedIsFine, NoDcfIsFine
  <2>3. NextName(d) \in Names
    BY <2>1, <2>2 DEF NextName, Names, Exhausted, DcfRecords
  <2> QED BY <1>1, <2>2, <2>3 DEF NameOpened, DcfTypeOK, DcfRecords
<1>2. ASSUME NEW d \in ScanResults, NameRefused(d) PROVE DcfTypeOK'
  <2>1. d \in DcfRecords
    BY <1>2, ScanTyped
  <2>2. d.session_dir \in Dirs
    BY <1>2, <2>1 DEF NameRefused, DcfRecords, Dirs
  <2>3. dirs' \subseteq Dirs
    BY <1>2, <2>2 DEF NameRefused, DcfTypeOK
  <2> QED BY <1>2, <2>1, <2>3 DEF NameRefused, DcfTypeOK, DcfRecords
<1>3. ASSUME NEW d \in ScanResults, OpenRefused(d) PROVE DcfTypeOK'
  <2>1. d \in DcfRecords /\ ~Exhausted(d)
    BY <1>3, ScanTyped DEF OpenRefused
  <2>2. Named(d) \in DcfRecords /\ d.session_dir \in Dirs
    BY <2>1, NamedIsFine
  <2> QED BY <1>3, <2>2 DEF OpenRefused, DcfTypeOK, DcfRecords
<1>4. CASE PowerLost
  BY <1>4, NoDcfIsFine DEF PowerLost, DcfTypeOK, DcfRecords
<1>5. ASSUME NEW c \in clips, ClipDeleted(c) PROVE DcfTypeOK'
  BY <1>5 DEF ClipDeleted, DcfTypeOK
<1>6. ASSUME NEW n \in dirs, DirDeleted(n) PROVE DcfTypeOK'
  BY <1>6 DEF DirDeleted, DcfTypeOK
<1>7. CASE UNCHANGED dcfVars
  BY <1>7 DEF dcfVars, DcfTypeOK
<1> QED BY <1>1, <1>2, <1>3, <1>4, <1>5, <1>6, <1>7 DEF DcfNext, ScanRefused

-----------------------------------------------------------------------------
(* The invariant *)

OpenOK == cur = Closed \/ (Sound(cur) /\ cur.name \in clips /\ dcf.ready)

CardInv == archive \in [clips -> Nat] /\ OpenOK

LEMMA ClosedIs == ~Closed.open
BY DEF Closed

LEMMA ArchivedIs ==
  ASSUME archive \in [clips -> Nat], NEW n \in clips', NEW k \in Nat,
         clips' \subseteq clips \cup {n}
  PROVE  /\ Archived(n, k) \in [clips' -> Nat]
         /\ \A m \in clips' : Archived(n, k)[m] = IF m = n THEN k ELSE archive[m]
BY DEF Archived

LEMMA SoundIs ==
  ASSUME NEW c, Sound(c)
  PROVE  /\ c.open /\ c \in OpenClips /\ MuxInv(Muxed(c))
         /\ Muxed(c).avi = c.avi /\ Muxed(c).f = c.f
         /\ Settled(c) \in Nat
<1>1. c \in OpenClips /\ MuxInv(Muxed(c))
  BY DEF Sound, Recording
<1>2. Muxed(c).avi = c.avi /\ Muxed(c).f = c.f
  BY <1>1, MuxedIs
<1>3. Settled(c) \in Nat
  <2> DEFINE x == Muxed(c)
  <2>1. MuxInv(x) /\ c.f = x.f /\ c.avi = x.avi
    BY <1>1, <1>2
  <2> HIDE DEF x
  <2> QED BY <2>1, SettledIs
<1>4. c.open
  BY <1>1 DEF OpenClips
<1> QED BY Zenon, <1>1, <1>2, <1>3, <1>4

(* A call on the open clip, returning or cut short. *)
LEMMA RecordedKeeps ==
  ASSUME CardInv, cur # Closed, NEW fault \in Faults, NEW c, Sound(c), c.name = cur.name,
         Recorded(c, fault)
  PROVE  CardInv'
<1>1. cur.name \in clips /\ dcf.ready /\ archive \in [clips -> Nat]
  BY DEF CardInv, OpenOK
<1>2. CASE cur' = [c EXCEPT !.f = Disarmed(@)] /\ UNCHANGED <<dcfVars, archive, ended>>
  <2>1. Sound(cur') /\ cur'.name = cur.name
    BY <1>2, SoundDisarmed
  <2> QED BY <1>1, <1>2, <2>1 DEF CardInv, OpenOK, dcfVars
<1>3. CASE Dies(c)
  <2> DEFINE e == [cur EXCEPT !.avi = c.avi, !.f = c.f]
  <2>1. Settled(e) \in Nat
    <3>1. Sound(cur)
      BY DEF CardInv, OpenOK
    <3>2. e.f = c.f /\ e.avi = c.avi
      BY <3>1 DEF Sound, OpenClips
    <3>3. Settled(c) \in Nat
      BY SoundIs
    <3> QED BY <3>2, <3>3 DEF Settled
  <2>2. archive' = Archived(cur.name, Settled(e)) /\ clips' = clips /\ cur' = Closed
    BY <1>3 DEF Dies, PowerLost
  <2> HIDE DEF e
  <2> QED BY <1>1, <2>1, <2>2, ArchivedIs DEF CardInv, OpenOK
<1> QED BY <1>2, <1>3 DEF Recorded

LEMMA AddFrameKeeps ==
  ASSUME CardInv, NEW len \in Sizes, NEW fault \in Faults, AddFrame(len, fault)
  PROVE  CardInv'
<1> DEFINE a == [cur EXCEPT !.f = Armed(@, fault)]
           c == WithFrame(a, len)
<1>1. cur # Closed /\ Sound(cur)
  BY ClosedIs DEF AddFrame, CardInv, OpenOK
<1>2. len \in Nat
  BY CardFilesConstants
<1>3. Sound(a) /\ a.name = cur.name
  BY <1>1, SoundArmed
<1>4. Recorded(c, fault)
  BY DEF AddFrame
<1> HIDE DEF a
<1>5. Sound(c) /\ c.name = cur.name
  BY <1>2, <1>3, WithFrameIs
<1> HIDE DEF c
<1> QED BY <1>1, <1>4, <1>5, RecordedKeeps

LEMMA AddEmptyFrameKeeps ==
  ASSUME CardInv, NEW fault \in Faults, AddEmptyFrame(fault)
  PROVE  CardInv'
<1> DEFINE a == [cur EXCEPT !.f = Armed(@, fault)]
           c == WithEmptyFrame(a)
<1>1. cur # Closed /\ Sound(cur)
  BY ClosedIs DEF AddEmptyFrame, CardInv, OpenOK
<1>3. Sound(a) /\ a.name = cur.name
  BY <1>1, SoundArmed
<1>4. Recorded(c, fault)
  BY DEF AddEmptyFrame
<1> HIDE DEF a
<1>5. Sound(c) /\ c.name = cur.name
  BY <1>3, WithEmptyFrameIs
<1> HIDE DEF c
<1> QED BY <1>1, <1>4, <1>5, RecordedKeeps

(* What clip_stop came to, and what is then on the card. *)
LEMMA ClipStopIs ==
  ASSUME CardInv, NEW fault \in Faults, ClipStop(fault)
  PROVE  /\ cur # Closed /\ Sound(cur) /\ cur' = Closed /\ clips' = clips /\ cur.name \in clips
         /\ \E x : /\ Settled(With(cur, x)) \in Nat
                   /\ archive' = Archived(cur.name, Settled(With(cur, x)))
                   /\ ~x.avi.error => Settled(With(cur, x)) = cur.avi.frames
                   /\ \/ ended' = [name |-> cur.name, frames |-> cur.avi.frames,
                                   clean |-> Untouched(x)]
                      \/ ended' = ended
<1> DEFINE a == [cur EXCEPT !.f = Armed(@, fault)]
           x == Stopped(a)
<1>1. cur # Closed /\ Sound(cur) /\ cur.name \in clips
  BY ClosedIs DEF ClipStop, CardInv, OpenOK
<1>2. Sound(a) /\ a.avi = cur.avi /\ a.name = cur.name
  BY <1>1, SoundArmed
<1>3. StopReturns(x, fault)
  BY DEF ClipStop
<1>4. MuxInv(x) /\ (~x.avi.error => Settled(With(a, x)) = a.avi.frames) /\ Settled(With(a, x)) \in Nat
  <2> HIDE DEF a
  <2> QED BY <1>2, StoppedIs
<1>5. Settled(With(a, x)) = Settled(With(cur, x))
  <2>1. a \in OpenClips /\ cur \in OpenClips /\ x \in Muxes
    BY <1>1, <1>2, <1>4 DEF Sound, MuxInv
  <2> HIDE DEF a, x
  <2>2. /\ With(a, x).f = With(cur, x).f /\ With(a, x).avi = With(cur, x).avi
    BY <2>1, WithIs
  <2> QED BY <2>2 DEF Settled
<1> HIDE DEF a
<1>6. CASE Returns(x, fault) /\ StopReturns(x, fault) /\ ~CutHere(x, fault)
  <2> HIDE DEF x
  <2>1. /\ UNCHANGED dcfVars /\ cur' = Closed
        /\ archive' = Archived(cur.name, Settled(With(cur, x)))
        /\ ended' = [name |-> cur.name, frames |-> cur.avi.frames, clean |-> Untouched(x)]
    BY <1>6 DEF StopReturns
  <2> QED BY <1>1, <1>2, <1>4, <1>5, <2>1 DEF dcfVars
<1>7. CASE Dies(x)
  <2> HIDE DEF x
  <2>1. /\ clips' = clips /\ cur' = Closed /\ ended' = ended
        /\ archive' = Archived(cur.name, Settled([cur EXCEPT !.avi = x.avi, !.f = x.f]))
    BY <1>7 DEF Dies, PowerLost
  <2> QED BY <1>1, <1>2, <1>4, <1>5, <2>1 DEF With
<1>8. CASE Returns(x, fault) /\ CutHere(x, fault)
  BY <1>8 DEF Returns, CutHere
<1> QED BY <1>3, <1>6, <1>7, <1>8 DEF StopReturns

LEMMA ClipStopKeeps ==
  ASSUME CardInv, NEW fault \in Faults, ClipStop(fault)
  PROVE  CardInv'
<1>1. /\ cur' = Closed /\ clips' = clips /\ cur.name \in clips
      /\ \E x : Settled(With(cur, x)) \in Nat
                /\ archive' = Archived(cur.name, Settled(With(cur, x)))
  BY ClipStopIs
<1>2. PICK k \in Nat : archive' = Archived(cur.name, k)
  BY <1>1
<1>3. archive \in [clips -> Nat]
  BY DEF CardInv
<1> QED BY <1>1, <1>2, <1>3, ArchivedIs DEF CardInv, OpenOK

(* What clip_start hands the main loop. *)
LEMMA BegunIs ==
  ASSUME NEW d \in DcfRecords, NextName(d) \in Names, NEW x, Recording(x), IndexInv(x.avi)
  PROVE  LET c == Begun(d, x)
         IN  /\ Sound(c) /\ c.name = NextName(d) /\ c.avi = x.avi
             /\ c.frames_written = 0 /\ c.last_refresh_frame = 0
             /\ c.f.disk = x.f.disk /\ Saved(c.f) = Saved(x.f)
<1> DEFINE g == Disarmed(x.f)
           n == NextName(d)
           y == [avi |-> x.avi, f |-> g]
           c == [open |-> TRUE, name |-> n, frames_written |-> 0,
                 last_refresh_frame |-> 0, avi |-> x.avi, f |-> g]
<1>1. x \in Muxes /\ x.f \in Files /\ x.avi \in Avis
  BY DEF Recording, MuxInv, Muxes
<1>2. /\ g \in Files /\ SameView(x.f, g) /\ g.ptr = x.f.ptr /\ g.size = x.f.size
      /\ g.err = x.f.err
  BY <1>1, DisarmedIs
<1>3. c = Begun(d, x)
  BY DEF Begun
<1> HIDE DEF g, n
<1>4. y \in Muxes /\ y.avi = x.avi /\ y.f = g
  BY <1>1, <1>2 DEF Muxes
<1> HIDE DEF y
<1>5. Recording(y) /\ Saved(g) = Saved(x.f)
  BY <1>2, <1>4, RearmedIs
<1>6. c \in OpenClips
  BY <1>1, <1>2 DEF OpenClips, n
<1>7. /\ c.name = n /\ c.avi = x.avi /\ c.f = g /\ c.frames_written = 0
      /\ c.last_refresh_frame = 0
  OBVIOUS
<1> HIDE DEF c
<1>8. Muxed(c) = y
  BY <1>7 DEF Muxed, y
<1> QED BY <1>2, <1>3, <1>5, <1>6, <1>7, <1>8 DEF Sound, SameView, n

(* An empty movie on the file, its header not on the card. *)
Empty(c) ==
  /\ Sound(c)
  /\ c.frames_written = 0 /\ c.last_refresh_frame = 0
  /\ c.avi.frames = 0 /\ c.avi.off = HdrSize /\ ~c.avi.error
  /\ c.f.disk.hdr = NoHeader /\ Saved(c.f).hdr[OFF_TOTALFRAMES] = 0

LEMMA ClipStartIs ==
  ASSUME DcfTypeOK, DcfTypeOK', CardInv,
         NEW d \in ScanResults, NEW fault \in Faults, ClipStart(d, fault)
  PROVE  /\ cur = Closed /\ ended' = ended
         /\ d \in DcfRecords /\ d.ready /\ ~Exhausted(d)
         /\ clips' = clips \cup {NextName(d)} /\ NextName(d) \in Names
         /\ archive' = Archived(NextName(d), 0)
         /\ cur' = Closed \/ (Empty(cur') /\ cur'.name = NextName(d) /\ dcf'.ready)
<1> DEFINE x == Prepared(fault)
<1>1. cur = Closed
  BY SoundIs DEF ClipStart, CardInv, OpenOK
<1>2. /\ NameOpened(d) /\ archive' = Archived(NextName(d), 0) /\ ended' = ended
      /\ StartReturns(d, x, fault)
  BY DEF ClipStart
<1>3. d \in DcfRecords /\ d.ready /\ ~Exhausted(d)
  BY <1>2, ScanTyped DEF NameOpened
<1>4. clips' = clips \cup {NextName(d)}
  BY <1>2 DEF NameOpened
<1>5. NextName(d) \in Names
  BY <1>4 DEF DcfTypeOK
<1> HIDE DEF x
<1>6. CASE CutHere(x, fault) /\ cur' = Closed
  BY <1>1, <1>2, <1>3, <1>4, <1>5, <1>6
<1>7. CASE dcf' = Named(d) /\ cur' = IF x.avi.error THEN cur ELSE Begun(d, x)
  <2>1. CASE x.avi.error
    BY <1>1, <1>2, <1>3, <1>4, <1>5, <1>7, <2>1
  <2>2. CASE ~x.avi.error
    <3>1. /\ Recording(x) /\ IndexInv(x.avi)
          /\ x.avi.frames = 0 /\ x.avi.off = HdrSize
          /\ x.f.disk.hdr = NoHeader /\ Saved(x.f).hdr[OFF_TOTALFRAMES] = 0
      BY <2>2, PreparedIs DEF x
    <3>2. cur' = Begun(d, x) /\ dcf'.ready
      <4>1. Named(d).ready = d.ready
        BY <1>3, NamedIsFine
      <4> QED BY Zenon, <1>3, <1>7, <2>2, <4>1
    <3> DEFINE c == Begun(d, x)
    <3>3. /\ Sound(c) /\ c.name = NextName(d) /\ c.avi = x.avi
          /\ c.frames_written = 0 /\ c.last_refresh_frame = 0
          /\ c.f.disk = x.f.disk /\ Saved(c.f) = Saved(x.f)
      BY <1>3, <1>5, <3>1, BegunIs
    <3> HIDE DEF c
    <3>4. Empty(c) /\ c.name = NextName(d)
      BY <2>2, <3>1, <3>3 DEF Empty
    <3> QED BY <1>1, <1>2, <1>3, <1>4, <1>5, <3>2, <3>4 DEF c
  <2> QED BY <2>1, <2>2
<1> QED BY <1>2, <1>6, <1>7 DEF StartReturns

LEMMA ClipStartKeeps ==
  ASSUME DcfTypeOK, DcfTypeOK', CardInv,
         NEW d \in ScanResults, NEW fault \in Faults, ClipStart(d, fault)
  PROVE  CardInv'
<1> DEFINE n == NextName(d)
           z == 0
<1>1. /\ clips' = clips \cup {n} /\ archive' = Archived(n, z) /\ z \in Nat
      /\ cur' = Closed \/ (Empty(cur') /\ cur'.name = n /\ dcf'.ready)
  BY ClipStartIs
<1> HIDE DEF n, z
<1>2. archive \in [clips -> Nat]
  BY DEF CardInv
<1>3. archive' \in [clips' -> Nat]
  BY <1>1, <1>2, ArchivedIs
<1> QED BY <1>1, <1>3 DEF CardInv, OpenOK, Empty

LEMMA PowerCutKeeps == ASSUME CardInv, PowerCut PROVE CardInv'
<1>1. clips' = clips /\ cur' = Closed
  BY DEF PowerCut, PowerLost
<1>2. CASE cur.open
  <2>1. Sound(cur) /\ cur.name \in clips /\ archive \in [clips -> Nat]
    BY <1>2, ClosedIs DEF CardInv, OpenOK
  <2>2. archive' = Archived(cur.name, Settled(cur)) /\ Settled(cur) \in Nat
    BY <1>2, <2>1, SoundIs DEF PowerCut
  <2> QED BY <1>1, <2>1, <2>2, ArchivedIs DEF CardInv, OpenOK
<1>3. CASE ~cur.open
  BY <1>1, <1>3 DEF PowerCut, CardInv, OpenOK
<1> QED BY <1>2, <1>3

LEMMA UserDeletesIs ==
  ASSUME CardInv, UserDeletes
  PROVE  /\ cur = Closed /\ cur' = Closed /\ ended' = NotEnded /\ clips' \subseteq clips
         /\ archive' = [n \in clips' |-> archive[n]]
<1>1. cur = Closed
  BY SoundIs DEF UserDeletes, CardInv, OpenOK
<1>2. clips' \subseteq clips
  BY DEF UserDeletes, ClipDeleted, DirDeleted
<1> QED BY <1>1, <1>2 DEF UserDeletes

LEMMA UserDeletesKeeps == ASSUME CardInv, UserDeletes PROVE CardInv'
BY UserDeletesIs DEF CardInv, OpenOK

LEMMA RefusedKeeps == ASSUME CardInv, ClipStartRefused PROVE CardInv'
<1>1. cur = Closed
  BY SoundIs DEF ClipStartRefused, CardInv, OpenOK
<1>2. clips' = clips
  BY DEF ClipStartRefused, NameRefused, OpenRefused, ScanRefused, dcfVars
<1> QED BY <1>1, <1>2 DEF ClipStartRefused, fileVars, CardInv, OpenOK

LEMMA CardStepKeeps ==
  ASSUME DcfTypeOK, DcfTypeOK', CardInv, [Next]_vars PROVE CardInv'
<1>1. CASE UNCHANGED vars
  BY <1>1 DEF vars, dcfVars, fileVars, CardInv, OpenOK
<1> QED BY <1>1, ClipStartKeeps, RefusedKeeps, AddFrameKeeps, AddEmptyFrameKeeps, ClipStopKeeps,
           PowerCutKeeps, UserDeletesKeeps DEF Next

-----------------------------------------------------------------------------
(* Theorems *)

(***************************************************************************)
(* The names keep their types, whatever a listing leaves out:              *)
(* dcf_boot_scan and dcf_next_clip give directories and indices of the     *)
(* allowed ranges.                                                         *)
(***************************************************************************)
THEOREM NamesTyped == Spec => []DcfTypeOK
<1>1. DcfInit => DcfTypeOK
  BY DcfInitInv DEF DcfInv
<1>2. DcfTypeOK /\ [DcfNext]_dcfVars => DcfTypeOK'
  BY DcfTypeKept
<1> QED BY <1>1, <1>2, NamesByTheRules, PTL DEF DcfSpec

(***************************************************************************)
(* The clip being recorded, as avi.c and FatFs leave it after every call   *)
(* of the recorder, faults included: the header on the card and the one in *)
(* the buffer each describe a prefix of the chunks, the chunks counted are *)
(* in the file, an error of the file is an error of the muxer, and what    *)
(* was read of a clip when it was closed or cut was true.                  *)
(***************************************************************************)
THEOREM CardInvariant == Spec => []CardInv
<1>1. Init => CardInv
  BY DEF Init, DcfInit, CardInv, OpenOK
<1>2. DcfTypeOK /\ DcfTypeOK' /\ CardInv /\ [Next]_vars => CardInv'
  BY CardStepKeeps
<1> QED BY <1>1, <1>2, NamesTyped, PTL DEF Spec

(***************************************************************************)
(* CardTypeOK: the open clip has a name the card knows, its frame count is *)
(* the number of its chunks, and the file pointer never passes the size.   *)
(***************************************************************************)
THEOREM CardTyped == Spec => []CardTypeOK
<1>1. DcfTypeOK /\ CardInv => CardTypeOK
  <2> SUFFICES ASSUME DcfTypeOK, CardInv PROVE CardTypeOK
    OBVIOUS
  <2>1. DOMAIN archive = clips
    BY DEF CardInv
  <2>2. ASSUME cur.open
        PROVE  cur.name \in clips /\ dcf.ready /\ cur.avi.frames = Len(cur.avi.chunks)
               /\ cur.f.ptr <= cur.f.size
    <3>1. Sound(cur) /\ cur.name \in clips /\ dcf.ready
      BY <2>2, ClosedIs DEF CardInv, OpenOK
    <3>2. MuxInv(Muxed(cur)) /\ Muxed(cur).avi = cur.avi /\ Muxed(cur).f = cur.f
      BY <3>1, SoundIs
    <3> QED BY <3>1, <3>2 DEF MuxInv
  <2> QED BY <2>1, <2>2 DEF CardTypeOK
<1> QED BY <1>1, NamesTyped, CardInvariant, PTL

(***************************************************************************)
(* HeadersTrue: wherever the power goes in avi_add_raw, avi_refresh_header *)
(* or avi_finalize, the header on the card counts frames that are on the   *)
(* card, with their sizes, and claims an index only when it is there in    *)
(* full.                                                                   *)
(***************************************************************************)
THEOREM HeadersAlwaysTrue == Spec => []HeadersTrue
<1>1. CardInv => HeadersTrue
  <2> SUFFICES ASSUME CardInv, NEW n \in clips PROVE kept[n] # Broken
    BY DEF HeadersTrue
  <2>1. kept[n] \in Nat
    <3>1. archive[n] \in Nat
      BY DEF CardInv
    <3>2. cur.open => Settled(cur) \in Nat
      BY ClosedIs, SoundIs DEF CardInv, OpenOK
    <3> QED BY <3>1, <3>2 DEF kept
  <2> QED BY <2>1 DEF Broken
<1> QED BY <1>1, CardInvariant, PTL

(***************************************************************************)
(* IndexLeadsToChunks: idx_stage's offset and length are those of the      *)
(* chunk that follows, over errors and a full index buffer.                *)
(***************************************************************************)
THEOREM EntriesLeadToChunks == Spec => []IndexLeadsToChunks
<1>1. CardInv => IndexLeadsToChunks
  BY ClosedIs DEF CardInv, OpenOK, Sound, IndexInv, IndexLeadsToChunks
<1> QED BY <1>1, CardInvariant, PTL

-----------------------------------------------------------------------------
(* A clean stop *)

EndedWhole ==
  ended.clean => /\ ended.name \in clips /\ archive[ended.name] = ended.frames
                 /\ cur # Closed => cur.name # ended.name

LEMMA NewNameKeepsEnded ==
  ASSUME ~ShortListings, DcfInv, DcfTypeOK', CardInv, EndedWhole,
         NEW d \in ScanResults, NEW fault \in Faults, ClipStart(d, fault)
  PROVE  EndedWhole'
<1> DEFINE n == NextName(d)
           z == 0
<1>1. DcfTypeOK
  BY DEF DcfInv
<1>2. /\ clips' = clips \cup {n} /\ archive' = Archived(n, z) /\ ended' = ended /\ z \in Nat
      /\ cur' = Closed \/ cur'.name = n
  BY <1>1, ClipStartIs
<1>3. ~Exhausted(d)
  BY <1>1, ClipStartIs
<1>4. n \notin clips
  BY <1>3, ScanIsAhead, NextNameIsNew
<1> HIDE DEF n, z
<1>5. \A m \in clips' : archive'[m] = IF m = n THEN z ELSE archive[m]
  BY <1>2, ArchivedIs DEF CardInv
<1> QED BY <1>2, <1>4, <1>5 DEF EndedWhole

LEMMA CallKeepsEnded ==
  ASSUME CardInv, EndedWhole, cur # Closed, NEW fault \in Faults, NEW c, Sound(c),
         c.name = cur.name, Recorded(c, fault)
  PROVE  EndedWhole'
<1>1. archive \in [clips -> Nat] /\ cur.name \in clips
  BY DEF CardInv, OpenOK
<1>2. CASE cur' = [c EXCEPT !.f = Disarmed(@)] /\ UNCHANGED <<dcfVars, archive, ended>>
  <2>1. cur'.name = cur.name
    BY <1>2, SoundDisarmed
  <2> QED BY <1>2, <2>1 DEF EndedWhole, dcfVars
<1>3. CASE Dies(c)
  <2>1. clips' = clips /\ cur' = Closed /\ ended' = ended
        /\ \A m \in clips : m # cur.name => archive'[m] = archive[m]
    BY <1>3 DEF Dies, PowerLost, Archived
  <2> QED BY <2>1 DEF EndedWhole
<1> QED BY <1>2, <1>3 DEF Recorded

LEMMA AddFrameKeepsEnded ==
  ASSUME CardInv, EndedWhole, NEW len \in Sizes, NEW fault \in Faults, AddFrame(len, fault)
  PROVE  EndedWhole'
<1> DEFINE a == [cur EXCEPT !.f = Armed(@, fault)]
           c == WithFrame(a, len)
<1>1. cur # Closed /\ Sound(cur)
  BY ClosedIs DEF AddFrame, CardInv, OpenOK
<1>2. len \in Nat
  BY CardFilesConstants
<1>3. Sound(a) /\ a.name = cur.name
  BY <1>1, SoundArmed
<1>4. Recorded(c, fault)
  BY DEF AddFrame
<1> HIDE DEF a
<1>5. Sound(c) /\ c.name = cur.name
  BY <1>2, <1>3, WithFrameIs
<1> HIDE DEF c
<1> QED BY <1>1, <1>4, <1>5, CallKeepsEnded

LEMMA AddEmptyFrameKeepsEnded ==
  ASSUME CardInv, EndedWhole, NEW fault \in Faults, AddEmptyFrame(fault)
  PROVE  EndedWhole'
<1> DEFINE a == [cur EXCEPT !.f = Armed(@, fault)]
           c == WithEmptyFrame(a)
<1>1. cur # Closed /\ Sound(cur)
  BY ClosedIs DEF AddEmptyFrame, CardInv, OpenOK
<1>3. Sound(a) /\ a.name = cur.name
  BY <1>1, SoundArmed
<1>4. Recorded(c, fault)
  BY DEF AddEmptyFrame
<1> HIDE DEF a
<1>5. Sound(c) /\ c.name = cur.name
  BY <1>3, WithEmptyFrameIs
<1> HIDE DEF c
<1> QED BY <1>1, <1>4, <1>5, CallKeepsEnded

LEMMA ClipStopEnds ==
  ASSUME CardInv, EndedWhole, NEW fault \in Faults, ClipStop(fault)
  PROVE  EndedWhole'
<1>1. cur # Closed /\ Sound(cur) /\ cur' = Closed /\ clips' = clips /\ cur.name \in clips
  BY ClipStopIs
<1>2. PICK x : /\ Settled(With(cur, x)) \in Nat
               /\ archive' = Archived(cur.name, Settled(With(cur, x)))
               /\ ~x.avi.error => Settled(With(cur, x)) = cur.avi.frames
               /\ \/ ended' = [name |-> cur.name, frames |-> cur.avi.frames,
                               clean |-> Untouched(x)]
                  \/ ended' = ended
  BY ClipStopIs
<1> DEFINE k == Settled(With(cur, x))
<1>3. \A m \in clips : archive'[m] = IF m = cur.name THEN k ELSE archive[m]
  BY <1>1, <1>2 DEF Archived
<1> HIDE DEF k
<1>4. CASE ended' = ended
  BY <1>1, <1>3, <1>4 DEF EndedWhole
<1>5. CASE ended' = [name |-> cur.name, frames |-> cur.avi.frames, clean |-> Untouched(x)]
  <2>1. ended'.name = cur.name /\ ended'.frames = cur.avi.frames
    BY <1>5
  <2>2. ended'.clean => ~x.avi.error
    BY Zenon, <1>5 DEF Untouched
  <2> QED BY <1>1, <1>2, <1>3, <2>1, <2>2 DEF EndedWhole, k
<1> QED BY <1>2, <1>4, <1>5

LEMMA PowerCutKeepsEnded == ASSUME CardInv, EndedWhole, PowerCut PROVE EndedWhole'
<1>1. clips' = clips /\ cur' = Closed /\ ended' = ended
  BY DEF PowerCut, PowerLost
<1>2. CASE cur.open
  <2>1. cur # Closed
    BY <1>2, ClosedIs
  <2>2. \A m \in clips : m # cur.name => archive'[m] = archive[m]
    BY <1>1, <1>2 DEF PowerCut, Archived
  <2> QED BY <1>1, <2>1, <2>2 DEF EndedWhole
<1>3. CASE ~cur.open
  BY <1>1, <1>3 DEF PowerCut, EndedWhole
<1> QED BY <1>2, <1>3

LEMMA RefusedKeepsEnded ==
  ASSUME CardInv, EndedWhole, ClipStartRefused PROVE EndedWhole'
<1>1. clips' = clips
  BY DEF ClipStartRefused, NameRefused, OpenRefused, ScanRefused, dcfVars
<1> QED BY <1>1 DEF ClipStartRefused, fileVars, EndedWhole

LEMMA EndedStep ==
  ASSUME ~ShortListings, DcfInv, DcfInv', CardInv, EndedWhole, [Next]_vars
  PROVE  EndedWhole'
<1>1. DcfTypeOK'
  BY DEF DcfInv
<1>2. CASE UNCHANGED vars
  BY <1>2 DEF vars, dcfVars, fileVars, EndedWhole
<1>3. CASE UserDeletes
  <2>1. ended' = NotEnded
    BY <1>3, UserDeletesIs
  <2>2. ~NotEnded.clean
    BY DEF NotEnded
  <2> QED BY <2>1, <2>2 DEF EndedWhole
<1> QED BY <1>1, <1>2, <1>3, NewNameKeepsEnded, RefusedKeepsEnded, AddFrameKeepsEnded,
           AddEmptyFrameKeepsEnded, ClipStopEnds, PowerCutKeepsEnded DEF Next

(***************************************************************************)
(* Unless the card cuts a listing short, the numbers of a scan stay ahead  *)
(* of every clip: DcfInv, for the recorder's own steps.                    *)
(***************************************************************************)
THEOREM NamesInvariant == ~ShortListings => (Spec => []DcfInv)
<1> SUFFICES ASSUME ~ShortListings PROVE Spec => []DcfInv
  OBVIOUS
<1>1. DcfInit => DcfInv
  BY DcfInitInv
<1>2. DcfInv /\ [DcfNext]_dcfVars => DcfInv'
  BY DcfStepKeeps
<1> QED BY <1>1, <1>2, NamesByTheRules, PTL DEF DcfSpec

(***************************************************************************)
(* CleanStopIsWhole: a clip that clip_stop closed without a fault can be   *)
(* read in full from then on, until the user deletes a clip.  Later clips  *)
(* must not take its name, hence the complete listings.                    *)
(***************************************************************************)
THEOREM CleanStopKeepsAll == ~ShortListings => (Spec => []CleanStopIsWhole)
<1> SUFFICES ASSUME ~ShortListings PROVE Spec => []CleanStopIsWhole
  OBVIOUS
<1>1. Init => EndedWhole
  BY DEF Init, NotEnded, EndedWhole
<1>2. DcfInv /\ DcfInv' /\ CardInv /\ EndedWhole /\ [Next]_vars => EndedWhole'
  BY EndedStep
<1>3. EndedWhole => CleanStopIsWhole
  BY DEF EndedWhole, CleanStopIsWhole
<1> QED BY <1>1, <1>2, <1>3, NamesInvariant, CardInvariant, PTL DEF Spec

-----------------------------------------------------------------------------
(* When the header on the card is the one in the buffer *)

SameHeader(f) == f.disk.hdr = Saved(f).hdr

LEMMA SameHeaderStays ==
  ASSUME NEW f, NEW g, Grows(f, g), SameHeader(f)
  PROVE  SameHeader(g)
BY DEF SameHeader, Grows, More

LEMMA AwaySameHeader ==
  ASSUME NEW f, Buffered(f), f.sect # 0
  PROVE  SameHeader(f)
BY SavedIs DEF SameHeader, Buffered

(* To write from a sector boundary on, the buffer is written back first. *)
LEMMA BoundarySettles ==
  ASSUME NEW f, Standing(f), f.ok, f.ptr % Sector = 0, NEW n \in Nat,
         PutFromBoundary(f, n).ok
  PROVE  SameHeader(PutFromBoundary(f, n))
<1> DEFINE g == FlushOrAbort(f)
           h == PutSectors(g, n \div Sector)
           w == PutRest(h, n % Sector)
<1>1. /\ Buffered(f) /\ f \in Files /\ f.ptr \in Nat /\ ~f.err /\ f.ptr <= f.size
      /\ f.sect < f.ptr \div Sector /\ OnCard(Saved(f), f.ptr)
  BY DEF Standing, Buffered, Files, InPlace
<1>2. n \div 512 \in Nat /\ n % 512 \in 0 .. 511
  BY Division
<1>3. CASE NoCluster(f)
  <2>1. PutFromBoundary(f, n) = [f EXCEPT !.ok = FALSE]
    BY <1>3 DEF PutFromBoundary
  <2>2. ~[f EXCEPT !.ok = FALSE].ok
    BY <1>1, FalseIs
  <2> QED BY <2>1, <2>2
<1>4. CASE ~NoCluster(f)
  <2>1. PutFromBoundary(f, n) = IF g.ok THEN w ELSE g
    BY <1>4 DEF PutFromBoundary
  <2>2. /\ Buffered(g) /\ SamePlace(f, g) /\ Saved(g) = Saved(f) /\ g.sect = f.sect
        /\ g.ok => ~g.dirty /\ g.err = f.err /\ g.disk = Saved(f)
    BY <1>1, FlushOrAbortIs
  <2> HIDE DEF g
  <2>3. g.ok
    BY <2>1
  <2>4. SameHeader(g)
    BY <2>2, <2>3 DEF SameHeader
  <2>5. g.ptr % Sector = 0 /\ g.sect < g.ptr \div Sector /\ g.ptr <= g.size
        /\ OnCard(Saved(g), g.ptr)
    BY <1>1, <2>2 DEF SamePlace
  <2>6. /\ Buffered(h) /\ Grows(g, h) /\ h.ptr <= h.size
        /\ h.ok => /\ h.ptr = g.ptr + (n \div 512) * 512 /\ h.err = g.err /\ ~h.dirty
                   /\ h.sect = g.sect /\ OnCard(Saved(h), h.ptr)
    BY <1>2, <2>2, <2>3, <2>5, PutSectorsIs DEF Sector
  <2> HIDE DEF h
  <2>7. SameHeader(h)
    BY <2>4, <2>6, SameHeaderStays
  <2>8. CASE ~h.ok
    BY <2>1, <2>3, <2>7, <2>8 DEF PutRest
  <2>9. CASE h.ok
    <3>1. h.ptr % Sector = 0 /\ h.sect < h.ptr \div Sector
      <4> DEFINE p == g.ptr
                 k == n \div 512
      <4>1. p \in Nat /\ k \in Nat /\ p % 512 = 0 /\ g.sect < p \div 512 /\ g.sect \in Int
        BY <1>2, <2>2, <2>5 DEF Buffered, Files, Sector
      <4>2. h.ptr = p + k * 512
        BY <2>6, <2>9
      <4> HIDE DEF p, k
      <4>3. (p + k * 512) % 512 = 0 /\ p \div 512 <= (p + k * 512) \div 512
        BY <4>1
      <4>4. p \div 512 \in Int /\ (p + k * 512) \div 512 \in Int
        BY <4>1
      <4> QED BY <2>6, <2>9, <4>1, <4>2, <4>3, <4>4 DEF Sector
    <3>2. Standing(h)
      BY <1>1, <2>2, <2>3, <2>6, <2>9, <3>1 DEF Standing, InPlace
    <3>3. Took(h, w, n % 512)
      BY <1>2, <2>6, <2>9, <3>1, <3>2, PutRestIs DEF Sector
    <3> HIDE DEF w
    <3> QED BY <2>1, <2>3, <2>7, <3>3, SameHeaderStays DEF Took
  <2> QED BY <2>8, <2>9
<1> QED BY <1>3, <1>4

LEMMA FirstSector ==
  ASSUME NEW p \in Nat, NEW n \in Nat, p \div 512 = 0, (p % 512) + n <= 512
  PROVE  p + n <= 512
OBVIOUS

(* A write leaves the first sector behind and the header on the card, or   *)
(* stays within that sector.                                               *)
LEMMA WriteSettles ==
  ASSUME NEW f, Standing(f), NEW n \in Nat \ {0}, f_write(f, n).ok
  PROVE  SameHeader(f_write(f, n)) \/ f_write(f, n).ptr <= 512
<1> DEFINE first == FirstPiece(f.ptr, n)
           g == [f EXCEPT !.ok = TRUE]
           h == IF first = 0 THEN g ELSE Put(g, first)
<1>1. /\ Buffered(f) /\ f.ptr \in Nat /\ ~f.err
  BY DEF Standing, Buffered, Files
<1>2. /\ Standing(g) /\ Buffered(g) /\ g.ptr = f.ptr /\ g.sect = f.sect /\ g.ok /\ ~g.err
  BY <1>1, TrueIs DEF SamePlace, SameView
<1>3. /\ first \in Nat /\ (f.ptr % 512) + first <= 512 /\ n - first \in Nat
      /\ first = 0 => f.ptr % 512 = 0
      /\ first # 0 => f.ptr % 512 # 0
      /\ n # first => (f.ptr + first) % 512 = 0
  <2> DEFINE p == f.ptr
  <2>1. p \in Nat
    BY <1>1
  <2> HIDE DEF p
  <2>2. /\ FirstPiece(p, n) \in Nat /\ (p % 512) + FirstPiece(p, n) <= 512
        /\ n - FirstPiece(p, n) \in Nat
        /\ FirstPiece(p, n) = 0 => p % 512 = 0
        /\ FirstPiece(p, n) # 0 => p % 512 # 0
        /\ n # FirstPiece(p, n) => (p + FirstPiece(p, n)) % 512 = 0
    BY <2>1, FirstPieceIs
  <2> QED BY <2>2 DEF p
<1>4. f_write(f, n) = IF n = first THEN h ELSE PutFromBoundary(h, n - first)
  BY <1>1 DEF f_write, FirstPiece
<1> HIDE DEF g, first
<1>5. /\ Standing(h) /\ Buffered(h) /\ h.ok /\ h.ptr = f.ptr + first /\ h.sect = f.sect
      /\ first # 0 => f.sect = f.ptr \div 512
  <2>1. CASE first = 0
    <3>1. f.ptr + first = f.ptr
      BY <1>1, <2>1
    <3> QED BY <1>1, <1>2, <2>1, <3>1
  <2>2. CASE first # 0
    <3>1. g.sect = g.ptr \div Sector
      BY <1>2, <1>3, <2>2 DEF Standing, InPlace, Sector
    <3>2. first \in Nat \ {0} /\ (g.ptr % Sector) + first <= Sector /\ OnCard(Saved(g), g.ptr)
      BY <1>2, <1>3, <2>2 DEF Standing, Sector
    <3>3. Standing(Put(g, first)) /\ Put(g, first).sect = g.sect
      BY <1>2, <3>1, <3>2, PutStands
    <3>4. Put(g, first).ok /\ Put(g, first).ptr = g.ptr + first
      BY <1>2, <3>1, <3>2, PutIs
    <3> QED BY <1>2, <2>2, <3>1, <3>3, <3>4 DEF Standing, Sector
  <2> QED BY <2>1, <2>2
<1>6. CASE n = first
  <2>1. f_write(f, n) = h /\ first # 0
    BY <1>4, <1>6
  <2> HIDE DEF h
  <2>2. CASE h.sect # 0
    BY <1>5, <2>1, <2>2, AwaySameHeader
  <2>3. CASE h.sect = 0
    BY <1>1, <1>3, <1>5, <2>1, <2>3, FirstSector
  <2> QED BY <2>2, <2>3
<1>7. CASE n # first
  <2>1. h.ptr % Sector = 0
    BY <1>3, <1>5, <1>7 DEF Sector
  <2>2. f_write(f, n) = PutFromBoundary(h, n - first)
    BY <1>4, <1>7
  <2> HIDE DEF h
  <2> QED BY <1>3, <1>5, <2>1, <2>2, BoundarySettles
<1> QED BY <1>6, <1>7

LEMMA AddSettles ==
  ASSUME NEW x, Recording(x), NEW len \in Nat, ~avi_add(x, len).avi.error
  PROVE  LET y == avi_add(x, len) IN SameHeader(y.f) \/ y.f.ptr <= 512
<1> DEFINE n == avi_chunk_total(len)
           b == idx_stage(x.avi, len)
           w == [x EXCEPT !.avi = b]
           g == f_write(x.f, n)
           y == wr(w, n)
           d == chunk_done(y.avi, len)
           z == [y EXCEPT !.avi = d]
<1>1. x \in Muxes /\ x.avi \in Avis
  BY DEF Recording, MuxInv, Muxes
<1>2. ~x.avi.error
  BY DEF avi_add
<1>3. avi_add(x, len) = IF y.avi.error THEN y ELSE z
  BY <1>2 DEF avi_add
<1>4. n \in Nat \ {0}
  BY TotalIs
<1> HIDE DEF n
<1>5. b \in Avis /\ ~b.error
  BY <1>1, <1>2, StageIs
<1> HIDE DEF b
<1>6. w \in Muxes /\ w.avi = b /\ w.f = x.f
  BY <1>1, <1>5, WithAviIs
<1> HIDE DEF w
<1>7. Standing(x.f)
  BY <1>2 DEF Recording, Going
<1>8. Took(x.f, g, n)
  BY <1>4, <1>7, f_writeIs
<1>9. g.ok => SameHeader(g) \/ g.ptr <= 512
  BY <1>4, <1>7, WriteSettles
<1>10. y = Wrote(w, g, n)
  BY <1>5, <1>6 DEF wr
<1> HIDE DEF g
<1>11. y \in Muxes /\ y.f = g /\ (y.avi.error <=> ~g.ok)
  BY <1>4, <1>6, <1>8, <1>10, WroteIs DEF Took, Buffered
<1> HIDE DEF y
<1>12. d \in Avis /\ y.avi \in Avis
  BY <1>11, chunk_doneIs DEF Muxes
<1> HIDE DEF d
<1>13. z.f = y.f
  BY <1>11, <1>12, WithAviIs
<1> HIDE DEF z
<1>14. ~y.avi.error
  BY <1>3
<1> QED BY <1>3, <1>9, <1>11, <1>13, <1>14

(* After a refresh the card has the header it had, or the one that was in  *)
(* the buffer, or the new one.                                             *)
LEMMA RefreshSettles ==
  ASSUME NEW x, Recording(x), ~avi_refresh_header(x).avi.error
  PROVE  LET y == avi_refresh_header(x)
         IN  /\ y.f.disk.hdr \in {x.f.disk.hdr, Saved(x.f).hdr, Saved(y.f).hdr}
             /\ y.avi.off = x.avi.off
<1> DEFINE r == HdrSize - 8 + x.avi.movi_bytes
           h == Sizes4(Saved(x.f).hdr, r, x.avi.frames, x.avi.movi_bytes + 4)
           y == Resized(x, r)
           g == f_lseek(y.f, y.avi.off)
           z == ToEnd(y)
<1>1. ~x.avi.error
  BY DEF avi_refresh_header
<1>2. r \in Nat /\ ReadyFor(x, r)
  BY <1>1, ReadyToRefresh
<1>3. avi_refresh_header(x) = z
  BY <1>1 DEF avi_refresh_header, patch_header
<1>4. Patchable(x)
  BY <1>2 DEF ReadyFor
<1> HIDE DEF r
<1>5. Patching(x, y, h)
  BY <1>2, <1>4, ResizedIs
<1> HIDE DEF y, h
<1>6. ~y.avi.error
  BY <1>3 DEF ToEnd, Back
<1>7. Patchable(y) /\ Rewrites(x.f, y.f, h) /\ y \in Muxes /\ y.avi.off = x.avi.off
  BY <1>5, <1>6 DEF Patching
<1>8. y.f.disk.hdr \in {x.f.disk.hdr, Saved(x.f).hdr}
  BY <1>7 DEF Rewrites, More
<1>9. Buffered(y.f) /\ y.avi.off \in Nat
  BY <1>7 DEF Patchable, Muxes, Avis
<1>10. Grows(y.f, g) /\ Saved(g) = Saved(y.f) /\ Buffered(g)
  BY <1>9, f_lseekIs
<1>11. z = Back(y, g)
  BY DEF ToEnd
<1> HIDE DEF g
<1>12. z.f = g /\ z.avi.off = y.avi.off
  BY <1>6, <1>7, <1>10, <1>11, BackIs DEF Buffered
<1>13. g.disk.hdr \in {y.f.disk.hdr, Saved(y.f).hdr}
  BY <1>10 DEF Grows, More
<1> HIDE DEF z
<1> QED BY <1>3, <1>7, <1>8, <1>10, <1>12, <1>13

-----------------------------------------------------------------------------
(* The pictures that the header does not count yet *)

(* Every picture after the first m of n chunks is within an interval of m. *)
Within(c, m, n) == \A i \in 1 .. n : m < i /\ c[i] > 0 => i < m + RefreshEvery

(* The same, but for the last chunk. *)
WithinBut(c, m, n) ==
  \A i \in 1 .. n : m < i /\ c[i] > 0 => i < m + RefreshEvery \/ i = n

Counted(c) == Saved(c.f).hdr[OFF_TOTALFRAMES]

(* The header in the buffer is that of the last refresh, with no more than *)
(* an interval after it; the card has it too, or all is in the first       *)
(* sector, or that refresh is the latest step and the card has the one     *)
(* before.                                                                 *)
Exposed(c) ==
  /\ c.frames_written = c.avi.frames
  /\ c.last_refresh_frame <= c.avi.frames
  /\ Counted(c) = c.last_refresh_frame
  /\ Within(c.avi.chunks, c.last_refresh_frame, c.avi.frames)
  /\ \/ SameHeader(c.f)
     \/ c.avi.off <= Sector
     \/ /\ c.f.disk.hdr \in [Fields -> Nat] /\ c.f.disk.hdr[OFF_FLAGS] = 0
        /\ WithinBut(c.avi.chunks, c.f.disk.hdr[OFF_TOTALFRAMES], c.avi.frames)

Interval(c) == ~c.avi.error => Exposed(c)

LEMMA EmptyIsExposed == ASSUME NEW c, Empty(c) PROVE Interval(c)
<1>1. ~(\E i \in 1 .. 0 : TRUE)
  OBVIOUS
<1> QED BY <1>1 DEF Empty, Interval, Exposed, Within, Counted, HdrSize, Sector

(* What a chunk makes of it, before the refresh is looked at. *)
LEMMA ChunkExposes ==
  ASSUME NEW c, Sound(c), Interval(c), NEW len \in Nat,
         ~avi_add(Muxed(c), len).avi.error
  PROVE  LET y == avi_add(Muxed(c), len)
             n == c.avi.frames + 1
         IN  /\ ~c.avi.error /\ Exposed(c)
             /\ y.avi.frames = n /\ n \in Nat /\ y.avi.chunks \in Seq(Nat)
             /\ y.avi.chunks[n] = len
             /\ Saved(y.f).hdr = Saved(c.f).hdr /\ Saved(y.f).hdr \in [Fields -> Nat]
             /\ Saved(y.f).hdr[OFF_FLAGS] = 0
             /\ WithinBut(y.avi.chunks, c.last_refresh_frame, n)
             /\ SameHeader(y.f) \/ y.avi.off <= Sector
<1> DEFINE x == Muxed(c)
           y == avi_add(x, len)
           n == c.avi.frames + 1
           l == c.last_refresh_frame
<1>1. c \in OpenClips /\ Recording(x) /\ IndexInv(x.avi) /\ x.avi = c.avi /\ x.f = c.f
  BY MuxedIs DEF Sound
<1> HIDE DEF x
<1>2. /\ Recording(y) /\ ~x.avi.error /\ y.avi.frames = x.avi.frames + 1
      /\ y.avi.chunks = Append(x.avi.chunks, len) /\ Saved(y.f).hdr = Saved(x.f).hdr
  BY <1>1, avi_addIs DEF x
<1>3. SameHeader(y.f) \/ y.f.ptr <= 512
  BY <1>1, AddSettles DEF x
<1>4. ~y.avi.error
  BY DEF x
<1> HIDE DEF y
<1>5. Exposed(c) /\ ~c.avi.error
  BY <1>1, <1>2 DEF Interval
<1>6. /\ x.avi.chunks \in Seq(Nat) /\ x.avi.frames = Len(x.avi.chunks) /\ x.avi.frames \in Nat
      /\ l \in Nat
  BY <1>1 DEF Recording, MuxInv, Muxes, Avis, OpenClips
<1>7. /\ y.avi.chunks \in Seq(Nat) /\ y.avi.chunks[n] = len
      /\ \A i \in 1 .. c.avi.frames : y.avi.chunks[i] = c.avi.chunks[i]
  <2> DEFINE k == x.avi.chunks
             e == Append(k, len)
  <2>1. k \in Seq(Nat) /\ Len(k) = c.avi.frames /\ y.avi.chunks = e /\ k = c.avi.chunks
    BY <1>1, <1>2, <1>6
  <2> HIDE DEF k
  <2>2. e \in Seq(Nat) /\ Len(e) = Len(k) + 1 /\ e[Len(e)] = len
        /\ \A i \in 1 .. Len(k) : e[i] = k[i]
    BY <2>1, ChunkBytesAppend
  <2> HIDE DEF e
  <2> QED BY <2>1, <2>2
<1>8. n \in Nat /\ \A i \in 1 .. n : i = n \/ i \in 1 .. c.avi.frames
  BY <1>1, <1>6
<1>9. WithinBut(y.avi.chunks, l, n)
  <2> SUFFICES ASSUME NEW i \in 1 .. n, l < i, y.avi.chunks[i] > 0, i # n
               PROVE  i < l + RefreshEvery
    BY DEF WithinBut
  <2>1. i \in 1 .. c.avi.frames /\ y.avi.chunks[i] = c.avi.chunks[i]
    BY <1>7, <1>8
  <2> QED BY <1>5, <2>1 DEF Exposed, Within
<1>10. /\ Saved(y.f).hdr \in [Fields -> Nat] /\ Saved(y.f).hdr[OFF_FLAGS] = 0
       /\ y.f.ptr = y.avi.off
  BY <1>2, <1>4 DEF Recording, Going
<1> QED BY <1>1, <1>2, <1>3, <1>5, <1>7, <1>8, <1>9, <1>10 DEF x, y, Sector

LEMMA EmptyFrameExposes ==
  ASSUME NEW c, Sound(c), Interval(c)
  PROVE  Interval(WithEmptyFrame(c))
<1> DEFINE z == 0
           e == WithEmptyFrame(c)
           y == avi_add(Muxed(c), z)
           n == c.avi.frames + 1
           l == c.last_refresh_frame
<1>0. z \in Nat /\ z = 0
  OBVIOUS
<1>1. /\ e.avi = y.avi /\ e.f = y.f /\ e.frames_written = c.frames_written + 1
      /\ e.last_refresh_frame = l
  BY WithEmptyFrameIs
<1> HIDE DEF e, z
<1> SUFFICES ASSUME ~y.avi.error PROVE Exposed(e)
  BY <1>1 DEF Interval, e
<1>2. /\ ~c.avi.error /\ Exposed(c)
      /\ y.avi.frames = n /\ n \in Nat /\ y.avi.chunks[n] = z
      /\ Saved(y.f).hdr = Saved(c.f).hdr
      /\ WithinBut(y.avi.chunks, l, n)
      /\ SameHeader(y.f) \/ y.avi.off <= Sector
  BY <1>0, ChunkExposes
<1> HIDE DEF y
<1>3. c.avi.frames \in Nat /\ l \in Nat
  BY DEF Sound, OpenClips, Avis
<1>4. Within(y.avi.chunks, l, n)
  <2>1. ~(y.avi.chunks[n] > 0)
    BY <1>0, <1>2
  <2> QED BY <1>2, <2>1 DEF Within, WithinBut
<1>5. e.frames_written = n /\ l <= n /\ Counted(e) = l
  BY <1>1, <1>2, <1>3 DEF Exposed, Counted
<1> QED BY <1>1, <1>2, <1>4, <1>5 DEF Exposed

LEMMA RefreshExposes ==
  ASSUME NEW a, Sound(a),
         ~a.avi.error => /\ a.frames_written = a.avi.frames
                         /\ a.last_refresh_frame <= a.avi.frames
                         /\ Counted(a) = a.last_refresh_frame
                         /\ WithinBut(a.avi.chunks, a.last_refresh_frame, a.avi.frames)
                         /\ SameHeader(a.f) \/ a.avi.off <= Sector
  PROVE  Interval(RefreshIfDue(a))
<1> DEFINE l == a.last_refresh_frame
           n == a.avi.frames
           x == Muxed(a)
           y == avi_refresh_header(x)
           w == With(a, y)
           e == Noted(w)
<1>1. /\ a \in OpenClips /\ Recording(x) /\ IndexInv(x.avi) /\ x.avi = a.avi /\ x.f = a.f
      /\ l \in Nat /\ n \in Nat /\ a.frames_written \in Nat /\ RefreshEvery \in Nat
  BY MuxedIs, CardFilesConstants DEF Sound, OpenClips, Avis
<1>2. CASE a.avi.error
  BY <1>2 DEF RefreshIfDue, Interval
<1>3. CASE ~a.avi.error /\ ~RefreshDue(a)
  <2>1. RefreshIfDue(a) = a
    BY <1>3 DEF RefreshIfDue
  <2>2. n < l + RefreshEvery
    BY <1>1, <1>3 DEF RefreshDue
  <2>3. Within(a.avi.chunks, l, n)
    <3> SUFFICES ASSUME NEW i \in 1 .. n, l < i, a.avi.chunks[i] > 0
                 PROVE  i < l + RefreshEvery
      BY DEF Within
    <3> QED BY <1>1, <1>3, <2>2 DEF WithinBut
  <2> QED BY <1>3, <2>1, <2>3 DEF Interval, Exposed
<1>4. CASE ~a.avi.error /\ RefreshDue(a)
  <2>1. RefreshIfDue(a) = e
    BY <1>4 DEF RefreshIfDue
  <2> HIDE DEF x
  <2>2. /\ Recording(y)
        /\ SameCount(x, y)
        /\ y \in Muxes
        /\ ~y.avi.error => Saved(y.f).hdr[OFF_TOTALFRAMES] = x.avi.frames
    <3>1. /\ Recording(y)
          /\ SameCount(x, y)
          /\ ~y.avi.error => Saved(y.f).hdr[OFF_TOTALFRAMES] = x.avi.frames
      BY <1>1, avi_refreshIs DEF x
    <3> QED BY <3>1 DEF Recording, MuxInv
  <2>3. ~y.avi.error => /\ y.f.disk.hdr \in {x.f.disk.hdr, Saved(x.f).hdr, Saved(y.f).hdr}
                        /\ y.avi.off = x.avi.off
    BY <1>1, RefreshSettles DEF x
  <2> HIDE DEF y
  <2>4. w \in OpenClips /\ w.avi = y.avi /\ w.f = y.f /\ w.frames_written = a.frames_written
    BY <1>1, <2>2, WithIs
  <2> HIDE DEF w
  <2>5. /\ e.avi = w.avi /\ e.f = w.f /\ e.frames_written = w.frames_written
        /\ e.last_refresh_frame = w.frames_written
    BY <2>4, NotedIs
  <2> HIDE DEF e
  <2>6. ASSUME ~y.avi.error PROVE Exposed(e)
    <3>1. e.frames_written = n /\ e.last_refresh_frame = n /\ e.avi.frames = n /\ Counted(e) = n
          /\ e.avi.chunks = a.avi.chunks /\ e.avi.off = a.avi.off
      BY <1>1, <1>4, <2>2, <2>3, <2>4, <2>5, <2>6 DEF SameCount, Counted
    <3>2. Within(e.avi.chunks, n, n)
      BY <1>1 DEF Within
    <3>3. CASE a.avi.off <= Sector
      BY <1>1, <3>1, <3>2, <3>3 DEF Exposed
    <3>4. CASE SameHeader(a.f) /\ e.f.disk.hdr = Saved(e.f).hdr
      BY <1>1, <3>1, <3>2, <3>4 DEF Exposed, SameHeader
    <3>5. CASE SameHeader(a.f) /\ e.f.disk.hdr = Saved(a.f).hdr
      <4>1. /\ Saved(a.f).hdr \in [Fields -> Nat] /\ Saved(a.f).hdr[OFF_FLAGS] = 0
            /\ Saved(a.f).hdr[OFF_TOTALFRAMES] = l
        BY <1>1, <1>4 DEF Recording, Going, Counted
      <4>2. WithinBut(e.avi.chunks, e.f.disk.hdr[OFF_TOTALFRAMES], n)
        BY <1>4, <3>1, <3>5, <4>1
      <4> QED BY <1>1, <3>1, <3>2, <3>5, <4>1, <4>2 DEF Exposed
    <3>6. SameHeader(a.f) => e.f.disk.hdr \in {Saved(a.f).hdr, Saved(e.f).hdr}
      BY <1>1, <2>3, <2>4, <2>5, <2>6 DEF SameHeader
    <3> QED BY <1>4, <3>3, <3>4, <3>5, <3>6
  <2> QED BY <2>1, <2>4, <2>5, <2>6 DEF Interval
<1> QED BY <1>2, <1>3, <1>4

LEMMA FrameExposes ==
  ASSUME NEW c, Sound(c), Interval(c), NEW len \in Nat
  PROVE  Interval(WithFrame(c, len))
<1> DEFINE x == Muxed(c)
           y == avi_add(x, len)
           a == Added(c, y)
           n == c.avi.frames + 1
           l == c.last_refresh_frame
<1>1. c \in OpenClips /\ Recording(x) /\ IndexInv(x.avi)
  BY MuxedIs DEF Sound
<1>2. ~y.avi.error =>
         /\ Exposed(c)
         /\ y.avi.frames = n /\ n \in Nat
         /\ Saved(y.f).hdr = Saved(c.f).hdr
         /\ WithinBut(y.avi.chunks, l, n)
         /\ SameHeader(y.f) \/ y.avi.off <= Sector
  BY ChunkExposes
<1> HIDE DEF x
<1>3. Recording(y) /\ IndexInv(y.avi) /\ y \in Muxes
  <2>1. Recording(y) /\ IndexInv(y.avi)
    BY <1>1, avi_addIs
  <2> QED BY <2>1 DEF Recording, MuxInv
<1>4. WithFrame(c, len) = RefreshIfDue(a)
  BY DEF WithFrame, x
<1> HIDE DEF y
<1>5. /\ a \in OpenClips /\ Muxed(a) = y /\ a.avi = y.avi /\ a.f = y.f
      /\ a.frames_written = IF y.avi.error THEN c.frames_written ELSE c.frames_written + 1
      /\ a.last_refresh_frame = l
  BY <1>1, <1>3, AddedIs
<1> HIDE DEF a
<1>6. Sound(a)
  BY <1>3, <1>5 DEF Sound
<1>7. ASSUME ~a.avi.error
      PROVE  /\ a.frames_written = a.avi.frames
             /\ a.last_refresh_frame <= a.avi.frames
             /\ Counted(a) = a.last_refresh_frame
             /\ WithinBut(a.avi.chunks, a.last_refresh_frame, a.avi.frames)
             /\ SameHeader(a.f) \/ a.avi.off <= Sector
  <2>1. c.avi.frames \in Nat /\ l \in Nat
    BY <1>1 DEF OpenClips, Avis
  <2> QED BY <1>2, <1>5, <1>7, <2>1 DEF Exposed, Counted
<1> QED BY <1>4, <1>6, <1>7, RefreshExposes

LEMMA AlmostWithinCosts ==
  ASSUME NEW c, NEW m \in Nat, NEW n \in Nat, WithinBut(c, m, n)
  PROVE  Cardinality({i \in m + 1 .. n : c[i] > 0}) <= RefreshEvery
<1> DEFINE A == {i \in m + 1 .. n : c[i] > 0}
           k == RefreshEvery - 1
           I == m + 1 .. m + k
           J == I \cup {n}
<1>1. k \in Nat /\ RefreshEvery = k + 1
  BY CardFilesConstants
<1> HIDE DEF k
<1>2. IsFiniteSet(I) /\ Cardinality(I) = k
  <2> DEFINE a == m + 1
             b == m + k
  <2>1. a \in Int /\ b \in Int /\ (a > b => k = 0) /\ (~(a > b) => b - a + 1 = k)
    BY <1>1
  <2> HIDE DEF a, b
  <2>2. IsFiniteSet(a .. b) /\ Cardinality(a .. b) = IF a > b THEN 0 ELSE b - a + 1
    BY <2>1, FS_Interval
  <2> QED BY <2>1, <2>2 DEF a, b
<1>3. A \subseteq J
  <2> SUFFICES ASSUME NEW i \in m + 1 .. n, c[i] > 0 PROVE i \in J
    OBVIOUS
  <2>1. i \in 1 .. n /\ m < i /\ i \in Int
    OBVIOUS
  <2>2. i < m + RefreshEvery \/ i = n
    BY <2>1 DEF WithinBut
  <2> QED BY <1>1, <2>1, <2>2
<1> HIDE DEF A, I
<1>4. IsFiniteSet(J) /\ Cardinality(J) <= k + 1 /\ Cardinality(J) \in Nat
  <2>1. IsFiniteSet(J) /\ Cardinality(J) = IF n \in I THEN Cardinality(I) ELSE Cardinality(I) + 1
    BY <1>2, FS_AddElement
  <2> HIDE DEF J
  <2> QED BY <1>1, <1>2, <2>1
<1> HIDE DEF J
<1>5. IsFiniteSet(A) /\ Cardinality(A) <= Cardinality(J)
  BY <1>3, <1>4, FS_Subset
<1>6. Cardinality(A) \in Nat
  BY <1>5, FS_CardinalityType
<1> QED BY <1>1, <1>4, <1>5, <1>6 DEF A

(* A card that has all of the clip's bytes lets all that its header counts *)
(* be read.                                                                *)
LEMMA AllCountedRead ==
  ASSUME NEW c, Sound(c), c.f.disk.hdr \in [Fields -> Nat],
         HdrSize + c.avi.movi_bytes <= c.f.disk.size
  PROVE  Settled(c) = c.f.disk.hdr[OFF_TOTALFRAMES] /\ Settled(c) \in Nat
<1> DEFINE d == c.f.disk
           s == c.avi.chunks
           n == c.avi.frames
           t == d.hdr[OFF_TOTALFRAMES]
<1>1. MuxInv(Muxed(c)) /\ Muxed(c).avi = c.avi /\ Muxed(c).f = c.f
  BY SoundIs
<1>2. /\ d \in Disks /\ s \in Seq(Nat) /\ n = Len(s) /\ n \in Nat
      /\ c.avi.movi_bytes = ChunkBytes(s, n) /\ HeaderTrue(d, s)
      /\ Settled(c) = Readable(d, s) /\ Settled(c) \in Nat
  <2> DEFINE x == Muxed(c)
  <2>1. MuxInv(x) /\ c.avi = x.avi /\ c.f = x.f
    BY <1>1
  <2> HIDE DEF x
  <2>2. Settled(c) = Readable(x.f.disk, x.avi.chunks) /\ Settled(c) \in Nat
    BY <2>1, SettledIs
  <2> QED BY <2>1, <2>2 DEF MuxInv, Truthful, Muxes, Avis, Files
<1>3. d.hdr # NoHeader
  BY AviSizes
<1>4. HdrSize + ChunkBytes(s, n) <= d.size
  BY <1>2
<1> HIDE DEF d, s, n
<1>5. /\ t \in 0 .. Len(s)
      /\ HdrSize + ChunkBytes(s, t) <= d.size => Readable(d, s) = t
  BY <1>2, <1>3, ReadableIs
<1> HIDE DEF t
<1>6. ChunkBytes(s, t) <= ChunkBytes(s, n) /\ ChunkBytes(s, t) \in Nat /\ ChunkBytes(s, n) \in Nat
  <2>1. n \in 0 .. Len(s) /\ t <= n
    BY <1>2, <1>5
  <2> QED BY <1>2, <1>5, <2>1, BytesGrow, ChunkBytesIs
<1>7. HdrSize + ChunkBytes(s, t) <= d.size
  <2>1. d.size \in Nat
    BY <1>2 DEF Disks
  <2> QED BY <1>4, <1>6, <2>1 DEF HdrSize
<1> QED BY <1>2, <1>5, <1>7 DEF t, d

LEMMA IntervalCosts ==
  ASSUME RefreshEvery >= 24, Sound(cur), Interval(cur), ~cur.avi.error,
         HdrSize + cur.avi.movi_bytes <= cur.f.disk.size
  PROVE  AtRisk <= RefreshEvery
<1> DEFINE c == cur
           d == c.f.disk
           s == c.avi.chunks
           n == c.avi.frames
           r == Settled(c)
<1>1. Sound(c) /\ Exposed(c) /\ ~c.avi.error
  BY DEF Interval
<1>2. MuxInv(Muxed(c)) /\ Recording(Muxed(c)) /\ Muxed(c).avi = c.avi /\ Muxed(c).f = c.f
      /\ r \in Nat
  BY <1>1, SoundIs DEF Sound
<1>3. /\ s \in Seq(Nat) /\ n \in Nat /\ n = Len(s) /\ RefreshEvery \in Nat
      /\ c.avi.movi_bytes = ChunkBytes(s, n) /\ c.avi.off = HdrSize + c.avi.movi_bytes
      /\ Saved(c.f).hdr \in [Fields -> Nat]
  BY <1>1, <1>2, CardFilesConstants DEF Recording, Going, MuxInv, Muxes, Avis
<1>4. AtRisk = Cardinality({i \in r + 1 .. n : s[i] > 0})
  BY DEF AtRisk
<1>5. CASE c.avi.off <= Sector
  <2> DEFINE A == {i \in r + 1 .. n : s[i] > 0}
             P == Pictures(s, n)
             b == ChunkBytes(s, n)
  <2>1. b \in Nat /\ b <= 288
    <3>1. n \in 0 .. Len(s)
      BY <1>3
    <3>2. b \in Nat
      BY <1>3, <3>1, ChunkBytesIs
    <3>3. HdrSize + b <= 512
      BY <1>3, <1>5 DEF Sector
    <3> HIDE DEF b
    <3> QED BY <3>2, <3>3 DEF HdrSize
  <2>2. 12 * Cardinality(P) <= b
    <3>1. n \in 0 .. Len(s)
      BY <1>3
    <3> QED BY <1>3, <3>1, PicturesWeigh
  <2> HIDE DEF b
  <2>3. IsFiniteSet(P) /\ Cardinality(P) \in Nat
    BY <1>3, PicturesFinite
  <2>4. A \subseteq P
    BY <1>2 DEF Pictures
  <2> HIDE DEF A, P
  <2>5. IsFiniteSet(A) /\ Cardinality(A) <= Cardinality(P)
    BY <2>3, <2>4, FS_Subset
  <2>6. Cardinality(A) \in Nat
    BY <2>5, FS_CardinalityType
  <2>7. Cardinality(A) <= RefreshEvery
    BY <1>3, <2>1, <2>2, <2>3, <2>5, <2>6
  <2> QED BY <1>4, <2>7 DEF A
<1>6. ASSUME d.hdr \in [Fields -> Nat], WithinBut(s, d.hdr[OFF_TOTALFRAMES], n)
      PROVE  AtRisk <= RefreshEvery
  <2>1. r = d.hdr[OFF_TOTALFRAMES]
    BY <1>1, <1>6, AllCountedRead
  <2>2. WithinBut(s, r, n)
    BY <1>6, <2>1
  <2> HIDE DEF r, s, n
  <2> QED BY <1>2, <1>3, <1>4, <2>2, AlmostWithinCosts
<1>7. CASE SameHeader(c.f)
  <2>1. d.hdr \in [Fields -> Nat] /\ d.hdr[OFF_TOTALFRAMES] = Counted(c)
    BY <1>3, <1>7 DEF SameHeader, Counted
  <2>2. Within(s, Counted(c), n)
    BY <1>1 DEF Exposed
  <2>3. WithinBut(s, Counted(c), n)
    BY <2>2 DEF Within, WithinBut
  <2> QED BY <1>6, <2>1, <2>3
<1>8. CASE d.hdr \in [Fields -> Nat] /\ WithinBut(s, d.hdr[OFF_TOTALFRAMES], n)
  BY <1>6, <1>8
<1> QED BY <1>1, <1>5, <1>7, <1>8 DEF Exposed

-----------------------------------------------------------------------------
(* ... through every step *)

CutInv == cur # Closed => Interval(cur)

LEMMA IntervalOn ==
  ASSUME NEW c, NEW e, Interval(c), e.avi = c.avi, e.f.disk = c.f.disk, Saved(e.f) = Saved(c.f),
         e.frames_written = c.frames_written, e.last_refresh_frame = c.last_refresh_frame
  PROVE  Interval(e)
BY DEF Interval, Exposed, SameHeader, Counted

LEMMA RecordedCosts ==
  ASSUME NEW fault \in Faults, NEW c, Sound(c), Interval(c), Recorded(c, fault)
  PROVE  CutInv'
<1>1. CASE cur' = [c EXCEPT !.f = Disarmed(@)]
  <2> DEFINE e == [c EXCEPT !.f = Disarmed(@)]
  <2>1. /\ e.avi = c.avi /\ e.f.disk = c.f.disk /\ Saved(e.f) = Saved(c.f)
        /\ e.frames_written = c.frames_written
        /\ e.last_refresh_frame = c.last_refresh_frame
    BY SoundDisarmed
  <2> HIDE DEF e
  <2>2. Interval(e)
    BY <2>1, IntervalOn
  <2> QED BY <1>1, <2>2 DEF e, CutInv
<1>2. CASE cur' = Closed
  BY <1>2 DEF CutInv
<1> QED BY <1>1, <1>2 DEF Recorded, Dies

LEMMA AddFrameCosts ==
  ASSUME CardInv, CutInv, NEW len \in Sizes, NEW fault \in Faults, AddFrame(len, fault)
  PROVE  CutInv'
<1> DEFINE a == [cur EXCEPT !.f = Armed(@, fault)]
           c == WithFrame(a, len)
<1>1. Sound(cur) /\ Interval(cur)
  BY ClosedIs DEF AddFrame, CardInv, OpenOK, CutInv
<1>2. len \in Nat
  BY CardFilesConstants
<1>3. /\ Sound(a) /\ a.avi = cur.avi /\ a.f.disk = cur.f.disk /\ Saved(a.f) = Saved(cur.f)
      /\ a.frames_written = cur.frames_written
      /\ a.last_refresh_frame = cur.last_refresh_frame
  BY <1>1, SoundArmed
<1>4. Recorded(c, fault)
  BY DEF AddFrame
<1> HIDE DEF a
<1>5. Interval(a)
  BY <1>1, <1>3, IntervalOn
<1>6. Sound(c) /\ Interval(c)
  BY <1>2, <1>3, <1>5, WithFrameIs, FrameExposes
<1> HIDE DEF c
<1> QED BY <1>4, <1>6, RecordedCosts

LEMMA AddEmptyFrameCosts ==
  ASSUME CardInv, CutInv, NEW fault \in Faults, AddEmptyFrame(fault)
  PROVE  CutInv'
<1> DEFINE a == [cur EXCEPT !.f = Armed(@, fault)]
           c == WithEmptyFrame(a)
<1>1. Sound(cur) /\ Interval(cur)
  BY ClosedIs DEF AddEmptyFrame, CardInv, OpenOK, CutInv
<1>3. /\ Sound(a) /\ a.avi = cur.avi /\ a.f.disk = cur.f.disk /\ Saved(a.f) = Saved(cur.f)
      /\ a.frames_written = cur.frames_written
      /\ a.last_refresh_frame = cur.last_refresh_frame
  BY <1>1, SoundArmed
<1>4. Recorded(c, fault)
  BY DEF AddEmptyFrame
<1> HIDE DEF a
<1>5. Interval(a)
  BY <1>1, <1>3, IntervalOn
<1>6. Sound(c) /\ Interval(c)
  BY <1>3, <1>5, WithEmptyFrameIs, EmptyFrameExposes
<1> HIDE DEF c
<1> QED BY <1>4, <1>6, RecordedCosts

LEMMA CutStep ==
  ASSUME DcfTypeOK, DcfTypeOK', CardInv, CutInv, [Next]_vars PROVE CutInv'
<1>1. ASSUME NEW d \in ScanResults, NEW fault \in Faults, ClipStart(d, fault) PROVE CutInv'
  <2>1. cur' = Closed \/ Empty(cur')
    BY <1>1, ClipStartIs
  <2> QED BY <2>1, EmptyIsExposed DEF CutInv
<1>2. CASE ClipStartRefused
  BY <1>2 DEF ClipStartRefused, fileVars, CutInv
<1>3. ASSUME NEW fault \in Faults, ClipStop(fault) PROVE CutInv'
  BY <1>3, ClipStopIs DEF CutInv
<1>4. CASE PowerCut
  BY <1>4 DEF PowerCut, CutInv
<1>5. CASE UserDeletes
  BY <1>5, UserDeletesIs DEF CutInv
<1>6. CASE UNCHANGED vars
  BY <1>6 DEF vars, fileVars, CutInv
<1> QED BY <1>1, <1>2, <1>3, <1>4, <1>5, <1>6, AddFrameCosts, AddEmptyFrameCosts DEF Next

(***************************************************************************)
(* CutCostsAnInterval: a power cut costs at most RefreshEvery pictures of  *)
(* a clip within its reserved space.  The header is rewritten when that    *)
(* many frames were added, but stays in the sector buffer until the next   *)
(* write or seek beyond the first sector: RefreshEvery >= 24 is what makes *)
(* the clip longer than that sector by then, as 24 pictures take 12 bytes  *)
(* or more each and the header 224 of 512.  The code refreshes every 30.   *)
(***************************************************************************)
THEOREM CutCostsBounded == RefreshEvery >= 24 => (Spec => []CutCostsAnInterval)
<1> SUFFICES ASSUME RefreshEvery >= 24 PROVE Spec => []CutCostsAnInterval
  OBVIOUS
<1>1. Init => CutInv
  BY DEF Init, CutInv
<1>2. DcfTypeOK /\ DcfTypeOK' /\ CardInv /\ CutInv /\ [Next]_vars => CutInv'
  BY CutStep
<1>3. CardInv /\ CutInv => CutCostsAnInterval
  <2> SUFFICES ASSUME CardInv, CutInv, cur.open, ~cur.avi.error,
                      HdrSize + cur.avi.movi_bytes <= cur.f.disk.size
               PROVE  AtRisk <= RefreshEvery
    BY DEF CutCostsAnInterval
  <2>1. Sound(cur) /\ Interval(cur)
    BY ClosedIs DEF CardInv, OpenOK, CutInv
  <2> QED BY <2>1, IntervalCosts
<1> QED BY <1>1, <1>2, <1>3, NamesTyped, CardInvariant, PTL DEF Spec

-----------------------------------------------------------------------------
(* What can be read of a clip only grows: the header in the buffer is never *)
(* behind the one on the card, nor the file's size behind its entry.        *)

FramesOf(h) == IF h = NoHeader THEN 0 ELSE h[OFF_TOTALFRAMES]

Ahead(f) ==
  /\ FramesOf(f.disk.hdr) <= FramesOf(Saved(f).hdr)
  /\ f.disk.size <= f.size

Furthers(f, g) ==
  /\ FramesOf(f.disk.hdr) <= FramesOf(g.disk.hdr)
  /\ f.disk.size <= g.disk.size

LEMMA FramesOfIs ==
  ASSUME NEW h \in Headers
  PROVE  FramesOf(h) \in Nat /\ (h # NoHeader => h \in [Fields -> Nat])
BY FieldIs DEF FramesOf, Headers

LEMMA CountsAre ==
  ASSUME NEW f, Buffered(f)
  PROVE  /\ FramesOf(f.disk.hdr) \in Nat /\ FramesOf(Saved(f).hdr) \in Nat
         /\ f.disk.size \in Nat /\ f.size \in Nat
         /\ f.disk \in Disks /\ Saved(f) \in Disks
<1>1. f.disk \in Disks /\ Saved(f) \in Disks /\ f.size \in Nat
  BY SavedIs DEF Buffered, Files
<1>2. f.disk.hdr \in Headers /\ Saved(f).hdr \in Headers /\ f.disk.size \in Nat
  BY <1>1 DEF Disks
<1> QED BY <1>1, <1>2, FramesOfIs

LEMMA FurthersTrans ==
  ASSUME NEW f, NEW g, NEW h, Buffered(f), Buffered(g), Buffered(h),
         Furthers(f, g), Furthers(g, h)
  PROVE  Furthers(f, h)
<1>1. /\ FramesOf(f.disk.hdr) \in Nat /\ f.disk.size \in Nat
      /\ FramesOf(g.disk.hdr) \in Nat /\ g.disk.size \in Nat
      /\ FramesOf(h.disk.hdr) \in Nat /\ h.disk.size \in Nat
  BY CountsAre
<1> QED BY <1>1 DEF Furthers

LEMMA FurthersSelf == ASSUME NEW f, Buffered(f) PROVE Furthers(f, f)
BY CountsAre DEF Furthers

(* A call that writes no header furthers the file, if its entry's size does. *)
LEMMA GrowsAhead ==
  ASSUME NEW f, Buffered(f), Ahead(f), NEW g, Buffered(g), Grows(f, g),
         f.disk.size <= g.disk.size, g.disk.size <= g.size
  PROVE  Ahead(g) /\ Furthers(f, g) /\ Saved(g).hdr = Saved(f).hdr
<1>1. Saved(g).hdr = Saved(f).hdr
  BY DEF Grows, More
<1>2. g.disk.hdr = f.disk.hdr \/ g.disk.hdr = Saved(f).hdr
  BY DEF Grows, More
<1>3. FramesOf(f.disk.hdr) \in Nat /\ FramesOf(Saved(f).hdr) \in Nat
  BY CountsAre
<1> QED BY <1>1, <1>2, <1>3 DEF Ahead, Furthers

(* So does a header that counts no fewer frames. *)
LEMMA RewritesAhead ==
  ASSUME NEW f, Buffered(f), Ahead(f), NEW h, NEW g, Rewrites(f, g, h),
         FramesOf(Saved(f).hdr) <= FramesOf(h)
  PROVE  /\ Buffered(g) /\ Ahead(g) /\ Furthers(f, g) /\ Saved(g).hdr = h
         /\ g.size = f.size /\ g.disk.size = f.disk.size
<1>1. Buffered(g) /\ g.size = f.size /\ g.disk.size = f.disk.size
  BY DEF Rewrites
<1>2. Saved(g).hdr = h
  BY SavedIs DEF Rewrites, Buffered
<1>3. g.disk.hdr = f.disk.hdr \/ g.disk.hdr = Saved(f).hdr
  BY DEF Rewrites, More
<1>4. /\ FramesOf(f.disk.hdr) \in Nat /\ FramesOf(Saved(f).hdr) \in Nat
      /\ FramesOf(Saved(g).hdr) \in Nat /\ f.disk.size \in Nat
  BY <1>1, CountsAre
<1> QED BY <1>1, <1>2, <1>3, <1>4 DEF Ahead, Furthers

LEMMA RepatchedAhead ==
  ASSUME NEW f, Buffered(f), Ahead(f), NEW h, NEW g, Repatched(f, g, h),
         FramesOf(Saved(f).hdr) <= FramesOf(h)
  PROVE  Buffered(g) /\ Ahead(g) /\ Furthers(f, g)
<1>1. PICK k : /\ k = f \/ Rewrites(f, k, h)
               /\ Buffered(g) /\ Grows(k, g)
               /\ g.size = f.size /\ g.disk.size = f.disk.size
  BY DEF Repatched
<1>2. /\ Buffered(k) /\ Ahead(k) /\ Furthers(f, k)
      /\ k.size = f.size /\ k.disk.size = f.disk.size
  BY <1>1, RewritesAhead, FurthersSelf
<1>3. g.disk.size \in Nat
  BY <1>1, CountsAre
<1>4. Ahead(g) /\ Furthers(k, g)
  BY <1>1, <1>2, <1>3, GrowsAhead DEF Ahead
<1> QED BY <1>1, <1>2, <1>4, FurthersTrans

(* A longer count within a longer file: no less of the clip can be read. *)
LEMMA ReadableGrows ==
  ASSUME NEW c \in Seq(Nat), NEW d \in Disks, NEW e \in Disks,
         HeaderTrue(d, c), HeaderTrue(e, c),
         FramesOf(d.hdr) <= FramesOf(e.hdr),
         d.size <= e.size \/ HdrSize + ChunkBytes(c, Len(c)) <= e.size
  PROVE  Readable(d, c) <= Readable(e, c)
<1>1. Readable(d, c) \in Nat /\ Readable(e, c) \in Nat
  BY ReadableIs
<1>2. CASE d.hdr = NoHeader
  BY <1>1, <1>2 DEF Readable
<1>3. CASE d.hdr # NoHeader /\ e.hdr = NoHeader
  <2>1. d.hdr[OFF_TOTALFRAMES] \in Nat /\ d.hdr[OFF_TOTALFRAMES] <= 0
    <3>1. d.hdr[OFF_TOTALFRAMES] \in 0 .. Len(c) /\ Len(c) \in Nat
      BY <1>3, ReadableIs
    <3> QED BY <1>3, <3>1 DEF FramesOf
  <2>2. Readable(d, c) <= d.hdr[OFF_TOTALFRAMES]
    BY <1>3, ReadableIs
  <2> QED BY <1>1, <2>1, <2>2
<1>4. CASE d.hdr # NoHeader /\ e.hdr # NoHeader
  <2> DEFINE m == d.hdr[OFF_TOTALFRAMES]
             n == e.hdr[OFF_TOTALFRAMES]
             S == {k \in 1 .. m : HdrSize + ChunkBytes(c, k) <= d.size}
             T == {k \in 1 .. n : HdrSize + ChunkBytes(c, k) <= e.size}
  <2>1. m \in 0 .. Len(c) /\ n \in 0 .. Len(c) /\ Len(c) \in Nat
    BY <1>4, ReadableIs
  <2>2. m <= n
    BY <1>4 DEF FramesOf
  <2>3. Readable(d, c) = Cardinality(S) /\ Readable(e, c) = Cardinality(T)
    BY <1>4 DEF Readable
  <2> HIDE DEF m, n
  <2>4. ASSUME NEW k \in S PROVE k \in T
    <3>1. k \in 1 .. m /\ HdrSize + ChunkBytes(c, k) <= d.size
      OBVIOUS
    <3>2. k \in 1 .. n /\ k \in 0 .. Len(c) /\ k <= Len(c) /\ Len(c) \in 0 .. Len(c)
      BY <2>1, <2>2, <3>1
    <3>3. ChunkBytes(c, k) <= ChunkBytes(c, Len(c))
      BY <3>2, BytesGrow
    <3>4. ChunkBytes(c, k) \in Nat /\ ChunkBytes(c, Len(c)) \in Nat
      BY <3>2, ChunkBytesIs
    <3>5. d.size \in Nat /\ e.size \in Nat
      BY DEF Disks
    <3>6. HdrSize + ChunkBytes(c, k) <= e.size
      BY <3>1, <3>3, <3>4, <3>5 DEF HdrSize
    <3> QED BY <3>2, <3>6
  <2>5. S \subseteq T /\ T \subseteq 1 .. n
    BY <2>4
  <2> HIDE DEF S, T
  <2>6. IsFiniteSet(1 .. n)
    BY <2>1, FS_Interval
  <2>7. IsFiniteSet(T)
    BY <2>5, <2>6, FS_Subset
  <2>8. Cardinality(S) <= Cardinality(T)
    BY <2>5, <2>7, FS_Subset
  <2> QED BY <2>3, <2>8
<1> QED BY <1>2, <1>3, <1>4

-----------------------------------------------------------------------------
(* The muxer's calls *)

(* All chunks counted lie before the pointer, where f_truncate would cut. *)
AtEnd(x) == x.f.err \/ HdrSize + x.avi.movi_bytes <= x.f.ptr

Leading(x) == Ahead(x.f) /\ AtEnd(x)
Onward(x, y) == Leading(y) /\ Furthers(x.f, y.f)

LEMMA RecordingEnds == ASSUME NEW x, Recording(x), ~x.avi.error PROVE AtEnd(x)
<1>1. x.f.ptr = HdrSize + x.avi.movi_bytes /\ x.f.ptr \in Nat
  BY DEF Recording, Going, MuxInv, Muxes, Files
<1> QED BY <1>1 DEF AtEnd

LEMMA OnwardSelf == ASSUME NEW x, MuxInv(x), Leading(x) PROVE Onward(x, x)
BY FurthersSelf DEF Onward, MuxInv

LEMMA OnwardTrans ==
  ASSUME NEW x, NEW y, NEW z, MuxInv(x), MuxInv(y), MuxInv(z), Onward(x, y), Onward(y, z)
  PROVE  Onward(x, z)
BY FurthersTrans DEF Onward, MuxInv

LEMMA TookAhead ==
  ASSUME NEW f, Buffered(f), Ahead(f), NEW g, NEW n, Took(f, g, n)
  PROVE  Buffered(g) /\ Ahead(g) /\ Furthers(f, g) /\ f.ptr <= g.ptr
<1>1. Buffered(g) /\ Grows(f, g) /\ g.disk.size = f.disk.size /\ f.size <= g.size
  BY DEF Took
<1>2. f.disk.size \in Nat /\ f.size \in Nat /\ g.size \in Nat
  BY <1>1, CountsAre
<1>3. f.disk.size <= g.disk.size /\ g.disk.size <= g.size
  BY <1>1, <1>2 DEF Ahead
<1> QED BY <1>1, <1>3, GrowsAhead DEF Took

LEMMA wrLeads ==
  ASSUME NEW x, MuxInv(x), Going(x), Leading(x), NEW n \in Nat \ {0}
  PROVE  Onward(x, wr(x, n))
<1> DEFINE y == wr(x, n)
           g == f_write(x.f, n)
<1>1. /\ x \in Muxes /\ Buffered(x.f) /\ x.f.ptr \in Nat /\ x.avi.movi_bytes \in Nat
  BY DEF MuxInv, Muxes, Avis, Files
<1>2. CASE x.avi.error
  BY <1>2, OnwardSelf DEF wr
<1>3. CASE ~x.avi.error
  <2>1. Standing(x.f)
    BY <1>3 DEF Going
  <2>2. Took(x.f, g, n)
    BY <2>1, f_writeIs
  <2>3. y = Wrote(x, g, n)
    BY <1>3 DEF wr
  <2> HIDE DEF g, y
  <2>4. g \in Files /\ Ahead(g) /\ Furthers(x.f, g) /\ x.f.ptr <= g.ptr
    BY <1>1, <2>2, TookAhead DEF Leading, Buffered
  <2>5. y.f = g /\ SameCount(x, y)
    BY <1>1, <2>3, <2>4, WroteIs
  <2>6. ~x.f.err /\ g.ptr \in Nat
    BY <2>1, <2>4 DEF Standing, Files
  <2>7. AtEnd(y)
    BY <1>1, <2>4, <2>5, <2>6 DEF AtEnd, Leading, SameCount, HdrSize
  <2> QED BY <2>4, <2>5, <2>7 DEF Onward, Leading, y
<1> QED BY <1>2, <1>3

LEMMA avi_addLeads ==
  ASSUME NEW x, Recording(x), IndexInv(x.avi), Leading(x), NEW len \in Nat
  PROVE  Onward(x, avi_add(x, len))
<1>1. /\ MuxInv(x) /\ Going(x) /\ x \in Muxes /\ x.avi \in Avis
  BY DEF Recording, MuxInv, Muxes
<1>2. CASE x.avi.error
  BY <1>1, <1>2, OnwardSelf DEF avi_add
<1>3. CASE ~x.avi.error
  <2> DEFINE n == avi_chunk_total(len)
             b == idx_stage(x.avi, len)
             w == [x EXCEPT !.avi = b]
             y == wr(w, n)
             z == avi_add(x, len)
  <2>1. z = IF y.avi.error THEN y ELSE [y EXCEPT !.avi = chunk_done(@, len)]
    BY <1>3 DEF avi_add
  <2>2. n \in Nat \ {0}
    BY TotalIs
  <2>3. /\ b \in Avis /\ ~b.error /\ b.frames = x.avi.frames /\ b.off = x.avi.off
        /\ b.movi_bytes = x.avi.movi_bytes /\ b.chunks = x.avi.chunks
    BY <1>1, <1>3, StageIs
  <2> HIDE DEF b, n
  <2>4. w \in Muxes /\ w.avi = b /\ w.f = x.f
    BY <1>1, <2>3, WithAviIs
  <2> HIDE DEF w
  <2>5. MuxInv(w) /\ Going(w) /\ Leading(w)
    BY <1>1, <1>3, <2>3, <2>4 DEF MuxInv, Going, Leading, AtEnd
  <2>6. Onward(w, y) /\ y \in Muxes
    BY <2>2, <2>5, wrLeads, wrIs DEF MuxInv
  <2> HIDE DEF y
  <2>7. Recording(z)
    BY avi_addIs
  <2> HIDE DEF z
  <2>8. CASE y.avi.error
    BY <2>1, <2>4, <2>6, <2>8 DEF Onward, z
  <2>9. CASE ~y.avi.error
    <3> DEFINE d == chunk_done(y.avi, len)
               v == [y EXCEPT !.avi = d]
    <3>1. y.avi \in Avis
      BY <2>6 DEF Muxes
    <3>2. d \in Avis /\ d.error = y.avi.error
      BY <3>1, chunk_doneIs
    <3> HIDE DEF d
    <3>3. v.avi = d /\ v.f = y.f
      BY <2>6, <3>2, WithAviIs
    <3> HIDE DEF v
    <3>4. z = v
      BY <2>1, <2>9 DEF v, d
    <3>5. ~z.avi.error
      BY Zenon, <2>9, <3>2, <3>3, <3>4
    <3>6. AtEnd(z)
      BY <2>7, <3>5, RecordingEnds
    <3>7. z.f = y.f
      BY <3>3, <3>4
    <3> HIDE DEF z
    <3>8. Onward(x, z)
      BY <2>4, <2>6, <3>6, <3>7 DEF Onward, Leading
    <3> QED BY <3>8 DEF z
  <2> QED BY <2>8, <2>9
<1> QED BY <1>2, <1>3

(* The header in the buffer counts frames of the clip. *)
LEMMA SavedCounts ==
  ASSUME NEW x, MuxInv(x)
  PROVE  FramesOf(Saved(x.f).hdr) <= x.avi.frames /\ x.avi.frames \in Nat
<1> DEFINE d == Saved(x.f)
           c == x.avi.chunks
<1>1. /\ d \in Disks /\ c \in Seq(Nat) /\ HeaderTrue(d, c) /\ x.avi.frames = Len(c)
      /\ x.avi.frames \in Nat
  BY SavedIs DEF MuxInv, Muxes, Avis, Truthful
<1> HIDE DEF d, c
<1>2. d.hdr # NoHeader => d.hdr[OFF_TOTALFRAMES] \in 0 .. Len(c)
  BY <1>1, ReadableIs
<1>3. FramesOf(d.hdr) <= x.avi.frames
  BY <1>1, <1>2 DEF FramesOf
<1> QED BY <1>1, <1>3 DEF d

LEMMA SizesCount ==
  ASSUME NEW h \in [Fields -> Nat], NEW r \in Nat, NEW n \in Nat, NEW m \in Nat
  PROVE  FramesOf(Sizes4(h, r, n, m)) = n
<1> DEFINE i == Sizes4(h, r, n, m)
<1>1. i \in [Fields -> Nat] /\ i[OFF_TOTALFRAMES] = n
  BY FieldIs DEF Sizes4, FieldsAre, OFF_RIFFSZ, OFF_TOTALFRAMES, OFF_STRH_LEN, OFF_MOVISZ
<1> HIDE DEF i
<1>2. i # NoHeader
  BY <1>1, AviSizes
<1>3. FramesOf(i) = n
  BY <1>1, <1>2 DEF FramesOf
<1> QED BY <1>3 DEF i

LEMMA patch_headerLeads ==
  ASSUME NEW x, NEW r \in Nat, ReadyFor(x, r), Ahead(x.f),
         FramesOf(Saved(x.f).hdr) <= x.avi.frames
  PROVE  LET z == patch_header(x, r)
         IN  Ahead(z.f) /\ Furthers(x.f, z.f) /\ (z.avi.error => AtEnd(z))
<1> DEFINE m == x.avi.movi_bytes + 4
           h == Sizes4(Saved(x.f).hdr, r, x.avi.frames, m)
           z == patch_header(x, r)
<1>1. Repatched(x.f, z.f, h) /\ (z.avi.error => z.f.err)
  BY patch_headerIs
<1>2. /\ Buffered(x.f) /\ Saved(x.f).hdr \in [Fields -> Nat] /\ x.avi.frames \in Nat
      /\ m \in Nat
  BY DEF ReadyFor, Patchable, Muxes, Avis
<1> HIDE DEF m
<1>3. FramesOf(h) = x.avi.frames
  BY <1>2, SizesCount
<1> HIDE DEF h, z
<1>4. Ahead(z.f) /\ Furthers(x.f, z.f)
  BY <1>1, <1>2, <1>3, RepatchedAhead
<1> QED BY <1>1, <1>4 DEF AtEnd, z

LEMMA avi_refreshLeads ==
  ASSUME NEW x, Recording(x), IndexInv(x.avi), Leading(x)
  PROVE  Onward(x, avi_refresh_header(x))
<1> DEFINE y == avi_refresh_header(x)
           r == HdrSize - 8 + x.avi.movi_bytes
<1>1. MuxInv(x)
  BY DEF Recording
<1>2. CASE x.avi.error
  BY <1>1, <1>2, OnwardSelf DEF avi_refresh_header
<1>3. CASE ~x.avi.error
  <2>1. r \in Nat /\ ReadyFor(x, r)
    BY <1>3, ReadyToRefresh
  <2>2. y = patch_header(x, r)
    BY <1>3 DEF avi_refresh_header
  <2>3. Recording(y)
    BY avi_refreshIs
  <2> HIDE DEF r, y
  <2>4. FramesOf(Saved(x.f).hdr) <= x.avi.frames
    BY <1>1, SavedCounts
  <2>5. Ahead(y.f) /\ Furthers(x.f, y.f) /\ (y.avi.error => AtEnd(y))
    BY <2>1, <2>2, <2>4, patch_headerLeads DEF Leading
  <2>6. AtEnd(y)
    BY <2>3, <2>5, RecordingEnds
  <2> QED BY <2>5, <2>6 DEF Onward, Leading, y
<1> QED BY <1>2, <1>3

LEMMA IndexedLeads ==
  ASSUME NEW x, Recording(x), Leading(x)
  PROVE  Onward(x, Indexed(x))
<1> DEFINE e == 8
           a == wr(x, e)
           k == IdxBytes(a.avi)
           b == wr(a, k)
           y == Indexed(x)
<1>1. MuxInv(x) /\ Going(x)
  BY DEF Recording
<1>2. e \in Nat \ {0}
  OBVIOUS
<1>3. y = IF k = 0 THEN a ELSE b
  BY DEF Indexed, Entries
<1> HIDE DEF e
<1>4. MuxInv(a) /\ Going(a) /\ Onward(x, a)
  BY <1>1, <1>2, wrIs, wrLeads
<1> HIDE DEF a, y
<1>5. k \in Nat
  BY <1>4, AviSizes DEF IdxBytes, MuxInv, Muxes, Avis
<1> HIDE DEF k
<1>6. CASE k = 0
  BY <1>3, <1>4, <1>6 DEF y
<1>7. CASE k # 0
  <2>1. k \in Nat \ {0} /\ Leading(a)
    BY <1>4, <1>5, <1>7 DEF Onward
  <2>2. MuxInv(b) /\ Onward(a, b)
    BY <1>4, <2>1, wrIs, wrLeads
  <2> HIDE DEF b
  <2>3. Onward(x, b)
    BY <1>1, <1>4, <2>2, OnwardTrans
  <2> QED BY <1>3, <1>7, <2>3 DEF y
<1> QED BY <1>6, <1>7

LEMMA GoingPatchable ==
  ASSUME NEW x, MuxInv(x), Going(x), ~x.avi.error
  PROVE  Patchable(x)
<1>1. /\ Standing(x.f) /\ x.f.ptr = x.avi.off /\ x.avi.off >= HdrSize
      /\ Saved(x.f).hdr \in [Fields -> Nat] /\ x \in Muxes /\ x.f.ptr <= x.f.size
  BY DEF Going, MuxInv
<1>2. x.f.ptr \in Nat /\ x.f.size \in Nat
  BY <1>1 DEF Muxes, Files
<1> QED BY <1>1, <1>2 DEF Patchable, MuxInv, HdrSize

LEMMA FlaggedLeads ==
  ASSUME NEW x, MuxInv(x), Going(x), Leading(x), ~x.avi.error
  PROVE  LET y == Flagged(x)
         IN  /\ SameCount(x, y) /\ y.avi.off = x.avi.off
             /\ Buffered(y.f) /\ Ahead(y.f) /\ Furthers(x.f, y.f)
             /\ y.avi.error => MuxInv(y) /\ AtEnd(y)
             /\ ~y.avi.error => FramesOf(Saved(y.f).hdr) <= y.avi.frames
<1> DEFINE n == HasIndex
           h == [Saved(x.f).hdr EXCEPT ![OFF_FLAGS] = n]
           y == Flagged(x)
<1>1. Patchable(x)
  BY GoingPatchable
<1>2. n \in Nat
  BY DEF HasIndex
<1>3. y = patch32(x, OFF_FLAGS, n)
  BY DEF Flagged
<1> HIDE DEF n, y
<1>4. Patching(x, y, h) /\ h \in [Fields -> Nat]
  BY <1>1, <1>2, <1>3, FieldIs, PatchedOnce
<1>5. Saved(x.f).hdr \in [Fields -> Nat] /\ Buffered(x.f) /\ Ahead(x.f)
  BY <1>1 DEF Patchable, Leading
<1>6. FramesOf(h) = FramesOf(Saved(x.f).hdr)
  <2>1. h[OFF_TOTALFRAMES] = Saved(x.f).hdr[OFF_TOTALFRAMES]
    BY <1>5, FieldIs DEF OFF_TOTALFRAMES, OFF_FLAGS
  <2>2. h # NoHeader /\ Saved(x.f).hdr # NoHeader
    BY <1>4, <1>5, AviSizes
  <2> QED BY <2>1, <2>2 DEF FramesOf
<1>7. FramesOf(Saved(x.f).hdr) <= x.avi.frames /\ FramesOf(Saved(x.f).hdr) \in Nat
  BY <1>5, SavedCounts, CountsAre
<1> HIDE DEF h
<1>8. y \in Muxes /\ SameCount(x, y) /\ y.avi.off = x.avi.off
  BY <1>4 DEF Patching
<1>9. CASE y.avi.error
  <2>1. /\ Buffered(y.f) /\ Grows(x.f, y.f) /\ y.f.ptr <= y.f.size
        /\ y.f.err /\ y.f.size = x.f.size /\ y.f.disk.size = x.f.disk.size
    BY <1>4, <1>9 DEF Patching, Stuck
  <2>2. MuxInv(y)
    BY <1>8, <2>1, MuxGrows
  <2>3. x.f.disk.size \in Nat /\ x.f.size \in Nat
    BY <1>5, CountsAre
  <2>4. Ahead(y.f) /\ Furthers(x.f, y.f)
    BY <1>5, <2>1, <2>3, GrowsAhead DEF Ahead
  <2> QED BY <1>8, <1>9, <2>1, <2>2, <2>4 DEF AtEnd, y
<1>10. CASE ~y.avi.error
  <2>1. Rewrites(x.f, y.f, h)
    BY <1>4, <1>10 DEF Patching
  <2>2. Buffered(y.f) /\ Ahead(y.f) /\ Furthers(x.f, y.f) /\ Saved(y.f).hdr = h
    BY <1>5, <1>6, <1>7, <2>1, RewritesAhead
  <2> QED BY <1>6, <1>7, <1>8, <1>10, <2>2 DEF SameCount, y
<1> QED BY <1>9, <1>10

LEMMA SyncedLeads ==
  ASSUME NEW x, MuxInv(x), Leading(x)
  PROVE  Onward(x, Synced(x))
<1> DEFINE y == Synced(x)
           g == f_sync(x.f)
<1>1. CASE x.avi.error
  BY <1>1, OnwardSelf DEF Synced
<1>2. CASE ~x.avi.error
  <2>1. x \in Muxes /\ Buffered(x.f) /\ Ahead(x.f)
    BY DEF MuxInv, Leading
  <2>2. /\ Buffered(g) /\ Grows(x.f, g) /\ g.ptr = x.f.ptr /\ g.size = x.f.size
        /\ g.err = x.f.err /\ g.disk.size \in {x.f.disk.size, x.f.size}
    BY <2>1, f_syncIs
  <2>3. y = Back(x, g)
    BY <1>2 DEF Synced
  <2> HIDE DEF y, g
  <2>4. y.f = g /\ SameCount(x, y)
    BY <1>2, <2>1, <2>2, <2>3, BackIs DEF Buffered
  <2>5. x.f.disk.size <= g.disk.size /\ g.disk.size <= g.size
    <3>1. x.f.disk.size \in Nat /\ x.f.size \in Nat /\ x.f.disk.size <= x.f.size
      BY <2>1, CountsAre DEF Ahead
    <3> QED BY <2>2, <3>1
  <2>6. Ahead(g) /\ Furthers(x.f, g)
    BY <2>1, <2>2, <2>5, GrowsAhead
  <2>7. AtEnd(y)
    BY <2>2, <2>4 DEF Leading, AtEnd, SameCount
  <2> QED BY <2>4, <2>6, <2>7 DEF Onward, Leading, y
<1> QED BY <1>1, <1>2

(* With the sizes patched the pointer is back behind the index. *)
LEMMA SizedLeads ==
  ASSUME NEW x, MuxInv(x), Going(x), Leading(x), ~x.avi.error, ~Flagged(x).avi.error,
         x.avi.off = HdrSize + x.avi.movi_bytes + IndexBytes(x.avi.frames)
  PROVE  LET z == Sized(Flagged(x))
         IN  MuxInv(z) /\ SameCount(x, z) /\ Onward(x, z)
<1> DEFINE y == Flagged(x)
           r == HdrSize - 8 + x.avi.movi_bytes + 8 + IdxBytes(x.avi)
           z == Sized(y)
<1>1. /\ ReadyFor(y, r) /\ r \in Nat /\ SameCount(x, y) /\ y.avi.off = x.avi.off
  BY ReadyToClaim
<1>2. z = patch_header(y, r)
  BY <1>1 DEF Sized, SameCount, IdxBytes
<1>3. /\ Buffered(y.f) /\ Ahead(y.f) /\ Furthers(x.f, y.f)
      /\ FramesOf(Saved(y.f).hdr) <= y.avi.frames
  BY FlaggedLeads
<1> HIDE DEF y, z, r
<1>4. MuxInv(z) /\ Going(z) /\ SameCount(y, z) /\ z.avi.off = y.avi.off
  BY <1>1, <1>2, patch_headerIs
<1>5. Ahead(z.f) /\ Furthers(y.f, z.f) /\ (z.avi.error => AtEnd(z))
  BY <1>1, <1>2, <1>3, patch_headerLeads
<1>6. Furthers(x.f, z.f)
  BY <1>3, <1>4, <1>5, FurthersTrans DEF MuxInv
<1>7. ASSUME ~z.avi.error PROVE AtEnd(z)
  <2>1. z.f.ptr = x.avi.off /\ z.avi.movi_bytes = x.avi.movi_bytes
    BY <1>1, <1>4, <1>7 DEF Going, SameCount
  <2>2. IndexBytes(x.avi.frames) \in Nat /\ x.avi.movi_bytes \in Nat
    BY IndexBytesIs DEF MuxInv, Muxes, Avis
  <2> QED BY <2>1, <2>2 DEF AtEnd, HdrSize
<1>8. SameCount(x, z)
  BY <1>1, <1>4 DEF SameCount
<1> QED BY <1>4, <1>5, <1>6, <1>7, <1>8 DEF Onward, Leading, y, z

LEMMA avi_finalizeLeads ==
  ASSUME NEW x, Recording(x), Leading(x)
  PROVE  Onward(x, avi_finalize(x))
<1> DEFINE a == Indexed(x)
           b == Flagged(a)
           c == Sized(b)
           y == avi_finalize(x)
<1>1. MuxInv(x)
  BY DEF Recording
<1>2. CASE x.avi.error
  BY <1>1, <1>2, OnwardSelf DEF avi_finalize
<1>3. CASE ~x.avi.error
  <2>1. y = Synced(c)
    BY <1>3 DEF avi_finalize
  <2>2. /\ MuxInv(a) /\ Going(a) /\ SameCount(x, a)
        /\ ~a.avi.error => a.avi.off = x.avi.off + IndexBytes(x.avi.frames)
    BY IndexedIs
  <2>3. Onward(x, a)
    BY IndexedLeads
  <2> HIDE DEF a, y
  <2>4. MuxInv(c) /\ Onward(a, c)
    <3>1. CASE a.avi.error
      <4>1. c = a
        BY <3>1 DEF Flagged, patch32, Sized
      <4> HIDE DEF c
      <4> QED BY <2>2, <2>3, <4>1, OnwardSelf DEF Onward
    <3>2. CASE ~a.avi.error /\ b.avi.error
      <4>1. MuxInv(b) /\ Leading(b) /\ Furthers(a.f, b.f)
        BY <2>2, <2>3, <3>2, FlaggedLeads DEF Onward, Leading
      <4>2. c = b
        BY <3>2 DEF Sized
      <4> HIDE DEF b, c
      <4> QED BY <4>1, <4>2 DEF Onward
    <3>3. CASE ~a.avi.error /\ ~b.avi.error
      <4>1. a.avi.off = HdrSize + a.avi.movi_bytes + IndexBytes(a.avi.frames)
        <5>1. x.avi.off = HdrSize + x.avi.movi_bytes
          BY <1>3 DEF Recording
        <5> QED BY <2>2, <3>3, <5>1 DEF SameCount
      <4> QED BY <2>2, <2>3, <3>3, <4>1, SizedLeads DEF Onward
    <3> QED BY <3>1, <3>2, <3>3
  <2> HIDE DEF c
  <2>5. MuxInv(y)
    BY avi_finalizeIs DEF y
  <2>6. Onward(c, y)
    BY <2>1, <2>4, SyncedLeads DEF Onward
  <2>7. Onward(x, y)
    BY <1>1, <2>2, <2>3, <2>4, <2>5, <2>6, OnwardTrans
  <2> QED BY <2>7 DEF y
<1> QED BY <1>2, <1>3

(* f_truncate cuts behind the chunks, or not at all. *)
LEMMA CloseFileShows ==
  ASSUME NEW x, MuxInv(x), Leading(x)
  PROVE  Readable(x.f.disk, x.avi.chunks) <= Readable(CloseFile(x).f.disk, x.avi.chunks)
<1> DEFINE t == f_truncate(x.f)
           g == f_close(t)
           c == x.avi.chunks
<1>1. /\ x \in Muxes /\ Buffered(x.f) /\ x.f.ptr <= x.f.size /\ c \in Seq(Nat)
      /\ HeaderTrue(x.f.disk, c) /\ HeaderTrue(Saved(x.f), c) /\ Truthful(x.f, c)
      /\ x.avi.movi_bytes = ChunkBytes(c, Len(c)) /\ Ahead(x.f)
  BY DEF MuxInv, Muxes, Avis, Truthful, Leading
<1>2. /\ Buffered(t) /\ Grows(x.f, t) /\ t.disk.size = x.f.disk.size /\ t.ptr = x.f.ptr
      /\ t.size = x.f.size \/ (~x.f.err /\ t.size = x.f.ptr)
  BY <1>1, f_truncateIs
<1> HIDE DEF t
<1>3. Buffered(g) /\ Grows(t, g) /\ g.disk.size \in {t.disk.size, t.size}
  BY <1>2, f_syncIs DEF f_close
<1>4. CloseFile(x).f = g
  BY <1>1 DEF CloseFile, t, Muxes
<1> HIDE DEF g
<1>5. Grows(x.f, g)
  BY <1>1, <1>2, <1>3, GrowsTrans
<1>6. Truthful(g, c)
  BY <1>1, <1>3, <1>5, TruthfulGrows
<1>7. /\ x.f.disk \in Disks /\ g.disk \in Disks /\ x.f.disk.size \in Nat
      /\ x.f.size \in Nat /\ FramesOf(x.f.disk.hdr) \in Nat
      /\ FramesOf(Saved(x.f).hdr) \in Nat
  BY <1>1, <1>3, CountsAre
<1>8. FramesOf(x.f.disk.hdr) <= FramesOf(g.disk.hdr)
  <2>1. g.disk.hdr = x.f.disk.hdr \/ g.disk.hdr = Saved(x.f).hdr
    BY <1>5 DEF Grows, More
  <2> QED BY <1>1, <1>7, <2>1 DEF Ahead
<1>9. x.f.disk.size <= g.disk.size \/ HdrSize + ChunkBytes(c, Len(c)) <= g.disk.size
  <2>1. CASE g.disk.size = x.f.disk.size \/ g.disk.size = x.f.size
    BY <1>1, <1>7, <2>1 DEF Ahead
  <2>2. CASE ~x.f.err /\ g.disk.size = x.f.ptr
    BY <1>1, <2>2 DEF Leading, AtEnd
  <2> QED BY <1>2, <1>3, <2>1, <2>2
<1> HIDE DEF c
<1>10. Readable(x.f.disk, c) <= Readable(g.disk, c)
  BY <1>1, <1>6, <1>7, <1>8, <1>9, ReadableGrows DEF Truthful
<1> QED BY <1>4, <1>10 DEF c

LEMMA TookSizes ==
  ASSUME NEW f, Buffered(f), f.disk.size <= f.size, NEW g, NEW n, Took(f, g, n)
  PROVE  g.disk.size <= g.size /\ Buffered(g)
<1>1. Buffered(g) /\ g.disk.size = f.disk.size /\ f.size <= g.size
  BY DEF Took
<1>2. f.disk.size \in Nat /\ f.size \in Nat /\ g.size \in Nat
  BY <1>1, CountsAre
<1> QED BY <1>1, <1>2

(* The sync before avi_start has made the entry's size that of the file. *)
LEMMA avi_startSizes ==
  ASSUME NEW f, Blank(f), f.disk.size <= f.size, ~avi_start(f).avi.error
  PROVE  avi_start(f).f.disk.size <= avi_start(f).f.size
<1> DEFINE z == 0
           g == f_lseek(f, z)
           n == HdrSize
           m == [avi |-> Fresh, f |-> g]
           w == f_write(g, n)
           y == wr(m, n)
           x == avi_start(f)
<1>1. x = IF ~g.ok THEN [avi |-> [Fresh EXCEPT !.error = TRUE], f |-> g]
          ELSE IF y.avi.error THEN y ELSE [y EXCEPT !.f.hdr = EmptyMovie]
  BY DEF avi_start, Fresh
<1>2. Standing(f) /\ f \in Files /\ Buffered(f)
  BY BlankIs DEF Blank
<1>3. z \in Nat /\ n \in Nat \ {0}
  BY DEF HdrSize
<1>4. /\ Buffered(g) /\ g.disk.size = f.disk.size /\ g.size = f.size
      /\ g.ptr \in {f.ptr, z} /\ (g.ok => g.ptr = z /\ ~g.err)
  BY <1>2, <1>3, f_lseekIs
<1>5. g.ok
  <2>1. ASSUME ~g.ok PROVE x.avi.error
    <3>1. x.avi = [Fresh EXCEPT !.error = TRUE]
      BY <1>1, <2>1
    <3> QED BY <3>1 DEF Fresh
  <2> QED BY <2>1
<1>6. g = [f EXCEPT !.ptr = z, !.ok = TRUE]
  <2>1. z % Sector = 0 /\ ~f.err
    BY DEF Sector, Blank
  <2> QED BY <2>1 DEF f_lseek
<1>7. Standing(g)
  <2>1. g = [f EXCEPT !.ok = TRUE]
    BY <1>2, <1>6 DEF Blank, Files
  <2> QED BY <1>2, <2>1, TrueIs
<1> HIDE DEF g
<1>8. Took(g, w, n)
  BY <1>3, <1>7, f_writeIs
<1>9. w.disk.size <= w.size /\ w \in Files
  BY <1>4, <1>8, TookSizes DEF Buffered
<1>10. m \in Muxes /\ m.f = g /\ ~m.avi.error
  BY <1>4, FreshIs DEF Muxes, Buffered, Fresh
<1>11. y = Wrote(m, w, n)
  BY <1>10 DEF wr
<1> HIDE DEF m, w, n
<1>12. y \in Muxes /\ y.f = w
  BY <1>3, <1>9, <1>10, <1>11, WroteIs
<1> HIDE DEF y
<1>13. x.f = y.f \/ x.f = [y.f EXCEPT !.hdr = EmptyMovie]
  BY <1>1, <1>5, <1>12 DEF Muxes
<1> HIDE DEF x
<1>14. x.f.disk.size = w.disk.size /\ x.f.size = w.size
  BY <1>9, <1>12, <1>13 DEF Files
<1> QED BY <1>9, <1>14 DEF x

LEMMA PreparedLeads ==
  ASSUME NEW fault \in Faults, ~Prepared(fault).avi.error
  PROVE  Leading(Prepared(fault))
<1> DEFINE f == Armed(NewFile, fault)
           g == f_expand(f, Prealloc)
           s == f_sync(g)
           x == avi_start(s)
<1>1. Blank(f)
  BY NewFileIs, ArmedIs, BlankStays DEF Blank
<1> HIDE DEF f
<1>2. Blank(g)
  BY <1>1, FatFileSizes, f_expandIs
<1> HIDE DEF g
<1>3. Buffered(g) /\ Saved(g).hdr = NoHeader
  BY <1>2, BlankIs DEF Blank
<1>4. /\ Buffered(s) /\ Grows(g, s) /\ s.ptr = g.ptr /\ s.err = g.err /\ s.sect = g.sect
      /\ s.size = g.size /\ (s.ok => s.disk.size = g.size)
  BY <1>3, f_syncIs
<1>5. \A y : NoClip(y).avi.error
  BY DEF NoClip
<1>6. Prepared(fault) = IF s.ok THEN (IF x.avi.error THEN NoClip(x.f) ELSE x) ELSE NoClip(s)
  BY DEF Prepared, Started, f, g
<1> HIDE DEF s
<1>7. Blank(s)
  BY <1>2, <1>3, <1>4, NoHeaderKept DEF Blank
<1>8. Prepared(fault) = x /\ ~x.avi.error /\ s.ok
  <2> HIDE DEF x
  <2> QED BY <1>5, <1>6
<1>9. s.disk.size <= s.size
  <2>1. s.size \in Nat
    BY <1>4, CountsAre
  <2> QED BY <1>4, <1>8, <2>1
<1>10. x.f.disk.size <= x.f.size
  BY <1>7, <1>8, <1>9, avi_startSizes
<1>11. /\ Recording(x) /\ x.f.disk.hdr = NoHeader
  BY <1>7, <1>8, avi_startIs
<1> HIDE DEF x
<1>12. FramesOf(x.f.disk.hdr) = 0 /\ FramesOf(Saved(x.f).hdr) \in Nat
  BY <1>11, CountsAre DEF FramesOf, Recording, MuxInv
<1>13. Ahead(x.f)
  BY <1>10, <1>12 DEF Ahead
<1> QED BY <1>8, <1>11, <1>13, RecordingEnds DEF Leading

-----------------------------------------------------------------------------
(* The calls of the recorder *)

LeadingClip(c) == Sound(c) /\ Leading(Muxed(c))

(* A clip that goes on from c shows no less on the card. *)
Onwards(c, e) == LeadingClip(e) /\ e.name = c.name /\ Settled(c) <= Settled(e)

LEMMA OnwardsTrans ==
  ASSUME NEW c, NEW d, NEW e, LeadingClip(c), Onwards(c, d), Onwards(d, e)
  PROVE  Onwards(c, e)
<1>1. Settled(c) \in Nat /\ Settled(d) \in Nat /\ Settled(e) \in Nat
  BY SoundIs DEF LeadingClip, Onwards
<1> QED BY <1>1 DEF Onwards

LEMMA OnwardsSelf == ASSUME NEW c, LeadingClip(c) PROVE Onwards(c, c)
<1>1. Settled(c) \in Nat
  BY SoundIs DEF LeadingClip
<1> QED BY <1>1 DEF Onwards

LEMMA ReadableOfPrefix ==
  ASSUME NEW d \in Disks, NEW c \in Seq(Nat), NEW len \in Nat, HeaderTrue(d, c)
  PROVE  Readable(d, Append(c, len)) = Readable(d, c)
<1> DEFINE e == Append(c, len)
<1>1. \A m \in 0 .. Len(c) : ChunkBytes(e, m) = ChunkBytes(c, m)
  BY ChunkBytesAppend
<1> HIDE DEF e
<1>2. CASE d.hdr = NoHeader
  BY <1>2 DEF Readable
<1>3. CASE d.hdr # NoHeader
  <2> DEFINE n == d.hdr[OFF_TOTALFRAMES]
             S == {k \in 1 .. n : HdrSize + ChunkBytes(c, k) <= d.size}
             T == {k \in 1 .. n : HdrSize + ChunkBytes(e, k) <= d.size}
  <2>1. n \in 0 .. Len(c) /\ Len(c) \in Nat
    BY <1>3, ReadableIs
  <2>2. Readable(d, c) = Cardinality(S) /\ Readable(d, e) = Cardinality(T)
    BY <1>3 DEF Readable
  <2> HIDE DEF n
  <2>3. \A k \in 1 .. n : ChunkBytes(e, k) = ChunkBytes(c, k)
    BY <1>1, <2>1
  <2>4. S = T
    BY <2>3
  <2> QED BY <2>2, <2>4 DEF e
<1> QED BY <1>2, <1>3 DEF e

LEMMA OnwardShows ==
  ASSUME NEW x, MuxInv(x), NEW y, MuxInv(y), Onward(x, y), NEW len \in Nat,
         y.avi.chunks = x.avi.chunks \/ y.avi.chunks = Append(x.avi.chunks, len)
  PROVE  Readable(x.f.disk, x.avi.chunks) <= Readable(y.f.disk, y.avi.chunks)
<1> DEFINE c == x.avi.chunks
           e == y.avi.chunks
           d == x.f.disk
<1>1. /\ c \in Seq(Nat) /\ e \in Seq(Nat) /\ HeaderTrue(d, c) /\ HeaderTrue(y.f.disk, e)
      /\ d \in Disks /\ y.f.disk \in Disks
  BY DEF MuxInv, Muxes, Avis, Files, Truthful
<1>2. FramesOf(d.hdr) <= FramesOf(y.f.disk.hdr) /\ d.size <= y.f.disk.size
  BY DEF Onward, Furthers
<1>3. HeaderTrue(d, e) /\ Readable(d, e) = Readable(d, c)
  BY <1>1, TrueOfPrefix, ReadableOfPrefix
<1> HIDE DEF c, d, e
<1>4. Readable(d, e) <= Readable(y.f.disk, e)
  BY <1>1, <1>2, <1>3, ReadableGrows
<1> QED BY <1>3, <1>4 DEF c, d, e

(* The clip c, whose muxer has gone on from x to that of e. *)
LEMMA ClipOnward ==
  ASSUME NEW c, LeadingClip(c), NEW e, Sound(e), e.name = c.name,
         Onward(Muxed(c), Muxed(e)), NEW len \in Nat,
         e.avi.chunks = c.avi.chunks \/ e.avi.chunks = Append(c.avi.chunks, len)
  PROVE  Onwards(c, e)
<1> DEFINE x == Muxed(c)
           y == Muxed(e)
<1>1. /\ MuxInv(x) /\ x.avi = c.avi /\ x.f = c.f
      /\ MuxInv(y) /\ y.avi = e.avi /\ y.f = e.f /\ Onward(x, y)
  BY SoundIs DEF LeadingClip
<1>2. Leading(Muxed(e))
  BY <1>1 DEF Onward
<1> HIDE DEF x, y
<1>3. Readable(x.f.disk, x.avi.chunks) <= Readable(y.f.disk, y.avi.chunks)
  BY <1>1, OnwardShows
<1>4. Settled(c) <= Settled(e)
  BY <1>1, <1>3, SettledIs
<1> QED BY <1>2, <1>4 DEF Onwards, LeadingClip

LEMMA OnwardsOn ==
  ASSUME NEW c, LeadingClip(c), NEW g \in Files, SameView(c.f, g),
         g.ptr = c.f.ptr, g.size = c.f.size, g.err = c.f.err
  PROVE  Onwards(c, [c EXCEPT !.f = g])
<1> DEFINE e == [c EXCEPT !.f = g]
           x == Muxed(c)
           y == Muxed(e)
           z == 0
<1>1. /\ Sound(e) /\ e.f = g /\ e.avi = c.avi /\ e.name = c.name
      /\ Saved(g) = Saved(c.f)
  BY SoundOn DEF LeadingClip
<1> HIDE DEF e
<1>2. /\ MuxInv(x) /\ x.avi = c.avi /\ x.f = c.f
      /\ MuxInv(y) /\ y.avi = e.avi /\ y.f = e.f /\ z \in Nat
  BY <1>1, SoundIs DEF LeadingClip
<1>3. Leading(x)
  BY DEF LeadingClip
<1> HIDE DEF x, y, z
<1>4. y.f.disk = x.f.disk /\ Saved(y.f) = Saved(x.f) /\ y.f.size = x.f.size
      /\ y.f.ptr = x.f.ptr /\ y.f.err = x.f.err /\ y.avi = x.avi
  BY <1>1, <1>2 DEF SameView
<1>5. Furthers(x.f, x.f)
  BY <1>2, FurthersSelf DEF MuxInv
<1>6. Onward(x, y)
  BY <1>3, <1>4, <1>5 DEF Onward, Leading, Ahead, AtEnd, Furthers
<1>7. Onwards(c, e)
  BY <1>1, <1>2, <1>6, ClipOnward DEF x, y
<1> QED BY <1>7 DEF e

LEMMA ArmedOnwards ==
  ASSUME NEW c, LeadingClip(c), NEW fault \in Faults
  PROVE  Onwards(c, [c EXCEPT !.f = Armed(@, fault)])
<1>1. c.f \in Files
  BY DEF LeadingClip, Sound, OpenClips
<1> QED BY <1>1, ArmedIs, OnwardsOn

LEMMA DisarmedOnwards ==
  ASSUME NEW c, LeadingClip(c)
  PROVE  Onwards(c, [c EXCEPT !.f = Disarmed(@)])
<1>1. c.f \in Files
  BY DEF LeadingClip, Sound, OpenClips
<1> QED BY <1>1, DisarmedIs, OnwardsOn

LEMMA RefreshIfDueOnwards ==
  ASSUME NEW c, LeadingClip(c)
  PROVE  Onwards(c, RefreshIfDue(c))
<1> DEFINE x == Muxed(c)
           y == avi_refresh_header(x)
           w == With(c, y)
           e == Noted(w)
           z == 0
<1>1. c \in OpenClips /\ Recording(x) /\ IndexInv(x.avi) /\ x.avi = c.avi /\ Leading(x)
  BY MuxedIs DEF LeadingClip, Sound
<1>2. CASE c.avi.error \/ ~RefreshDue(c)
  BY <1>2, OnwardsSelf DEF RefreshIfDue
<1>3. CASE ~(c.avi.error \/ ~RefreshDue(c))
  <2>1. RefreshIfDue(c) = e
    BY <1>3 DEF RefreshIfDue
  <2> HIDE DEF x
  <2>2. Recording(y) /\ SameCount(x, y) /\ Onward(x, y) /\ z \in Nat
    BY <1>1, avi_refreshIs, avi_refreshLeads
  <2> HIDE DEF y, z
  <2>3. w \in OpenClips /\ Muxed(w) = y /\ w.avi = y.avi
    BY <1>1, <2>2, WithIs DEF Recording, MuxInv
  <2> HIDE DEF w
  <2>4. Muxed(e) = Muxed(w) /\ e.avi = w.avi
    BY <2>3, NotedIs
  <2> HIDE DEF e
  <2>5. Sound(e) /\ e.name = c.name
    BY <2>1, RefreshIfDueIs DEF LeadingClip
  <2>6. e.avi.chunks = c.avi.chunks
    BY <1>1, <2>2, <2>3, <2>4 DEF SameCount
  <2>7. Onwards(c, e)
    BY <2>2, <2>3, <2>4, <2>5, <2>6, ClipOnward DEF x
  <2> QED BY <2>1, <2>7
<1> QED BY <1>2, <1>3

LEMMA WithFrameOnwards ==
  ASSUME NEW c, LeadingClip(c), NEW len \in Nat
  PROVE  Onwards(c, WithFrame(c, len))
<1> DEFINE x == Muxed(c)
           y == avi_add(x, len)
           a == Added(c, y)
<1>1. c \in OpenClips /\ Recording(x) /\ IndexInv(x.avi) /\ x.avi = c.avi /\ Leading(x)
  BY MuxedIs DEF LeadingClip, Sound
<1>2. WithFrame(c, len) = RefreshIfDue(a)
  BY DEF WithFrame
<1> HIDE DEF x
<1>3. /\ Recording(y) /\ IndexInv(y.avi) /\ Onward(x, y)
      /\ y.avi.chunks = x.avi.chunks \/ y.avi.chunks = Append(x.avi.chunks, len)
  BY <1>1, avi_addIs, avi_addLeads
<1> HIDE DEF y
<1>4. a \in OpenClips /\ Muxed(a) = y /\ a.avi = y.avi /\ a.name = c.name
  BY <1>1, <1>3, AddedIs DEF Recording, MuxInv
<1> HIDE DEF a
<1>5. Sound(a)
  BY <1>3, <1>4 DEF Sound
<1>6. Onwards(c, a)
  BY <1>1, <1>3, <1>4, <1>5, ClipOnward DEF x
<1>7. Onwards(a, RefreshIfDue(a))
  BY <1>6, RefreshIfDueOnwards DEF Onwards
<1> QED BY <1>2, <1>6, <1>7, OnwardsTrans

LEMMA WithEmptyFrameOnwards ==
  ASSUME NEW c, LeadingClip(c)
  PROVE  Onwards(c, WithEmptyFrame(c))
<1> DEFINE x == Muxed(c)
           z == 0
           y == avi_add(x, z)
           e == WithEmptyFrame(c)
<1>1. /\ Recording(x) /\ IndexInv(x.avi) /\ x.avi = c.avi /\ x.f = c.f /\ Leading(x)
      /\ z \in Nat
  BY MuxedIs DEF LeadingClip, Sound
<1>2. Sound(e) /\ e.name = c.name /\ e.avi = y.avi /\ e.f = y.f
  BY WithEmptyFrameIs DEF LeadingClip
<1> HIDE DEF x, z, e
<1>3. /\ Recording(y) /\ Onward(x, y)
      /\ y.avi.chunks = x.avi.chunks \/ y.avi.chunks = Append(x.avi.chunks, z)
  BY <1>1, avi_addIs, avi_addLeads
<1> HIDE DEF y
<1>4. Muxed(e).avi = y.avi /\ Muxed(e).f = y.f
  BY <1>2, SoundIs
<1>5. Onward(x, Muxed(e))
  BY <1>3, <1>4 DEF Onward, Leading, AtEnd
<1>6. Onwards(c, e)
  BY <1>1, <1>2, <1>3, <1>5, ClipOnward DEF x
<1> QED BY <1>6 DEF e

(* What clip_stop leaves of the clip shows no less either. *)
LEMMA StoppedShows ==
  ASSUME NEW c, LeadingClip(c)
  PROVE  LET x == Stopped(c) IN Settled(c) <= Settled(With(c, x)) /\ MuxInv(x)
<1> DEFINE m == Muxed(c)
           y == avi_finalize(m)
           x == CloseFile(y)
           w == With(c, x)
           z == 0
<1>1. c \in OpenClips /\ Recording(m) /\ m.avi = c.avi /\ m.f = c.f /\ Leading(m) /\ MuxInv(m)
  BY SoundIs DEF LeadingClip, Sound
<1>2. Stopped(c) = x /\ z \in Nat
  BY DEF Stopped
<1> HIDE DEF m, z
<1>3. MuxInv(y) /\ SameCount(m, y) /\ Onward(m, y)
  BY <1>1, avi_finalizeIs, avi_finalizeLeads
<1> HIDE DEF y
<1>4. MuxInv(x) /\ x.avi = y.avi
  BY <1>3, CloseFileIs
<1>5. Readable(y.f.disk, y.avi.chunks) <= Readable(x.f.disk, x.avi.chunks)
  BY <1>3, <1>4, CloseFileShows DEF Onward
<1>6. Readable(m.f.disk, m.avi.chunks) <= Readable(y.f.disk, y.avi.chunks)
  <2>1. y.avi.chunks = m.avi.chunks
    BY <1>3 DEF SameCount
  <2> QED BY <1>1, <1>2, <1>3, <2>1, OnwardShows
<1> HIDE DEF x
<1>7. w.f = x.f /\ w.avi = x.avi
  BY <1>1, <1>4, WithIs DEF MuxInv
<1> HIDE DEF w
<1> DEFINE p == Readable(m.f.disk, m.avi.chunks)
           q == Readable(y.f.disk, y.avi.chunks)
           r == Readable(x.f.disk, x.avi.chunks)
<1>8. p \in Nat /\ q \in Nat /\ r \in Nat
  <2>1. \A v : MuxInv(v) => /\ v.f.disk \in Disks /\ v.avi.chunks \in Seq(Nat)
                            /\ HeaderTrue(v.f.disk, v.avi.chunks)
    BY DEF MuxInv, Muxes, Avis, Files, Truthful
  <2> QED BY <1>1, <1>3, <1>4, <2>1, ReadableIs
<1>9. Settled(c) = p /\ Settled(w) = r
  BY <1>1, <1>4, <1>7, SettledIs
<1>10. p <= q /\ q <= r
  BY <1>5, <1>6
<1> HIDE DEF p, q, r
<1> QED BY <1>2, <1>4, <1>8, <1>9, <1>10 DEF w, x

-----------------------------------------------------------------------------
(* What the card holds, step by step *)

Shown(S, c, a) == [n \in S |-> IF c.open /\ n = c.name THEN Settled(c) ELSE a[n]]

LEMMA KeptIs == kept = Shown(clips, cur, archive) /\ kept' = Shown(clips', cur', archive')
BY DEF kept, Shown

LEMMA ShownIs ==
  ASSUME NEW S, NEW c, NEW a \in [S -> Nat], c = Closed \/ Sound(c)
  PROVE  /\ Shown(S, c, a) \in [S -> Nat]
         /\ c = Closed => Shown(S, c, a) = a
         /\ c # Closed => \A n \in S : Shown(S, c, a)[n] = IF n = c.name THEN Settled(c)
                                                           ELSE a[n]
<1>1. CASE c = Closed
  <2>1. ~c.open
    BY <1>1, ClosedIs
  <2>2. Shown(S, c, a) = [n \in S |-> a[n]]
    BY <2>1 DEF Shown
  <2> QED BY <1>1, <2>2
<1>2. CASE c # Closed
  <2>1. c.open /\ Settled(c) \in Nat
    BY <1>2, SoundIs
  <2> DEFINE k == Settled(c)
  <2>2. Shown(S, c, a) = [n \in S |-> IF n = c.name THEN k ELSE a[n]]
    BY <2>1 DEF Shown
  <2> HIDE DEF k
  <2> QED BY <1>2, <2>1, <2>2 DEF k
<1> QED BY <1>1, <1>2

KeptInv == cur # Closed => Leading(Muxed(cur))

LEMMA BegunLeads ==
  ASSUME NEW d \in DcfRecords, NextName(d) \in Names, NEW x, Recording(x), IndexInv(x.avi),
         Leading(x)
  PROVE  Leading(Muxed(Begun(d, x)))
<1> DEFINE g == Disarmed(x.f)
           c == Begun(d, x)
           y == Muxed(c)
<1>1. x.f \in Files
  BY DEF Recording, MuxInv, Muxes
<1>2. /\ SameView(x.f, g) /\ g.ptr = x.f.ptr /\ g.size = x.f.size /\ g.err = x.f.err
  BY <1>1, DisarmedIs
<1>3. c.f = g /\ c.avi = x.avi
  BY DEF Begun
<1>4. Sound(c) /\ Saved(c.f) = Saved(x.f)
  BY BegunIs
<1> HIDE DEF g, c
<1>5. y.f = c.f /\ y.avi = c.avi
  BY <1>4, SoundIs
<1> HIDE DEF y
<1>6. Leading(y)
  BY <1>2, <1>3, <1>4, <1>5 DEF Leading, Ahead, AtEnd, SameView
<1> QED BY <1>6 DEF y, c

LEMMA ClipStartLeads ==
  ASSUME DcfTypeOK, DcfTypeOK', CardInv,
         NEW d \in ScanResults, NEW fault \in Faults, ClipStart(d, fault)
  PROVE  KeptInv'
<1> DEFINE x == Prepared(fault)
<1>1. cur = Closed /\ d \in DcfRecords /\ NextName(d) \in Names
  BY ClipStartIs
<1>2. StartReturns(d, x, fault)
  BY DEF ClipStart
<1>3. ~x.avi.error => Recording(x) /\ IndexInv(x.avi) /\ Leading(x)
  BY PreparedIs, PreparedLeads
<1> HIDE DEF x
<1>4. cur' = Closed \/ (~x.avi.error /\ cur' = Begun(d, x))
  BY <1>1, <1>2 DEF StartReturns
<1>5. CASE cur' = Closed
  BY <1>5 DEF KeptInv
<1>6. CASE ~x.avi.error /\ cur' = Begun(d, x)
  <2>1. Leading(Muxed(Begun(d, x)))
    BY <1>1, <1>3, <1>6, BegunLeads
  <2> QED BY <1>6, <2>1 DEF KeptInv
<1> QED BY <1>4, <1>5, <1>6

LEMMA EmptyShows == ASSUME NEW c, Empty(c) PROVE Settled(c) = 0
<1> DEFINE x == Muxed(c)
<1>1. MuxInv(x) /\ x.f = c.f /\ x.avi = c.avi /\ x.f.disk.hdr = NoHeader
  BY SoundIs DEF Empty
<1> HIDE DEF x
<1>2. Settled(c) = Readable(x.f.disk, x.avi.chunks)
  BY <1>1, SettledIs
<1> QED BY <1>1, <1>2 DEF Readable

LEMMA ClipStartAdds ==
  ASSUME ~ShortListings, DcfInv, DcfTypeOK', CardInv, CardInv',
         NEW d \in ScanResults, NEW fault \in Faults, ClipStart(d, fault)
  PROVE  Archive!Next
<1> DEFINE n == NextName(d)
           z == 0
<1>1. DcfTypeOK
  BY DEF DcfInv
<1>2. /\ cur = Closed /\ clips' = clips \cup {n} /\ archive' = Archived(n, z)
      /\ d \in DcfRecords /\ d.ready /\ ~Exhausted(d) /\ z \in Nat
      /\ cur' = Closed \/ (Empty(cur') /\ cur'.name = n)
  BY <1>1, ClipStartIs
<1>3. n \in Names \ clips
  BY <1>2, ScanIsAhead, NextNameIsNew
<1> HIDE DEF n
<1>4. /\ archive \in [clips -> Nat] /\ archive' \in [clips' -> Nat]
      /\ cur' = Closed \/ Sound(cur')
  BY DEF CardInv, OpenOK
<1>5. \A m \in clips' : archive'[m] = IF m = n THEN z ELSE archive[m]
  BY <1>2, <1>4, ArchivedIs
<1>6. kept = archive
  BY <1>2, <1>4, KeptIs, ShownIs
<1>7. kept' \in [clips' -> Nat] /\ \A m \in clips' : kept'[m] = archive'[m]
  <2>1. CASE cur' = Closed
    BY <1>4, <2>1, KeptIs, ShownIs
  <2>2. CASE cur' # Closed
    <3>1. cur'.name = n /\ Settled(cur') = z
      BY <1>2, <2>2, EmptyShows
    <3>2. /\ kept' \in [clips' -> Nat]
          /\ \A m \in clips' : kept'[m] = IF m = n THEN z ELSE archive'[m]
      BY <1>4, <2>2, <3>1, KeptIs, ShownIs
    <3> QED BY <1>2, <1>5, <3>2
  <2> QED BY <2>1, <2>2
<1>8. kept' = [m \in DOMAIN kept \cup {n} |-> IF m = n THEN 0 ELSE kept[m]]
  <2>1. \A m \in clips' : kept'[m] = IF m = n THEN 0 ELSE kept[m]
    BY <1>5, <1>6, <1>7 DEF z
  <2>2. clips' = DOMAIN kept \cup {n} /\ DOMAIN kept' = clips'
    BY <1>2, <1>4, <1>6, <1>7
  <2>3. kept' = [m \in clips' |-> kept'[m]]
    BY <1>7
  <2> QED BY <2>1, <2>2, <2>3
<1>9. n \in Names \ DOMAIN kept
  BY <1>3, <1>4, <1>6
<1>10. Archive!Add(n)
  BY <1>8, <1>9 DEF Archive!Add
<1> QED BY <1>3, <1>10 DEF Archive!Next

(* A step that leaves the clips and shows no less of the one called n. *)
LEMMA OneGrows ==
  ASSUME CardInv, CardInv', clips' = clips, NEW n \in clips, kept[n] <= kept'[n],
         \A m \in clips : m # n => kept'[m] = kept[m]
  PROVE  Archive!Next
<1>1. kept \in [clips -> Nat] /\ kept' \in [clips -> Nat]
  BY KeptIs, ShownIs DEF CardInv, OpenOK
<1>2. kept' = [kept EXCEPT ![n] = kept'[n]]
  <2> DEFINE k == kept'[n]
             g == [kept EXCEPT ![n] = k]
  <2>1. k \in Nat
    BY <1>1
  <2> HIDE DEF k
  <2>2. g \in [clips -> Nat] /\ \A m \in clips : g[m] = IF m = n THEN k ELSE kept[m]
    BY <1>1, <2>1
  <2> HIDE DEF g
  <2>3. \A m \in clips : g[m] = kept'[m]
    BY <2>2 DEF k
  <2>4. g = kept'
    BY <1>1, <2>2, <2>3
  <2> QED BY <2>4 DEF g, k
<1>3. Archive!Grow(n)
  BY <1>1, <1>2 DEF Archive!Grow
<1>4. n \in DOMAIN kept
  BY <1>1
<1> QED BY <1>3, <1>4 DEF Archive!Next

(* A call that leaves the open clip as it is or ends it, with k readable. *)
LEMMA EndGrows ==
  ASSUME CardInv, CardInv', cur # Closed, clips' = clips, cur' = Closed,
         NEW k \in Nat, archive' = Archived(cur.name, k), Settled(cur) <= k
  PROVE  Archive!Next
<1>1. Sound(cur) /\ cur.name \in clips /\ archive \in [clips -> Nat]
  BY DEF CardInv, OpenOK
<1>2. \A m \in clips : kept[m] = IF m = cur.name THEN Settled(cur) ELSE archive[m]
  BY <1>1, KeptIs, ShownIs
<1>3. \A m \in clips : archive'[m] = IF m = cur.name THEN k ELSE archive[m]
  BY DEF Archived
<1>4. kept' = archive'
  BY KeptIs, ShownIs DEF CardInv
<1> QED BY <1>1, <1>2, <1>3, <1>4, OneGrows

LEMMA RecordedGrows ==
  ASSUME CardInv, CardInv', cur # Closed, NEW fault \in Faults, NEW c, Onwards(cur, c),
         Recorded(c, fault)
  PROVE  KeptInv' /\ Archive!Next
<1>1. /\ Sound(cur) /\ cur.name \in clips /\ archive \in [clips -> Nat]
      /\ Sound(c) /\ Settled(c) \in Nat /\ Settled(cur) <= Settled(c)
  BY SoundIs DEF CardInv, OpenOK, Onwards, LeadingClip
<1>2. CASE cur' = [c EXCEPT !.f = Disarmed(@)] /\ UNCHANGED <<dcfVars, archive, ended>>
  <2>1. Onwards(c, cur')
    BY <1>2, DisarmedOnwards DEF Onwards
  <2>2. /\ Leading(Muxed(cur')) /\ Sound(cur') /\ cur'.name = cur.name
        /\ Settled(c) <= Settled(cur') /\ Settled(cur') \in Nat
    BY <2>1, SoundIs DEF Onwards, LeadingClip
  <2>3. cur' # Closed
    BY <2>2, SoundIs, ClosedIs
  <2>4. clips' = clips /\ archive' = archive
    BY <1>2 DEF dcfVars
  <2>5. \A m \in clips : kept[m] = IF m = cur.name THEN Settled(cur) ELSE archive[m]
    BY <1>1, KeptIs, ShownIs
  <2>6. \A m \in clips : kept'[m] = IF m = cur.name THEN Settled(cur') ELSE archive[m]
    BY <1>1, <2>2, <2>3, <2>4, KeptIs, ShownIs
  <2>7. Settled(cur) <= Settled(cur')
    <3>1. Settled(cur) \in Nat
      BY <1>1, SoundIs
    <3> QED BY <1>1, <2>2, <3>1
  <2>8. Archive!Next
    BY <1>1, <2>4, <2>5, <2>6, <2>7, OneGrows
  <2> QED BY <2>2, <2>8 DEF KeptInv
<1>3. CASE Dies(c)
  <2> DEFINE e == [cur EXCEPT !.avi = c.avi, !.f = c.f]
             k == Settled(e)
  <2>1. k = Settled(c)
    <3>1. e.f = c.f /\ e.avi = c.avi
      BY <1>1 DEF Sound, OpenClips
    <3> HIDE DEF e
    <3> QED BY <3>1 DEF Settled
  <2>2. archive' = Archived(cur.name, k) /\ clips' = clips /\ cur' = Closed
    BY <1>3 DEF Dies, PowerLost
  <2> HIDE DEF k
  <2>3. Archive!Next
    BY <1>1, <2>1, <2>2, EndGrows
  <2> QED BY <2>2, <2>3 DEF KeptInv
<1> QED BY <1>2, <1>3 DEF Recorded

LEMMA AddFrameGrows ==
  ASSUME CardInv, CardInv', KeptInv, NEW len \in Sizes, NEW fault \in Faults,
         AddFrame(len, fault)
  PROVE  KeptInv' /\ Archive!Next
<1> DEFINE a == [cur EXCEPT !.f = Armed(@, fault)]
           c == WithFrame(a, len)
<1>1. cur # Closed /\ LeadingClip(cur)
  BY ClosedIs DEF AddFrame, CardInv, OpenOK, KeptInv, LeadingClip
<1>2. len \in Nat
  BY CardFilesConstants
<1>3. Recorded(c, fault)
  BY DEF AddFrame
<1>4. Onwards(cur, a)
  BY <1>1, ArmedOnwards
<1> HIDE DEF a
<1>5. Onwards(a, c)
  BY <1>2, <1>4, WithFrameOnwards DEF Onwards
<1> HIDE DEF c
<1>6. Onwards(cur, c)
  BY <1>1, <1>4, <1>5, OnwardsTrans
<1> QED BY <1>1, <1>3, <1>6, RecordedGrows

LEMMA AddEmptyFrameGrows ==
  ASSUME CardInv, CardInv', KeptInv, NEW fault \in Faults, AddEmptyFrame(fault)
  PROVE  KeptInv' /\ Archive!Next
<1> DEFINE a == [cur EXCEPT !.f = Armed(@, fault)]
           c == WithEmptyFrame(a)
<1>1. cur # Closed /\ LeadingClip(cur)
  BY ClosedIs DEF AddEmptyFrame, CardInv, OpenOK, KeptInv, LeadingClip
<1>2. Recorded(c, fault)
  BY DEF AddEmptyFrame
<1>3. Onwards(cur, a)
  BY <1>1, ArmedOnwards
<1> HIDE DEF a
<1>4. Onwards(a, c)
  BY <1>3, WithEmptyFrameOnwards DEF Onwards
<1> HIDE DEF c
<1>5. Onwards(cur, c)
  BY <1>1, <1>3, <1>4, OnwardsTrans
<1> QED BY <1>1, <1>2, <1>5, RecordedGrows

LEMMA ClipStopGrows ==
  ASSUME CardInv, CardInv', KeptInv, NEW fault \in Faults, ClipStop(fault)
  PROVE  KeptInv' /\ Archive!Next
<1> DEFINE a == [cur EXCEPT !.f = Armed(@, fault)]
           x == Stopped(a)
           e == With(cur, x)
           k == Settled(e)
<1>1. cur # Closed /\ LeadingClip(cur) /\ Sound(cur)
  BY ClosedIs DEF ClipStop, CardInv, OpenOK, KeptInv, LeadingClip
<1>2. Onwards(cur, a) /\ LeadingClip(a)
  BY <1>1, ArmedOnwards DEF Onwards
<1>3. StopReturns(x, fault)
  BY DEF ClipStop
<1>4. MuxInv(x) /\ Settled(a) <= Settled(With(a, x))
  <2> HIDE DEF a
  <2> QED BY <1>2, StoppedShows
<1>5. /\ With(a, x).f = x.f /\ With(a, x).avi = x.avi
      /\ e.f = x.f /\ e.avi = x.avi
  <2>1. a \in OpenClips /\ cur \in OpenClips /\ x \in Muxes
    BY <1>1, <1>2, <1>4 DEF LeadingClip, Sound, MuxInv
  <2> HIDE DEF a, x
  <2> QED BY <2>1, WithIs
<1>6. Settled(With(a, x)) = k
  <2> HIDE DEF a, x
  <2> QED BY <1>5 DEF Settled
<1>7. k \in Nat /\ Settled(cur) <= k
  <2>1. Settled(cur) \in Nat /\ Settled(a) \in Nat
    BY <1>1, <1>2, SoundIs DEF LeadingClip
  <2>2. k \in Nat
    <3> HIDE DEF x, e
    <3> QED BY <1>4, <1>5, SettledIs
  <2> HIDE DEF a, x, k
  <2> QED BY <1>2, <1>4, <1>6, <2>1, <2>2 DEF Onwards
<1> HIDE DEF a, x
<1>8. archive' = Archived(cur.name, k) /\ clips' = clips /\ cur' = Closed
  BY <1>3 DEF StopReturns, Dies, PowerLost, With, dcfVars
<1> HIDE DEF k
<1> QED BY <1>1, <1>7, <1>8, EndGrows DEF KeptInv

LEMMA PowerCutGrows ==
  ASSUME CardInv, CardInv', PowerCut
  PROVE  KeptInv' /\ [Archive!Next]_kept
<1>1. clips' = clips /\ cur' = Closed
  BY DEF PowerCut, PowerLost
<1>2. CASE cur.open
  <2>1. cur # Closed /\ Settled(cur) \in Nat
    BY <1>2, ClosedIs, SoundIs DEF CardInv, OpenOK
  <2>2. archive' = Archived(cur.name, Settled(cur))
    BY <1>2 DEF PowerCut
  <2> QED BY <1>1, <2>1, <2>2, EndGrows DEF KeptInv
<1>3. CASE ~cur.open
  <2>1. archive' = archive
    BY <1>3 DEF PowerCut
  <2>2. kept' = kept
    <3>1. cur = Closed
      BY <1>3, SoundIs DEF CardInv, OpenOK
    <3> QED BY <1>1, <2>1, <3>1, KeptIs
  <2> QED BY <1>1, <2>2 DEF KeptInv
<1> QED BY <1>2, <1>3

LEMMA UserDeletesDeletes ==
  ASSUME CardInv, CardInv', UserDeletes
  PROVE  KeptInv' /\ Archive!Next
<1>1. /\ cur = Closed /\ cur' = Closed /\ clips' \subseteq clips
      /\ archive' = [n \in clips' |-> archive[n]]
  BY UserDeletesIs
<1>2. kept = archive /\ kept' = archive' /\ archive \in [clips -> Nat]
  BY <1>1, KeptIs, ShownIs DEF CardInv
<1> DEFINE S == clips \ clips'
<1>3. DOMAIN kept \ S = clips' /\ S \in SUBSET DOMAIN kept
  BY <1>1, <1>2
<1>4. kept' = [n \in DOMAIN kept \ S |-> kept[n]]
  BY <1>1, <1>2, <1>3
<1> HIDE DEF S
<1>5. Archive!Delete(S)
  BY <1>4 DEF Archive!Delete
<1> QED BY <1>1, <1>3, <1>5 DEF Archive!Next, KeptInv

LEMMA KeptStep ==
  ASSUME ~ShortListings, DcfInv, DcfInv', CardInv, CardInv', KeptInv, [Next]_vars
  PROVE  KeptInv' /\ [Archive!Next]_kept
<1>1. DcfTypeOK /\ DcfTypeOK'
  BY DEF DcfInv
<1>2. CASE UNCHANGED vars
  BY <1>2, KeptIs DEF vars, dcfVars, fileVars, KeptInv
<1>3. CASE ClipStartRefused
  <2>1. UNCHANGED fileVars /\ clips' = clips
    BY <1>3 DEF ClipStartRefused, NameRefused, OpenRefused, ScanRefused, dcfVars
  <2> QED BY <2>1, KeptIs DEF fileVars, KeptInv
<1>4. ASSUME NEW d \in ScanResults, NEW fault \in Faults, ClipStart(d, fault)
      PROVE  KeptInv' /\ [Archive!Next]_kept
  BY <1>1, <1>4, ClipStartLeads, ClipStartAdds
<1> QED BY <1>2, <1>3, <1>4, AddFrameGrows, AddEmptyFrameGrows, ClipStopGrows, PowerCutGrows,
           UserDeletesDeletes DEF Next

(***************************************************************************)
(* ClipsKept: the recorder implements the archive.  Whatever fails inside  *)
(* clip_start, avi_add_raw, avi_refresh_header or clip_stop, and wherever  *)
(* the power goes, no step makes less of a clip readable than there was,   *)
(* and only the user takes one away.  A new clip must not take the name of *)
(* an old one, hence the complete listings.                                *)
(***************************************************************************)
THEOREM ClipsAreKept == ~ShortListings => (Spec => ClipsKept)
<1> SUFFICES ASSUME ~ShortListings PROVE Spec => ClipsKept
  OBVIOUS
<1>1. Init => kept = Archive!Empty /\ KeptInv
  <2> SUFFICES ASSUME Init PROVE kept = Archive!Empty /\ KeptInv
    OBVIOUS
  <2>1. clips = {} /\ cur = Closed
    BY DEF Init, DcfInit
  <2>2. kept = [n \in {} |-> 0]
    BY <2>1 DEF kept
  <2> QED BY <2>1, <2>2 DEF Archive!Empty, KeptInv
<1>2. DcfInv /\ DcfInv' /\ CardInv /\ CardInv' /\ KeptInv /\ [Next]_vars
        => KeptInv' /\ [Archive!Next]_kept
  BY KeptStep
<1> QED BY <1>1, <1>2, NamesInvariant, CardInvariant, PTL DEF Spec, ClipsKept, Archive!Spec
=============================================================================

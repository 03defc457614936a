------------------------------ MODULE FatFile -------------------------------
(***************************************************************************)
(* One file written through FatFs (src/vendor/fatfs/ff.c): the FIL with    *)
(* its one-sector buffer, and what the card holds of the file at each      *)
(* moment.  A file is written front to back, and only fields of its first  *)
(* sector are ever rewritten, so the card's share of it is, for each       *)
(* sector, how many of its leading bytes have arrived, and the header      *)
(* fields as they were when the first sector was last written.             *)
(*                                                                         *)
(* Simplifications:                                                        *)
(*  - a sector is written whole or not at all, and a run of sectors too;   *)
(*  - accesses to the allocation table fail with the data access they      *)
(*    serve; a cluster is one sector;                                      *)
(*  - the FIL is open for writing and its volume is mounted.               *)
(***************************************************************************)
EXTENDS Integers

CONSTANTS
  MaxSectors,   \* bound: sectors of a file that are followed
  Prealloc      \* REC_PREALLOC, the size f_expand reserves

CONSTANT NoHeader     \* no header has been written

ASSUME FatFileSizes == MaxSectors \in Nat /\ Prealloc \in Nat

Sector == 512

Never == 99     \* more accesses than any call makes

(***************************************************************************)
(* f.left accesses of the card succeed before one fails; with f.dead every *)
(* later one fails too.  f.full: no cluster is free.  f.ok is the result   *)
(* of the last call, f.err the FIL's sticky error.  f.disk.size is the     *)
(* size in the directory entry, f.size the one in the FIL.                 *)
(***************************************************************************)
NewFile ==
  [ptr |-> 0, size |-> 0, sect |-> -1, fill |-> 0, hdr |-> NoHeader,
   dirty |-> FALSE, err |-> FALSE, ok |-> TRUE,
   disk |-> [hdr |-> NoHeader, fill |-> [s \in 0 .. MaxSectors |-> 0],
             size |-> 0],
   left |-> Never, dead |-> FALSE, full |-> FALSE]

Fail(f) == [f EXCEPT !.ok = FALSE, !.left = IF f.dead THEN 0 ELSE Never]
Abort(f) == [Fail(f) EXCEPT !.err = TRUE]
Accessed(f) == [f EXCEPT !.left = IF @ = Never THEN @ ELSE @ - 1]

Larger(a, b) == IF a > b THEN a ELSE b

(* The card's share with the buffer written back. *)
Saved(f) ==
  [f.disk EXCEPT !.fill = [@ EXCEPT ![f.sect] = f.fill],
                 !.hdr = IF f.sect = 0 THEN f.hdr ELSE @]

(* The write-back of a dirty buffer. *)
Flush(f) ==
  IF ~f.dirty THEN f
  ELSE IF f.left = 0 THEN Fail(f)
  ELSE [Accessed(f) EXCEPT !.dirty = FALSE, !.disk = Saved(f)]

FlushOrAbort(f) == IF Flush(f).ok THEN Flush(f) ELSE Abort(f)

Held(disk, s) == IF s \in DOMAIN disk.fill THEN disk.fill[s] ELSE 0

(* The buffer takes sector s, read from the card if it has content. *)
Load(f, s, read) ==
  LET g == [f EXCEPT !.sect = s, !.fill = Held(f.disk, s),
                     !.hdr = IF s = 0 THEN f.disk.hdr ELSE @]
  IN IF ~read THEN g ELSE IF f.left = 0 THEN Abort(f) ELSE Accessed(g)

(* n bytes at the file pointer, all within the buffered sector. *)
Put(f, n) ==
  [f EXCEPT !.ptr = @ + n,
            !.fill = Larger(@, (f.ptr % Sector) + n),
            !.dirty = TRUE,
            !.size = Larger(@, f.ptr + n)]

NoCluster(f) == f.full /\ f.ptr >= f.size

(* The card's share with k sectors from s on written whole. *)
Filled(disk, s, k) ==
  [disk EXCEPT !.fill = [t \in DOMAIN @ |-> IF t \in s .. s + k - 1 THEN Sector ELSE @[t]]]

(* Whole sectors go straight to the card. *)
PutSectors(f, k) ==
  IF k = 0 THEN f
  ELSE IF f.left = 0 THEN Abort(f)
  ELSE LET to == f.ptr + k * Sector
       IN [Accessed(f) EXCEPT !.ptr = to,
                              !.disk = Filled(@, f.ptr \div Sector, k),
                              !.size = Larger(@, to)]

(* The last piece of a write, in a sector the buffer does not hold yet. *)
PutRest(f, n) ==
  IF n = 0 \/ ~f.ok THEN f
  ELSE IF NoCluster(f) THEN [f EXCEPT !.ok = FALSE]
  ELSE LET s == f.ptr \div Sector
           g == IF f.sect = s THEN f ELSE Load(f, s, f.ptr < f.size)
       IN IF g.ok THEN Put(g, n) ELSE g

(* A write from a sector boundary on. *)
PutFromBoundary(f, n) ==
  IF NoCluster(f) THEN [f EXCEPT !.ok = FALSE]
  ELSE LET g == FlushOrAbort(f)
       IN IF ~g.ok THEN g
          ELSE LET h == PutSectors(g, n \div Sector)
               IN PutRest(h, n % Sector)

(* f_write and io_write's check that all of it was taken. *)
f_write(f, n) ==
  LET room == (Sector - (f.ptr % Sector)) % Sector
      first == IF n < room THEN n ELSE room
      g == [f EXCEPT !.ok = TRUE]
      h == IF first = 0 THEN g ELSE Put(g, first)
  IN IF f.err THEN [f EXCEPT !.ok = FALSE]
     ELSE IF n = first THEN h
     ELSE PutFromBoundary(h, n - first)

(* f_lseek: a sector is loaded only if the pointer lands inside one that   *)
(* the buffer does not hold; the buffer is written back first.             *)
f_lseek(f, ofs) ==
  LET g == [f EXCEPT !.ptr = ofs, !.ok = TRUE]
      s == ofs \div Sector
  IN IF f.err THEN [f EXCEPT !.ok = FALSE]
     ELSE IF ofs % Sector = 0 \/ s = f.sect THEN g
     ELSE LET h == FlushOrAbort(g) IN IF h.ok THEN Load(h, s, TRUE) ELSE h

(* f_sync: the buffer, then the directory entry; its errors do not stick. *)
f_sync(f) ==
  LET g == Flush([f EXCEPT !.ok = TRUE])
  IN IF ~g.ok THEN g
     ELSE IF g.left = 0 THEN Fail(g)
     ELSE [Accessed(g) EXCEPT !.disk.size = f.size]

(* f_expand with opt = 1, on an empty file. *)
f_expand(f, n) ==
  IF f.full THEN [f EXCEPT !.ok = FALSE]
  ELSE IF f.left = 0 THEN Fail(f)
  ELSE [Accessed(f) EXCEPT !.size = n, !.ok = TRUE]

(* f_truncate at the file pointer: the surplus clusters are freed. *)
f_truncate(f) ==
  LET g == [f EXCEPT !.size = f.ptr, !.ok = TRUE]
  IN IF f.err THEN [f EXCEPT !.ok = FALSE]
     ELSE IF f.ptr >= f.size THEN f
     ELSE IF f.left = 0 THEN Abort(g)
     ELSE FlushOrAbort(Accessed(g))

f_close(f) == f_sync(f)

(* The first n bytes of the file are on the card. *)
OnCard(disk, n) ==
  \A s \in DOMAIN disk.fill :
    s * Sector < n =>
      disk.fill[s] >= IF n - s * Sector < Sector THEN n - s * Sector ELSE Sector
=============================================================================

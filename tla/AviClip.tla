------------------------------ MODULE AviClip -------------------------------
(***************************************************************************)
(* The AVI muxer of src/src/avi.c on a FatFs file.  The running header     *)
(* fields, the chunk sizes and the index entries are the code's; the       *)
(* constant fields and the pictures themselves are left out.               *)
(*                                                                         *)
(* An open clip x is the pair of avi_t (x.avi) and its file (x.f).         *)
(* x.avi.chunks is a history: the JPEG length of every chunk counted.      *)
(***************************************************************************)
EXTENDS FatFile, FiniteSets, Sequences

CONSTANTS IdxCap   \* entries the index buffer holds: IDX_SIZE / 16

HdrSize == 224     \* AVI_HDR_SIZE

OFF_RIFFSZ == 4
OFF_FLAGS == 44
OFF_TOTALFRAMES == 48
OFF_STRH_LEN == 140
OFF_MOVISZ == 216
Fields == {OFF_RIFFSZ, OFF_FLAGS, OFF_TOTALFRAMES, OFF_STRH_LEN, OFF_MOVISZ}
HasIndex == 1      \* AVIF_HASINDEX, the only flag that changes

ASSUME AviSizes == IdxCap \in Nat /\ NoHeader \notin [Fields -> Nat]

(* The placeholder header of avi_start: a valid empty movie, no index. *)
EmptyMovie ==
  [o \in Fields |-> CASE o = OFF_RIFFSZ -> HdrSize - 8
                      [] o = OFF_MOVISZ -> 4
                      [] OTHER -> 0]

pad4(n) == (4 - (n % 4)) % 4
avi_chunk_total(n) == 8 + n + pad4(n)

(* wr: nothing is written once an error has stuck. *)
Wrote(x, g, n) ==
  [x EXCEPT !.f = g, !.avi.error = ~g.ok, !.avi.off = IF g.ok THEN @ + n ELSE @]
wr(x, n) == IF x.avi.error THEN x ELSE Wrote(x, f_write(x.f, n), n)

avi_start(f) ==
  LET fresh == [frames |-> 0, movi_bytes |-> 0, off |-> 0, error |-> FALSE,
                idx |-> <<>>, chunks |-> <<>>]
      g == f_lseek(f, 0)
      x == wr([avi |-> fresh, f |-> g], HdrSize)
  IN IF ~g.ok THEN [avi |-> [fresh EXCEPT !.error = TRUE], f |-> g]
     ELSE IF x.avi.error THEN x ELSE [x EXCEPT !.f.hdr = EmptyMovie]

(* A mutant: the offset counts from the file's start. *)
idx_stage_FromFile(a, len) ==
  IF a.frames >= IdxCap THEN a
  ELSE [a EXCEPT !.idx = Append(@, [ofs |-> HdrSize + a.movi_bytes, len |-> len])]

(* idx_stage: the entry of the next chunk, while the buffer has room. *)
idx_stage(a, len) ==
  IF a.frames >= IdxCap THEN a
  ELSE [a EXCEPT !.idx = Append(@, [ofs |-> 4 + a.movi_bytes, len |-> len])]

chunk_done(a, len) ==
  [a EXCEPT !.movi_bytes = @ + avi_chunk_total(len),
            !.frames = @ + 1,
            !.chunks = Append(@, len)]

(* avi_add_raw; avi_add_empty_frame is the same with a length of zero. *)
avi_add(x, len) ==
  IF x.avi.error THEN x
  ELSE LET y == wr([x EXCEPT !.avi = idx_stage(@, len)], avi_chunk_total(len))
       IN IF y.avi.error THEN y ELSE [y EXCEPT !.avi = chunk_done(@, len)]

(* patch32: seek and four bytes; the running end stays where it is. *)
FourBytes(g) == IF g.ok THEN f_write(g, 4) ELSE g
Patched(x, h, ofs, val) ==
  IF h.ok THEN [x EXCEPT !.f = [h EXCEPT !.hdr[ofs] = val]]
  ELSE [x EXCEPT !.f = h, !.avi.error = TRUE]
patch32(x, ofs, val) ==
  IF x.avi.error THEN x ELSE Patched(x, FourBytes(f_lseek(x.f, ofs)), ofs, val)

(* The running fields in the code's order, each only if the one before was. *)
Resized(x, riffsz) ==
  patch32(patch32(patch32(patch32(x, OFF_RIFFSZ, riffsz),
                          OFF_TOTALFRAMES, x.avi.frames),
                  OFF_STRH_LEN, x.avi.frames),
          OFF_MOVISZ, x.avi.movi_bytes + 4)

Back(x, g) == IF x.avi.error THEN x ELSE [x EXCEPT !.f = g, !.avi.error = ~g.ok]
ToEnd(x) == Back(x, f_lseek(x.f, x.avi.off))

(* A mutant: the file pointer stays in the header. *)
patch_header_NoReturn(x, riffsz) == Resized(x, riffsz)

(* patch_header: the running fields, and back to the end. *)
patch_header(x, riffsz) == ToEnd(Resized(x, riffsz))

avi_refresh_header(x) ==
  IF x.avi.error THEN x
  ELSE patch_header(x, HdrSize - 8 + x.avi.movi_bytes)

Synced(x) == IF x.avi.error THEN x ELSE Back(x, f_sync(x.f))

(* avi_finalize: the index, the flag that claims it, the sizes, the sync. *)
IdxBytes(a) == 16 * (IF a.frames < IdxCap THEN a.frames ELSE IdxCap)
Entries(x) == IF IdxBytes(x.avi) = 0 THEN x ELSE wr(x, IdxBytes(x.avi))
Indexed(x) == Entries(wr(x, 8))
Flagged(x) == patch32(x, OFF_FLAGS, HasIndex)
Sized(x) ==
  IF x.avi.error THEN x
  ELSE patch_header(x, HdrSize - 8 + x.avi.movi_bytes + 8 + IdxBytes(x.avi))

(* A mutant: the header claims the index while it is being written. *)
avi_finalize_FlagFirst(x) ==
  IF x.avi.error THEN x ELSE Synced(Sized(Indexed(ToEnd(Flagged(x)))))

(* A mutant: the sizes stay those of the last refresh. *)
avi_finalize_KeepsSizes(x) == IF x.avi.error THEN x ELSE Synced(Indexed(x))

avi_finalize(x) == IF x.avi.error THEN x ELSE Synced(Sized(Flagged(Indexed(x))))

-----------------------------------------------------------------------------
(* What a player finds on the card. *)

(* Bytes of the first n chunks. *)
ChunkBytes(chunks, n) ==
  LET sum[i \in 0 .. Len(chunks)] ==
        IF i = 0 THEN 0 ELSE sum[i - 1] + avi_chunk_total(chunks[i])
  IN  sum[n]

ClaimsIndex(h) == h[OFF_FLAGS] = HasIndex

(***************************************************************************)
(* The header on the card tells the truth: it names a number of frames     *)
(* that were recorded, its sizes are those of exactly these chunks, they   *)
(* are on the card, and an index it claims is there in full.               *)
(***************************************************************************)
HeaderTrue(disk, chunks) ==
  \/ disk.hdr = NoHeader
  \/ LET h == disk.hdr
         n == h[OFF_TOTALFRAMES]
         indexed == IF ClaimsIndex(h) THEN 8 + 16 * (IF n < IdxCap THEN n ELSE IdxCap)
                    ELSE 0
     IN /\ n <= Len(chunks)
        /\ h[OFF_STRH_LEN] = n
        /\ h[OFF_MOVISZ] = 4 + ChunkBytes(chunks, n)
        /\ h[OFF_RIFFSZ] = HdrSize - 8 + ChunkBytes(chunks, n) + indexed
        /\ OnCard(disk, 8 + h[OFF_RIFFSZ])

(* Every index entry points at the chunk of its frame, and covers it. *)
IndexTrue(a) ==
  \A i \in 1 .. (IF Len(a.idx) < Len(a.chunks) THEN Len(a.idx) ELSE Len(a.chunks)) :
    /\ a.idx[i].ofs = 4 + ChunkBytes(a.chunks, i - 1)
    /\ a.idx[i].len = a.chunks[i]

(* Frames a player reads: those the header counts, as far as they lie      *)
(* within the size that the directory entry gives the file.                *)
Readable(disk, chunks) ==
  IF disk.hdr = NoHeader THEN 0
  ELSE Cardinality({n \in 1 .. disk.hdr[OFF_TOTALFRAMES] :
                      HdrSize + ChunkBytes(chunks, n) <= disk.size})
=============================================================================

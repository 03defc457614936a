-------------------------------- MODULE Dlog --------------------------------
(***************************************************************************)
(* The debug log of the debug build (dlog.c, dlog_core.c): lines are put   *)
(* whole into a ring of DRAM that outlives a warm reset, and the main loop *)
(* moves them into the sectors of a file it found, or made, at boot.  A    *)
(* host owns the file system meanwhile, the sectors of the file included.  *)
(*                                                                         *)
(* A sector is the sequence of the units written to it, the rest of it is  *)
(* padding.  A line has two units, its text and its line ending, so that   *)
(* it can straddle two sectors and be cut in the middle.                   *)
(*                                                                         *)
(* The ring is cached.  dlog_printf puts its line with interrupts masked   *)
(* and lets them in again before it pushes the indices, then the bytes,    *)
(* out to DRAM; an interrupt's own call runs in between, and the board may *)
(* reset anywhere.  What DRAM has of the ring meanwhile is as it was       *)
(* pushed last, or any later version of it that the cache evicted since.   *)
(***************************************************************************)
EXTENDS Integers, Sequences, SequencesExt

CONSTANTS
  NSec,      \* sectors of the log file (8192)
  Quarter,   \* nsec / 4: with fewer left at boot the file is cleared
  SecSize,   \* units of a sector
  RingSize,  \* units of the ring
  MaxFlush,  \* sectors written by one poll (4)
  MaxLines,  \* bound: lines put in a behaviour
  MaxBoots   \* bound: boots in a behaviour

\* The code refuses a file of fewer than 8 sectors, which makes a quarter two at least.
ASSUME DlogConstants ==
  /\ {NSec, Quarter, SecSize, RingSize, MaxFlush, MaxLines, MaxBoots} \subseteq Nat \ {0}
  /\ Quarter >= 2 /\ NSec > Quarter
  /\ SecSize >= 2 /\ RingSize > SecSize

VARIABLES
  dram,   \* the ring: units held, lines lost; since the indices were pushed last: the units
          \* released, and the older versions of the indices that DRAM may still have
  calls,  \* the call of dlog_printf of the main loop and of an interrupt: its step and line
  dlog,   \* dlog_t of this boot
  flush,  \* where the main loop is in dlog_core_flush
  file,   \* the sectors of the log file, 1..NSec, on the card
  answer  \* history: what the log answers for, lines put, boots, whether the host took the space

dlogVars == <<dram, calls, dlog, flush, file, answer>>

Sectors == 1..NSec
Text(i) == <<i, "text">>
End(i)  == <<i, "end">>
Line(i) == <<Text(i), End(i)>>
CutEnd  == End(0)
FullMsg == <<Text(0), End(0)>>
OldText == <<-1, "end">>
Foreign == <<OldText>>            \* what another file left, or put, in a sector
Pad     == << >>
Stale   == <<-1, "text">>         \* what the bytes of a line are that were never pushed
Units   == (-1..MaxLines) \X {"text", "end"}

Off == [state |-> "off", sec |-> 1, cur |-> Pad, taken |-> 0, dirty |-> FALSE,
        full |-> FALSE, abandoned |-> FALSE, wipe |-> 0]
Resting == [at |-> "no", force |-> FALSE, left |-> 0]

Callers == {"main", "irq"}
NoCalls == [who \in Callers |-> [at |-> "no", line |-> 0]]
Empty   == [held |-> << >>, lost |-> 0, past |-> << >>, older |-> {}]

DlogInit ==
  /\ dram = Empty
  /\ calls = NoCalls
  /\ dlog = Off
  /\ flush = Resting
  /\ file = [s \in Sectors |-> Foreign]
  /\ answer = [for |-> << >>, lines |-> 0, boots |-> 0, foreign |-> TRUE]

InFile == FlattenSeq([s \in Sectors |-> file[s]])
\* What a reader would find if the main loop went on to write all it holds.
Log == InFile \o dram.held

-----------------------------------------------------------------------------
(* The ring *)

Room == RingSize - Len(dram.held)

\* The indices as they are now: tail and head, counted from the tail pushed last, and lost.
Version == [from |-> Len(dram.past), to |-> Len(dram.past) + Len(dram.held), lost |-> dram.lost]

\* An interrupt is not interrupted, and the main loop goes on when its own call has returned.
NoInterrupt == calls["irq"].at = "no"
MainGoesOn  == NoInterrupt /\ calls["main"].at = "no"

\* dlog_ring_put: the whole line or nothing.
Put(line) ==
  [dram EXCEPT !.held = IF Len(line) > Room THEN @ ELSE @ \o line,
               !.lost = IF Len(line) > Room THEN @ + 1 ELSE @,
               !.older = @ \union {Version}]

Answered(line) ==
  [answer EXCEPT !.lines = @ + 1,
                 !.for = IF Len(line) > Room THEN @ ELSE @ \o line]

\* dlog_printf up to irq_restore.  The main loop calls it between two polls, or in one to say
\* how many lines were lost.
DlogPrintf(who) ==
  /\ answer.lines < MaxLines /\ NoInterrupt
  /\ who = "main" => MainGoesOn /\ flush.at \in {"no", "say"} /\ dlog.state # "wiping"
  /\ dram' = Put(Line(answer.lines + 1))
  /\ answer' = Answered(Line(answer.lines + 1))
  /\ calls' = [calls EXCEPT ![who] = [at |-> "put", line |-> answer.lines + 1]]
  /\ flush' = IF who = "main" /\ flush.at = "say" THEN [flush EXCEPT !.at = "look"] ELSE flush
  /\ UNCHANGED <<dlog, file>>

\* ring_sync: first the indices, whoever changed them, then the bytes of this call's line.
PushIndices(who) ==
  /\ calls[who].at = "put" /\ (who = "main" => NoInterrupt)
  /\ dram' = [dram EXCEPT !.past = << >>, !.older = {}]
  /\ calls' = [calls EXCEPT ![who].at = "head"]
  /\ UNCHANGED <<dlog, flush, file, answer>>

PushLine(who) ==
  /\ calls[who].at = "head" /\ (who = "main" => NoInterrupt)
  /\ calls' = [calls EXCEPT ![who] = [at |-> "no", line |-> 0]]
  /\ UNCHANGED <<dram, dlog, flush, file, answer>>

-----------------------------------------------------------------------------
(* Opening the file at boot, before USB is up *)

\* locate: the first sector of padding, by bisection.
FirstPad ==
  LET Ends == 1..NSec+1
      find[r \in Ends \X Ends] ==
        LET lo  == r[1]
            hi  == r[2]
            mid == lo + (hi - lo) \div 2
        IN  IF lo >= hi THEN lo
            ELSE IF file[mid] = Pad THEN find[<<lo, mid>>] ELSE find[<<mid + 1, hi>>]
  IN  find[<<1, NSec + 1>>]

Located ==
  LET pad  == FirstPad
      last == IF pad = 1 THEN Pad ELSE file[pad - 1]
      part == last # Pad /\ Len(last) < SecSize
  IN  [sec |-> IF part THEN pad - 1 ELSE pad,
       cur |-> IF part THEN last ELSE Pad,
       cut |-> last # Pad /\ Last(last)[2] # "end"]

\* dlog_core_open, up to the first write.  A file just made is cleared whole, one with less
\* than a quarter left as far as it was used.
Opened(fresh) ==
  LET at   == Located
      used == at.sec - 1 + (IF at.cur # Pad THEN 1 ELSE 0)
  IN  CASE fresh -> [Off EXCEPT !.state = "wiping", !.wipe = NSec]
        [] ~fresh /\ NSec + 1 - at.sec < Quarter ->
             [Off EXCEPT !.state = "wiping", !.wipe = IF used < NSec THEN used ELSE NSec]
        [] OTHER ->
             [Off EXCEPT !.state = "ready", !.sec = at.sec,
                         !.cur = IF at.cut THEN Append(at.cur, CutEnd) ELSE at.cur,
                         !.dirty = at.cut]

\* dlog_prepare without a card, with one that will not mount, or a file that cannot be read.
DlogNoCard ==
  /\ MainGoesOn /\ dlog.state = "off" /\ answer.boots < MaxBoots
  /\ dlog' = [Off EXCEPT !.state = "failed"]
  /\ answer' = [answer EXCEPT !.boots = @ + 1]
  /\ UNCHANGED <<dram, calls, flush, file>>

\* dlog_prepare.  The file is there, whole, unless its space was taken by the host.
DlogPrepare(fresh) ==
  /\ MainGoesOn /\ dlog.state = "off" /\ answer.boots < MaxBoots
  /\ fresh => answer.foreign
  /\ dlog' = Opened(fresh)
  /\ file' = IF fresh THEN [s \in Sectors |-> Foreign] ELSE file
  /\ answer' = [answer EXCEPT !.boots = @ + 1, !.foreign = FALSE,
                              !.for = IF dlog'.state = "wiping" THEN dram.held ELSE @]
  /\ UNCHANGED <<dram, calls, flush>>

\* wipe: in chunks from the first sector on, and a failed write ends it.
WipeSector ==
  /\ MainGoesOn /\ dlog.state = "wiping"
  /\ \E ok \in BOOLEAN :
       IF ok
         THEN /\ file' = [file EXCEPT ![dlog.sec] = Pad]
              /\ dlog' = IF dlog.sec = dlog.wipe
                           THEN [Off EXCEPT !.state = "ready"]
                           ELSE [dlog EXCEPT !.sec = @ + 1]
         ELSE dlog' = [Off EXCEPT !.state = "failed"] /\ UNCHANGED file
  /\ UNCHANGED <<dram, calls, flush, answer>>

DlogActivate ==
  /\ MainGoesOn /\ dlog.state = "ready" /\ ~dlog.abandoned
  /\ dlog' = [dlog EXCEPT !.state = "active"]
  /\ UNCHANGED <<dram, calls, flush, file, answer>>

-----------------------------------------------------------------------------
(* The main loop *)

\* dlog_poll: the count of lost lines is taken, and a line is to say it, room or no room.
DlogPoll ==
  /\ MainGoesOn /\ flush.at = "no" /\ dlog.state = "active"
  /\ dram' = IF dram.lost = 0 THEN dram
             ELSE [dram EXCEPT !.lost = 0, !.older = @ \union {Version}]
  /\ flush' = [Resting EXCEPT !.at = IF dram.lost = 0 THEN "look" ELSE "say"]
  /\ UNCHANGED <<calls, dlog, file, answer>>

\* The rest of it: a sector's worth at once, a part of one when nothing was written for a second.
DlogPollLooks ==
  /\ MainGoesOn /\ flush.at = "look"
  /\ LET pending == Len(dram.held) - dlog.taken
         whole   == pending >= SecSize - Len(dlog.cur)
     IN  \E aSecond \in BOOLEAN :
           flush' = CASE dlog.full -> Resting
                      [] ~dlog.full /\ whole -> [at |-> "fill", force |-> FALSE, left |-> MaxFlush]
                      [] ~dlog.full /\ ~whole /\ aSecond /\ (pending > 0 \/ dlog.dirty)
                           -> [at |-> "fill", force |-> TRUE, left |-> 1]
                      [] OTHER -> Resting
  /\ UNCHANGED <<dram, calls, dlog, file, answer>>

\* One turn of dlog_core_flush up to the write: the last sector is kept for the message that
\* the log is full.
FlushFill ==
  /\ MainGoesOn /\ flush.at = "fill"
  /\ IF dlog.sec >= NSec
       THEN /\ dlog' = [dlog EXCEPT !.cur = FullMsg, !.sec = NSec, !.taken = 0]
            /\ flush' = [flush EXCEPT !.at = "full"]
       ELSE LET avail == Len(dram.held) - dlog.taken
                room  == SecSize - Len(dlog.cur)
                n     == IF avail < room THEN avail ELSE room
                cur   == dlog.cur \o SubSeq(dram.held, dlog.taken + 1, dlog.taken + n)
                dirty == dlog.dirty \/ n > 0
            IN  /\ dlog' = [dlog EXCEPT !.cur = cur, !.taken = @ + n, !.dirty = dirty]
                /\ flush' = CASE Len(cur) = SecSize -> [flush EXCEPT !.at = "sector"]
                              [] Len(cur) < SecSize /\ flush.force /\ dirty
                                   -> [flush EXCEPT !.at = "rest"]
                              [] OTHER -> Resting
  /\ UNCHANGED <<dram, calls, file, answer>>

\* io_wr looks once more, with the host kept out.
MayWrite_AsDecided == TRUE
MayWrite == ~dlog.abandoned

\* put_sector: only a write that succeeded lets the ring forget; its new tail stays in the
\* cache until the indices are pushed with the next line.
Forgotten ==
  [dram EXCEPT !.held = SubSeq(@, dlog.taken + 1, Len(@)),
               !.past = @ \o SubSeq(dram.held, 1, dlog.taken),
               !.older = @ \union {Version}]

AfterPut_Early(ok) == Forgotten
AfterPut(ok) == IF ok THEN Forgotten ELSE dram

PutSector ==
  /\ MainGoesOn /\ flush.at \in {"sector", "rest", "full"}
  /\ \E ok \in BOOLEAN, landed \in BOOLEAN :
       /\ ok => landed /\ MayWrite
       /\ landed => MayWrite
       /\ file' = IF landed THEN [file EXCEPT ![dlog.sec] = dlog.cur] ELSE file
       /\ dram' = AfterPut(ok)
       /\ LET put == IF ok THEN [dlog EXCEPT !.taken = 0, !.dirty = FALSE] ELSE dlog
              more == ok /\ flush.at = "sector"
          IN  /\ dlog' = CASE flush.at = "full" -> [put EXCEPT !.full = TRUE]
                           [] more -> [put EXCEPT !.sec = @ + 1, !.cur = Pad]
                           [] OTHER -> put
              /\ flush' = IF more /\ flush.left > 1
                            THEN [flush EXCEPT !.at = "fill", !.left = @ - 1]
                            ELSE Resting
  /\ UNCHANGED <<calls, answer>>

-----------------------------------------------------------------------------
(* The host, resets and power *)

\* dlog_core_host_wrote, before the sectors first..first+count-1 are written; the file has
\* 1..NSec.  The card is the host's from just before dlog_activate on.
Touches(first, count) == first < 1 + NSec /\ first + count > 1

HostWrites(first, count) ==
  /\ NoInterrupt /\ dlog.state \in {"ready", "active", "failed"}
  /\ file' = [s \in Sectors |-> IF s \in first..(first + count - 1) THEN Foreign ELSE file[s]]
  /\ dlog' = IF Touches(first, count) /\ dlog.state # "failed"
               THEN [dlog EXCEPT !.abandoned = TRUE, !.state = "ready"] ELSE dlog
  /\ answer' = IF file' = file THEN answer ELSE [answer EXCEPT !.for = dram.held, !.foreign = TRUE]
  /\ UNCHANGED <<dram, calls, flush>>

\* The lines whose call has not returned.
Unreturned == {calls[who].line : who \in {w \in Callers : calls[w].at # "no"}}

\* A text without the units of some lines.
Without(text, lines) ==
  FlattenSeq([i \in 1..Len(text) |-> IF text[i][1] \in lines THEN << >> ELSE <<text[i]>>])

\* A watchdog or commanded reset, anywhere, and dlog_boot, which keeps what the indices in DRAM
\* say and pushes them.  The bytes of a line that is being put may not have reached DRAM, and
\* those of a line released may be another's by then.
WarmReset ==
  /\ \E v \in dram.older \union {Version} :
       LET ring        == dram.past \o dram.held
           Doubtful(i) == ring[i][1] \in Unreturned \/ i + RingSize <= Len(ring)
       IN  \E bad \in SUBSET {i \in v.from+1..v.to : Doubtful(i)} :
             dram' = [Empty EXCEPT !.lost = v.lost,
                        !.held = [j \in 1..v.to-v.from |->
                                    IF v.from + j \in bad THEN Stale ELSE ring[v.from + j]]]
  /\ calls' = NoCalls /\ dlog' = Off /\ flush' = Resting
  /\ answer' = [answer EXCEPT !.for = Without(@, Unreturned)]
  /\ UNCHANGED file

PowerCut ==
  /\ dram' = Empty /\ calls' = NoCalls /\ dlog' = Off /\ flush' = Resting
  /\ answer' = [answer EXCEPT !.for = SubSeq(@, 1, Len(@) - Len(dram.held))]
  /\ UNCHANGED file

DlogNext ==
  \/ \E who \in Callers : DlogPrintf(who) \/ PushIndices(who) \/ PushLine(who)
  \/ DlogNoCard
  \/ \E fresh \in BOOLEAN : DlogPrepare(fresh)
  \/ WipeSector
  \/ DlogActivate
  \/ DlogPoll
  \/ DlogPollLooks
  \/ FlushFill
  \/ PutSector
  \/ \E first \in 0..NSec+1, count \in 1..2 : HostWrites(first, count)
  \/ WarmReset
  \/ PowerCut

DlogSpec == DlogInit /\ [][DlogNext]_dlogVars

-----------------------------------------------------------------------------

\* Indices stay in their sectors and in the ring, those of it that DRAM may still have too, and
\* the end of the sector being filled is the units of the ring that are not yet safe to forget.
DlogTypeOK ==
  /\ dram.held \in Seq(Units) /\ Len(dram.held) <= RingSize /\ dram.lost \in Nat
  /\ \A v \in dram.older :
       v.from <= Len(dram.past) /\ Len(dram.past) <= v.to /\ v.to - v.from <= RingSize
  /\ dlog.sec \in 1..NSec /\ Len(dlog.cur) <= SecSize
  /\ dlog.taken <= Len(dram.held) /\ dlog.taken <= Len(dlog.cur)
  /\ SubSeq(dlog.cur, Len(dlog.cur) - dlog.taken + 1, Len(dlog.cur))
       = SubSeq(dram.held, 1, dlog.taken)
  /\ \A s \in Sectors : file[s] \in Seq(Units) /\ Len(file[s]) <= SecSize

\* No line that the ring accepted and whose dlog_printf returned vanishes: until the file is
\* cleared, its space is the host's or power fails with it in RAM, it is in the file or still
\* held, whole and in the order it was put, whatever writes fail and wherever the board resets,
\* between the put of another line and the push of its bytes too.
NothingVanishes ==
  LET log == Log
      found[j \in 0..Len(log)] ==
        IF j = 0 THEN 0
        ELSE LET n == found[j - 1]
             IN  IF n < Len(answer.for) /\ answer.for[n + 1] = log[j] THEN n + 1 ELSE n
  IN  found[Len(log)] = Len(answer.for)

\* A sector the host has written is never written by the log again in this boot, also when the
\* host comes between the decision to write and the write.
HostSpaceUntouched ==
  [][answer.foreign /\ answer'.foreign /\ dlog.state # "off" =>
       \A s \in Sectors : file'[s] \in {file[s], Foreign}]_dlogVars
=============================================================================

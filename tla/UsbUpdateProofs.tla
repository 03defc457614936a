-------------------------- MODULE UsbUpdateProofs ---------------------------
(***************************************************************************)
(* Theorems about the firmware update (UsbUpdate): for every set of        *)
(* images, every slot and every mixture of mishaps, what is burnt is one   *)
(* image from its first block to its last.                                 *)
(***************************************************************************)
EXTENDS UsbUpdate, TLAPS

-----------------------------------------------------------------------------
(* The inductive invariant *)

DfuRecords == [state : DfuStates, status : {"OK", "ERR"},
               received : 0 .. SlotBlocks, expected_block : 0 .. SlotBlocks,
               image_ready : BOOLEAN, stage : [SlotSectors -> Blocks \cup {Junk}]]
BurnerRecords == [pc : BurnStates, at : 0 .. SlotBlocks, size : 0 .. SlotBlocks,
                  retried : BOOLEAN, done : BOOLEAN]
UpdaterRecords == [pc : HostStates, image : Images \cup {Factory},
                   block : 0 .. SlotBlocks, gone : BOOLEAN, disturbed : BOOLEAN,
                   refused : BOOLEAN, told : {"nothing", "error", "written"}]

Looking == {"look", "clear", "look again", "abort", "look last"}
Sending == {"send", "sent", "end"}
Burning == {"erase", "program", "verify"}

(* The first n blocks staged are the first n of image m. *)
Staged(d, m, n) == \A k \in 0 .. n - 1 : d.stage[k] = <<m, k>>

(* The first n sectors of the flash read back as they were staged. *)
Verified(n) == \A k \in 0 .. n - 1 : nor[k] = dfu.stage[k]

(* Where the host believes it is in its image. *)
HostInImage(u) ==
  /\ u.pc # "none" => u.image \in Images
  /\ u.pc \in Looking => u.block = 0
  /\ u.pc \in {"send", "sent"} => u.block < BlocksOf[u.image]
  /\ u.pc = "end" => u.block = BlocksOf[u.image]
  /\ u.refused => u.disturbed

(***************************************************************************)
(* While a host sends, the board is either waiting for the first block, of *)
(* this host or after a reset, or it has staged what the host has sent;    *)
(* and it waits for the first only if that comes, or the bus was reset.    *)
(***************************************************************************)
InStep(d, u) ==
  u.pc \in Sending =>
    /\ d.state \in {"IDLE", "DNLOAD_SYNC", "DNLOAD_IDLE"}
    /\ d.state = "DNLOAD_SYNC" => u.pc = "sent"
    /\ d.state = "DNLOAD_IDLE" => u.pc \in {"send", "end"}
    /\ d.state # "IDLE" =>
         /\ d.received = IF u.pc = "sent" THEN u.block + 1 ELSE u.block
         /\ Staged(d, u.image, d.received)
    /\ d.state = "IDLE" => u.disturbed \/ u.gone \/ (u.pc = "send" /\ u.block = 0)

(* What waits to be burnt is one whole image. *)
Whole(d) == \E m \in Images : d.received = BlocksOf[m] /\ Staged(d, m, BlocksOf[m])
WholeWhenReady(d) ==
  /\ d.state = "MANIFEST_SYNC" \/ d.image_ready => Whole(d)
  /\ d.image_ready => d.state \in {"MANIFEST", "MANIFEST_WAIT"}

(* The burn works on the image that waits, and believes what it reads.     *)
BurnInStep ==
  /\ burner.done => dfu.image_ready
  /\ burner.pc \in Burning \cup {"linger", "rebooting"} =>
       burner.done /\ burner.size = dfu.received
  /\ burner.pc \in Burning => burner.at < burner.size
  /\ burner.pc = "verify" => Verified(burner.at)
  /\ burner.pc \in {"linger", "rebooting"} => Verified(burner.size)

GoneKnown == ~Board => updater.gone

UpdateInv ==
  /\ UpdateTypeOK
  /\ HostInImage(updater)
  /\ InStep(dfu, updater)
  /\ WholeWhenReady(dfu)
  /\ BurnInStep
  /\ GoneKnown

-----------------------------------------------------------------------------
(* The handlers *)

(* A handler leaves an image that waits for its burn as it is. *)
KeepsReady(d, e) ==
  d.image_ready => e.image_ready /\ e.received = d.received /\ e.stage = d.stage

LEMMA FailedIs ==
  ASSUME NEW d \in DfuRecords
  PROVE  /\ Failed(d) \in DfuRecords
         /\ Failed(d).state = "ERROR" /\ Failed(d).image_ready = d.image_ready
         /\ Failed(d).received = d.received
         /\ Failed(d).expected_block = d.expected_block
         /\ Failed(d).stage = d.stage
<1>1. Failed(d) \in DfuRecords
  BY DEF Failed, DfuRecords, DfuStates
<1>2. Failed(d).state = "ERROR" /\ Failed(d).image_ready = d.image_ready
  BY DEF Failed, DfuRecords
<1>3. Failed(d).received = d.received /\ Failed(d).expected_block = d.expected_block
  BY DEF Failed, DfuRecords
<1>4. Failed(d).stage = d.stage
  BY DEF Failed, DfuRecords
<1> QED BY <1>1, <1>2, <1>3, <1>4

LEMMA StatusReadIs ==
  ASSUME NEW d \in DfuRecords
  PROVE  LET e == StatusRead(d)
         IN /\ e \in DfuRecords
            /\ e.received = d.received /\ e.expected_block = d.expected_block
            /\ e.stage = d.stage
            /\ d.state = "DNLOAD_SYNC" => e.state = "DNLOAD_IDLE"
            /\ d.state = "MANIFEST" => e.state = "MANIFEST_WAIT"
            /\ d.state = "MANIFEST_SYNC" => e.state \in {"MANIFEST", "ERROR"}
            /\ d.state \notin {"DNLOAD_SYNC", "MANIFEST", "MANIFEST_SYNC"} => e.state = d.state
            /\ e.image_ready # d.image_ready =>
                 d.state = "MANIFEST_SYNC" /\ e.image_ready /\ e.state = "MANIFEST"
<1>1. CASE d.state = "DNLOAD_SYNC"
  <2> DEFINE e == [d EXCEPT !.state = "DNLOAD_IDLE"]
  <2>1. StatusRead(d) = e
    BY <1>1 DEF StatusRead
  <2>2. /\ e \in DfuRecords
        /\ e.received = d.received /\ e.expected_block = d.expected_block
        /\ e.stage = d.stage /\ e.state = "DNLOAD_IDLE" /\ e.image_ready = d.image_ready
    BY DEF DfuRecords, DfuStates
  <2> HIDE DEF e
  <2> QED BY <1>1, <2>1, <2>2
<1>2. CASE d.state = "MANIFEST_SYNC" /\ image_valid(d)
  <2> DEFINE e == [d EXCEPT !.image_ready = TRUE, !.state = "MANIFEST"]
  <2>1. StatusRead(d) = e
    BY <1>2 DEF StatusRead
  <2>2. e \in DfuRecords
    BY DEF DfuRecords, DfuStates
  <2>3. e.received = d.received /\ e.expected_block = d.expected_block
    BY DEF DfuRecords
  <2>4. e.stage = d.stage /\ e.state = "MANIFEST" /\ e.image_ready = TRUE
    BY DEF DfuRecords
  <2> HIDE DEF e
  <2> QED BY <1>2, <2>1, <2>2, <2>3, <2>4
<1>3. CASE d.state = "MANIFEST_SYNC" /\ ~image_valid(d)
  <2>1. StatusRead(d) = Failed(d)
    BY <1>3 DEF StatusRead
  <2> QED BY <1>3, <2>1, FailedIs
<1>4. CASE d.state = "MANIFEST"
  <2> DEFINE e == [d EXCEPT !.state = "MANIFEST_WAIT"]
  <2>1. StatusRead(d) = e
    BY <1>4 DEF StatusRead
  <2>2. /\ e \in DfuRecords
        /\ e.received = d.received /\ e.expected_block = d.expected_block
        /\ e.stage = d.stage /\ e.state = "MANIFEST_WAIT" /\ e.image_ready = d.image_ready
    BY DEF DfuRecords, DfuStates
  <2> HIDE DEF e
  <2> QED BY <1>4, <2>1, <2>2
<1>5. CASE d.state \notin {"DNLOAD_SYNC", "MANIFEST", "MANIFEST_SYNC"}
  <2>1. StatusRead(d) = d
    BY <1>5 DEF StatusRead
  <2> QED BY <1>5, <2>1
<1> QED BY <1>1, <1>2, <1>3, <1>4, <1>5

LEMMA StatusClearedIs ==
  ASSUME NEW d \in DfuRecords
  PROVE  LET e == StatusCleared(d)
         IN /\ e \in DfuRecords
            /\ e.received = d.received /\ e.expected_block = d.expected_block
            /\ e.stage = d.stage /\ e.image_ready = d.image_ready
            /\ e.state = IF d.state = "ERROR" THEN "IDLE" ELSE d.state
<1>1. CASE d.state = "ERROR"
  <2> DEFINE e == [d EXCEPT !.status = "OK", !.state = "IDLE"]
  <2>1. StatusCleared(d) = e
    BY <1>1 DEF StatusCleared
  <2>2. e \in DfuRecords
    BY DEF DfuRecords, DfuStates
  <2>3. e.received = d.received /\ e.expected_block = d.expected_block
    BY DEF DfuRecords
  <2>4. e.stage = d.stage /\ e.state = "IDLE" /\ e.image_ready = d.image_ready
    BY DEF DfuRecords
  <2> HIDE DEF e
  <2> QED BY <1>1, <2>1, <2>2, <2>3, <2>4
<1>2. CASE d.state # "ERROR"
  BY <1>2 DEF StatusCleared
<1> QED BY <1>1, <1>2

(* What Aborted and a bus reset have in common. *)
LEMMA AbortedIs ==
  ASSUME NEW d \in DfuRecords, d.state \notin {"MANIFEST", "MANIFEST_WAIT"}
  PROVE  /\ Aborted(d) \in DfuRecords
         /\ Aborted(d).received = 0 /\ Aborted(d).expected_block = 0
         /\ Aborted(d).state = "IDLE" /\ Aborted(d).image_ready = d.image_ready
<1> USE UpdateConstants
<1> DEFINE e == [d EXCEPT !.state = "IDLE", !.received = 0, !.expected_block = 0]
<1>1. Aborted(d) = e
  BY DEF Aborted
<1>2. 0 \in 0 .. SlotBlocks
  OBVIOUS
<1>3. e \in DfuRecords
  BY <1>2 DEF DfuRecords, DfuStates
<1>4. e.received = 0 /\ e.expected_block = 0
  BY DEF DfuRecords
<1>5. e.state = "IDLE" /\ e.image_ready = d.image_ready
  BY DEF DfuRecords
<1> HIDE DEF e
<1> QED BY <1>1, <1>3, <1>4, <1>5

LEMMA DownloadStartsIs ==
  ASSUME NEW d \in DfuRecords
  PROVE  LET e == DownloadStarts(d)
         IN /\ e \in DfuRecords
            /\ d.state = "IDLE" => e.received = 0 /\ e.expected_block = 0 /\ ~e.image_ready
            /\ d.state # "IDLE" => e = d
            /\ e.stage = d.stage /\ e.state = d.state
<1> USE UpdateConstants
<1>1. CASE d.state = "IDLE"
  <2> DEFINE e == [d EXCEPT !.received = 0, !.expected_block = 0, !.image_ready = FALSE]
  <2>1. DownloadStarts(d) = e
    BY <1>1 DEF DownloadStarts
  <2>2. 0 \in 0 .. SlotBlocks
    OBVIOUS
  <2>3. e \in DfuRecords
    BY <2>2 DEF DfuRecords
  <2>4. e.received = 0 /\ e.expected_block = 0 /\ ~e.image_ready
    BY DEF DfuRecords
  <2>5. e.stage = d.stage /\ e.state = d.state
    BY DEF DfuRecords
  <2> HIDE DEF e
  <2> QED BY <1>1, <2>1, <2>3, <2>4, <2>5
<1>2. CASE d.state # "IDLE"
  BY <1>2 DEF DownloadStarts
<1> QED BY <1>1, <1>2

(* An accepted block becomes the next one of the stage. *)
LEMMA AcceptedIs ==
  ASSUME NEW d \in DfuRecords, NEW m \in Images, NEW v \in Nat, Accepts(d, v),
         d.received = d.expected_block
  PROVE  LET s == DownloadStarts(d)
             e == Downloaded(d, m, v)
         IN /\ e \in DfuRecords
            /\ s.received = v /\ v \in SlotSectors
            /\ e.received = v + 1 /\ e.expected_block = v + 1
            /\ e.state = "DNLOAD_SYNC" /\ e.image_ready = s.image_ready
            /\ e.stage = [d.stage EXCEPT ![v] = <<m, v>>]
<1> USE UpdateConstants
<1> DEFINE s == DownloadStarts(d)
           e == [s EXCEPT !.stage[s.received] = <<m, v>>, !.received = @ + 1,
                          !.expected_block = @ + 1, !.state = "DNLOAD_SYNC"]
<1>1. Downloaded(d, m, v) = e
  BY DEF Downloaded
<1>2. /\ s \in DfuRecords /\ s.received = s.expected_block /\ s.stage = d.stage
  BY DownloadStartsIs
<1>3. s.received = v /\ v < SlotBlocks /\ s.expected_block = v
  BY <1>2 DEF Accepts
<1>4. v \in SlotSectors /\ v + 1 \in 0 .. SlotBlocks
  BY <1>3 DEF SlotSectors
<1>5. <<m, v>> \in Blocks
  BY <1>4 DEF Blocks
<1> HIDE DEF s
<1>6. e \in DfuRecords
  BY <1>2, <1>3, <1>4, <1>5 DEF DfuRecords, DfuStates
<1>7. e.received = v + 1 /\ e.expected_block = v + 1
  BY <1>2, <1>3 DEF DfuRecords
<1>8. e.state = "DNLOAD_SYNC" /\ e.image_ready = s.image_ready
  BY <1>2 DEF DfuRecords
<1>9. e.stage = [d.stage EXCEPT ![v] = <<m, v>>]
  BY <1>2, <1>3 DEF DfuRecords
<1> HIDE DEF e
<1> QED BY <1>1, <1>3, <1>4, <1>6, <1>7, <1>8, <1>9 DEF s

-----------------------------------------------------------------------------
(* What is staged stays whole *)

LEMMA SameImageWhole ==
  ASSUME NEW d, NEW e, e.received = d.received, e.stage = d.stage, Whole(d)
  PROVE  Whole(e)
BY DEF Whole, Staged

LEMMA ReadKeepsWhole ==
  ASSUME NEW d \in DfuRecords, WholeWhenReady(d)
  PROVE  WholeWhenReady(StatusRead(d)) /\ KeepsReady(d, StatusRead(d))
<1> DEFINE e == StatusRead(d)
<1>1. e.state = "MANIFEST_SYNC" \/ e.image_ready => d.state = "MANIFEST_SYNC" \/ d.image_ready
  BY StatusReadIs DEF DfuRecords, DfuStates
<1>2. e.image_ready => e.state \in {"MANIFEST", "MANIFEST_WAIT"}
  <2>1. CASE d.image_ready
    BY <2>1, StatusReadIs DEF WholeWhenReady
  <2>2. CASE e.image_ready /\ ~d.image_ready
    BY <2>2, StatusReadIs
  <2> QED BY <2>1, <2>2
<1>3. e.received = d.received /\ e.stage = d.stage
  BY StatusReadIs
<1>4. d.image_ready => e.image_ready
  BY StatusReadIs
<1> HIDE DEF e
<1>5. WholeWhenReady(e)
  BY <1>1, <1>2, <1>3, SameImageWhole DEF WholeWhenReady
<1>6. KeepsReady(d, e)
  BY <1>3, <1>4 DEF KeepsReady
<1> QED BY <1>5, <1>6 DEF e

(* A machine at rest has no image ready, so nothing can be spoilt. *)
LEMMA RestIsWhole ==
  ASSUME NEW d, NEW e, WholeWhenReady(d),
         e.image_ready => d.image_ready,
         d.state \notin {"MANIFEST", "MANIFEST_WAIT"}, e.state # "MANIFEST_SYNC"
  PROVE  WholeWhenReady(e) /\ KeepsReady(d, e)
BY DEF WholeWhenReady, KeepsReady

-----------------------------------------------------------------------------
(* The host's steps *)

LEMMA TellsIs ==
  ASSUME UpdateInv, NEW o \in {"nothing", "error", "written"}, NEW d
  PROVE  /\ Tells(o) \in UpdaterRecords /\ Tells(o).gone = updater.gone
         /\ HostInImage(Tells(o)) /\ InStep(d, Tells(o))
<1>1. updater \in UpdaterRecords
  BY DEF UpdateInv, UpdateTypeOK, UpdaterRecords
<1>2. Tells(o) \in UpdaterRecords
  BY <1>1 DEF Tells, UpdaterRecords, HostStates
<1>3. Tells(o).pc = "none" /\ Tells(o).gone = updater.gone
  BY <1>1 DEF Tells, UpdaterRecords
<1>4. Tells(o).refused = updater.refused /\ Tells(o).disturbed = updater.disturbed
  BY <1>1 DEF Tells, UpdaterRecords
<1>5. HostInImage(Tells(o))
  BY <1>3, <1>4 DEF HostInImage, UpdateInv, Looking
<1>6. InStep(d, Tells(o))
  BY <1>3 DEF InStep, Sending
<1> QED BY <1>2, <1>3, <1>5, <1>6

MovesTo(p) == [updater EXCEPT !.pc = p]

LEMMA MovesToIs ==
  ASSUME UpdateInv, NEW p \in HostStates
  PROVE  LET u == MovesTo(p)
         IN /\ u \in UpdaterRecords /\ u.pc = p
            /\ u.image = updater.image /\ u.block = updater.block
            /\ u.gone = updater.gone /\ u.disturbed = updater.disturbed
            /\ u.refused = updater.refused
<1>1. updater \in UpdaterRecords
  BY DEF UpdateInv, UpdateTypeOK, UpdaterRecords
<1>2. MovesTo(p) \in UpdaterRecords /\ MovesTo(p).pc = p
  BY <1>1 DEF MovesTo, UpdaterRecords
<1>3. MovesTo(p).image = updater.image /\ MovesTo(p).block = updater.block
  BY <1>1 DEF MovesTo, UpdaterRecords
<1>4. MovesTo(p).gone = updater.gone /\ MovesTo(p).disturbed = updater.disturbed
  BY <1>1 DEF MovesTo, UpdaterRecords
<1>5. MovesTo(p).refused = updater.refused
  BY <1>1 DEF MovesTo, UpdaterRecords
<1> QED BY <1>2, <1>3, <1>4, <1>5

(* The burn does not notice a step that keeps the image that waits. *)
LEMMA BurnUndisturbed ==
  ASSUME UpdateInv, KeepsReady(dfu, dfu'), burner' = burner, nor' = nor
  PROVE  BurnInStep'
<1>1. burner.done => dfu'.image_ready /\ dfu'.received = dfu.received /\ dfu'.stage = dfu.stage
  BY DEF UpdateInv, BurnInStep, KeepsReady
<1>2. burner.pc \in Burning \cup {"linger", "rebooting"} => burner.done
  BY DEF UpdateInv, BurnInStep
<1>3. \A n : burner.done => (Verified(n)' <=> Verified(n))
  BY <1>1 DEF Verified
<1> QED BY <1>1, <1>2, <1>3 DEF UpdateInv, BurnInStep, Burning

LEMMA HostStepKeeps ==
  ASSUME UpdateInv,
         dfu' \in DfuRecords, dfu'.received = dfu'.expected_block,
         updater' \in UpdaterRecords, updater'.gone = updater.gone,
         HostInImage(updater'), InStep(dfu', updater'),
         WholeWhenReady(dfu'), KeepsReady(dfu, dfu'),
         burner' = burner, nor' = nor
  PROVE  UpdateInv'
<1>1. UpdateTypeOK'
  BY DEF UpdateInv, UpdateTypeOK, DfuRecords, UpdaterRecords
<1>2. BurnInStep'
  BY BurnUndisturbed
<1>3. GoneKnown'
  BY DEF UpdateInv, GoneKnown, Board
<1>4. HostInImage(updater)' /\ InStep(dfu, updater)' /\ WholeWhenReady(dfu)'
  BY DEF HostInImage, InStep, WholeWhenReady, Whole, Staged
<1> QED BY <1>1, <1>2, <1>3, <1>4 DEF UpdateInv

LEMMA KnownTypes ==
  ASSUME UpdateInv
  PROVE  /\ dfu \in DfuRecords /\ dfu.received = dfu.expected_block
         /\ updater \in UpdaterRecords /\ burner \in BurnerRecords
         /\ nor \in [SlotSectors -> Blocks \cup {Blank, Junk}]
BY DEF UpdateInv, UpdateTypeOK, DfuRecords, UpdaterRecords, BurnerRecords

(* The updater outside a transfer: nothing is known, nothing is needed. *)
LEMMA IdleHostFits ==
  ASSUME UpdateInv, NEW p \in HostStates \ (Sending \cup Looking), NEW d, updater.pc # "none"
  PROVE  HostInImage(MovesTo(p)) /\ InStep(d, MovesTo(p))
<1>1. MovesTo(p).pc = p /\ p \notin Sending /\ p \notin Looking
  BY MovesToIs
<1>2. HostInImage(MovesTo(p))
  BY <1>1, MovesToIs DEF HostInImage, UpdateInv, Sending, Looking
<1>3. InStep(d, MovesTo(p))
  BY <1>1 DEF InStep
<1> QED BY <1>2, <1>3

LEMMA LookingHostFits ==
  ASSUME UpdateInv, updater.pc \in Looking, NEW p \in Looking, NEW d
  PROVE  HostInImage(MovesTo(p)) /\ InStep(d, MovesTo(p))
<1>0. p \in HostStates /\ p \notin Sending /\ p # "none" /\ updater.pc # "none"
  BY DEF Looking, HostStates, Sending
<1>1. MovesTo(p).pc = p /\ MovesTo(p).block = 0 /\ MovesTo(p).image = updater.image
  BY <1>0, MovesToIs DEF UpdateInv, HostInImage
<1>2. HostInImage(MovesTo(p))
  BY <1>0, <1>1, MovesToIs DEF HostInImage, UpdateInv, Sending
<1>3. InStep(d, MovesTo(p))
  BY <1>0, <1>1 DEF InStep
<1> QED BY <1>2, <1>3

LEMMA HostLooksKeeps == ASSUME UpdateInv, HostLooks PROVE UpdateInv'
<1> USE UpdateConstants
<1>1. /\ dfu \in DfuRecords /\ updater \in UpdaterRecords
      /\ dfu.received = dfu.expected_block
  BY KnownTypes
<1>2. /\ dfu' = StatusRead(dfu) /\ updater' = AfterLook(updater.pc, dfu')
      /\ updater.pc \in {"look", "look again", "look last"}
      /\ burner' = burner /\ nor' = nor
  BY DEF HostLooks
<1>3. /\ dfu' \in DfuRecords /\ dfu'.received = dfu'.expected_block
      /\ WholeWhenReady(dfu') /\ KeepsReady(dfu, dfu')
  BY <1>1, <1>2, StatusReadIs, ReadKeepsWhole DEF UpdateInv
<1>4. \/ updater' \in {MovesTo("clear"), MovesTo("abort"), Tells("error")}
      \/ updater' = MovesTo("send") /\ dfu'.state = "IDLE"
  BY <1>2 DEF AfterLook, MovesTo
<1>5. updater.pc \in Looking
  BY <1>2 DEF Looking
<1>6. CASE updater' = Tells("error")
  BY <1>2, <1>3, <1>6, TellsIs, HostStepKeeps
<1>7. ASSUME NEW p \in {"clear", "abort"}, updater' = MovesTo(p) PROVE UpdateInv'
  <2>1. p \in Looking /\ p \in HostStates
    BY DEF Looking, HostStates
  <2>2. HostInImage(updater') /\ InStep(dfu', updater')
    BY <1>5, <1>7, <2>1, LookingHostFits
  <2>3. updater' \in UpdaterRecords /\ updater'.gone = updater.gone
    BY <1>7, <2>1, MovesToIs
  <2> QED BY <1>2, <1>3, <2>2, <2>3, HostStepKeeps
<1>8. CASE updater' = MovesTo("send") /\ dfu'.state = "IDLE"
  <2>1. "send" \in HostStates
    BY DEF HostStates
  <2>2. /\ updater'.pc = "send" /\ updater'.block = 0
        /\ updater'.image = updater.image /\ updater.image \in Images
        /\ updater'.refused = updater.refused /\ updater'.disturbed = updater.disturbed
    BY <1>5, <1>8, <2>1, MovesToIs DEF UpdateInv, HostInImage, Looking
  <2>3. HostInImage(updater')
    <3>1. BlocksOf[updater.image] \in 1 .. SlotBlocks
      BY <2>2
    <3>2. 0 < BlocksOf[updater.image]
      BY <3>1
    <3> QED BY <2>2, <3>2 DEF HostInImage, UpdateInv, Looking
  <2>4. InStep(dfu', updater')
    BY <1>8, <2>2 DEF InStep
  <2>5. updater' \in UpdaterRecords /\ updater'.gone = updater.gone
    BY <1>8, <2>1, MovesToIs
  <2> QED BY <1>2, <1>3, <2>3, <2>4, <2>5, HostStepKeeps
<1> QED BY <1>4, <1>6, <1>7, <1>8

LEMMA HostClearsKeeps == ASSUME UpdateInv, HostClears PROVE UpdateInv'
<1>1. dfu \in DfuRecords /\ dfu.received = dfu.expected_block
  BY KnownTypes
<1>2. /\ dfu' = StatusCleared(dfu) /\ updater' = MovesTo("look again")
      /\ updater.pc = "clear" /\ burner' = burner /\ nor' = nor
  BY DEF HostClears, MovesTo
<1>3. dfu' \in DfuRecords /\ dfu'.received = dfu'.expected_block
  BY <1>1, <1>2, StatusClearedIs
<1>4. WholeWhenReady(dfu') /\ KeepsReady(dfu, dfu')
  <2>1. CASE dfu.state = "ERROR"
    BY <1>1, <1>2, <2>1, StatusClearedIs, RestIsWhole DEF UpdateInv
  <2>2. CASE dfu.state # "ERROR"
    BY <1>2, <2>2 DEF StatusCleared, UpdateInv, KeepsReady
  <2> QED BY <2>1, <2>2
<1>5. "look again" \in Looking /\ updater.pc \in Looking /\ "look again" \in HostStates
  BY <1>2 DEF Looking, HostStates
<1>6. /\ updater' \in UpdaterRecords /\ updater'.gone = updater.gone
      /\ HostInImage(updater') /\ InStep(dfu', updater')
  BY <1>2, <1>5, MovesToIs, LookingHostFits
<1> QED BY <1>2, <1>3, <1>4, <1>6, HostStepKeeps

LEMMA HostAbortsKeeps == ASSUME UpdateInv, HostAborts PROVE UpdateInv'
<1>1. dfu \in DfuRecords /\ dfu.received = dfu.expected_block
  BY KnownTypes
<1>2. /\ dfu' = Aborted(dfu) /\ updater' = MovesTo("look last")
      /\ updater.pc = "abort" /\ burner' = burner /\ nor' = nor
  BY DEF HostAborts, MovesTo
<1>3. /\ dfu' \in DfuRecords /\ dfu'.received = dfu'.expected_block
      /\ WholeWhenReady(dfu') /\ KeepsReady(dfu, dfu')
  <2>1. CASE dfu.state \in {"MANIFEST", "MANIFEST_WAIT"}
    BY <1>1, <1>2, <2>1 DEF Aborted, UpdateInv, KeepsReady
  <2>2. CASE dfu.state \notin {"MANIFEST", "MANIFEST_WAIT"}
    BY <1>1, <1>2, <2>2, AbortedIs, RestIsWhole DEF UpdateInv
  <2> QED BY <2>1, <2>2
<1>5. "look last" \in Looking /\ updater.pc \in Looking /\ "look last" \in HostStates
  BY <1>2 DEF Looking, HostStates
<1>6. /\ updater' \in UpdaterRecords /\ updater'.gone = updater.gone
      /\ HostInImage(updater') /\ InStep(dfu', updater')
  BY <1>2, <1>5, MovesToIs, LookingHostFits
<1> QED BY <1>2, <1>3, <1>6, HostStepKeeps

LEMMA HostSendsKeeps == ASSUME UpdateInv, HostSends PROVE UpdateInv'
<1> USE UpdateConstants
<1> DEFINE m == updater.image
           v == updater.block
<1>1. /\ dfu \in DfuRecords /\ updater \in UpdaterRecords
      /\ dfu.received = dfu.expected_block
  BY KnownTypes
<1>2. /\ dfu' = Downloaded(dfu, m, v) /\ updater.pc = "send" /\ ~updater.gone
      /\ burner' = burner /\ nor' = nor
  BY DEF HostSends, Reaches
<1>3. m \in Images /\ v \in Nat /\ v < BlocksOf[m] /\ BlocksOf[m] \in 1 .. SlotBlocks
  BY <1>1, <1>2 DEF UpdateInv, HostInImage, UpdaterRecords
<1>4. /\ dfu.state \in {"IDLE", "DNLOAD_IDLE"}
      /\ dfu.state = "DNLOAD_IDLE" => dfu.received = v /\ Staged(dfu, m, v)
      /\ dfu.state = "IDLE" => updater.disturbed \/ v = 0
  BY <1>2 DEF UpdateInv, InStep, Sending
<1> DEFINE s == DownloadStarts(dfu)
<1>5. /\ s \in DfuRecords /\ s.received = s.expected_block /\ ~s.image_ready
      /\ s.state = dfu.state /\ s.stage = dfu.stage
      /\ dfu.state = "IDLE" => s.received = 0
      /\ dfu.state = "DNLOAD_IDLE" => s.received = v
  BY <1>1, <1>4, DownloadStartsIs DEF UpdateInv, WholeWhenReady
<1>6. ~dfu.image_ready
  BY <1>4 DEF UpdateInv, WholeWhenReady
<1>7. CASE Accepts(dfu, v)
  <2>1. /\ dfu' \in DfuRecords /\ s.received = v /\ v \in SlotSectors
        /\ dfu'.received = v + 1 /\ dfu'.expected_block = v + 1
        /\ dfu'.state = "DNLOAD_SYNC" /\ dfu'.image_ready = s.image_ready
        /\ dfu'.stage = [dfu.stage EXCEPT ![v] = <<m, v>>]
    <3> HIDE DEF m, v
    <3> QED BY <1>1, <1>2, <1>3, <1>7, AcceptedIs
  <2>2. updater' = MovesTo("sent") /\ "sent" \in HostStates
    BY <1>7 DEF HostSends, MovesTo, HostStates
  <2>3. /\ updater' \in UpdaterRecords /\ updater'.pc = "sent"
        /\ updater'.image = m /\ updater'.block = v
        /\ updater'.gone = updater.gone /\ updater'.disturbed = updater.disturbed
        /\ updater'.refused = updater.refused
    BY <2>2, MovesToIs
  <2>4. HostInImage(updater')
    BY <1>2, <1>3, <2>3 DEF HostInImage, UpdateInv, Looking
  <2>5. Staged(dfu', m, v + 1)
    <3> SUFFICES ASSUME NEW k \in 0 .. v PROVE dfu'.stage[k] = <<m, k>>
      BY <1>3 DEF Staged
    <3>1. dfu.stage \in [SlotSectors -> Blocks \cup {Junk}]
      BY <1>1 DEF DfuRecords
    <3>2. k \in SlotSectors
      BY <2>1, <1>3 DEF SlotSectors
    <3>3. CASE k = v
      BY <2>1, <3>1, <3>2, <3>3
    <3>4. CASE k # v
      <4>1. dfu.state = "DNLOAD_IDLE"
        BY <1>3, <1>4, <1>5, <2>1, <3>4
      <4>2. k \in 0 .. v - 1
        BY <1>3, <3>4
      <4>3. dfu.stage[k] = <<m, k>>
        BY <1>4, <4>1, <4>2 DEF Staged
      <4> QED BY <2>1, <3>1, <3>2, <3>4, <4>3
    <3> QED BY <3>3, <3>4
  <2>6. InStep(dfu', updater')
    BY <2>1, <2>3, <2>5 DEF InStep
  <2>7. WholeWhenReady(dfu') /\ KeepsReady(dfu, dfu')
    BY <1>5, <1>6, <2>1 DEF WholeWhenReady, KeepsReady
  <2>8. dfu'.received = dfu'.expected_block
    BY <2>1
  <2> QED BY <1>2, <2>1, <2>3, <2>4, <2>6, <2>7, <2>8, HostStepKeeps
<1>8. CASE ~Accepts(dfu, v)
  <2>1. dfu' = Failed(s)
    BY <1>2, <1>4, <1>8 DEF Downloaded
  <2>2. /\ dfu' \in DfuRecords /\ dfu'.received = dfu'.expected_block
        /\ dfu'.state = "ERROR" /\ ~dfu'.image_ready
    BY <1>5, <2>1, FailedIs
  <2>3. WholeWhenReady(dfu') /\ KeepsReady(dfu, dfu')
    BY <1>6, <2>2 DEF WholeWhenReady, KeepsReady
  <2> DEFINE t == Tells("error")
  <2>4. updater' = [t EXCEPT !.refused = TRUE]
    BY <1>8 DEF HostSends
  <2>5. t \in UpdaterRecords /\ t.gone = updater.gone
    BY TellsIs
  <2>6. t.pc = "none" /\ t.disturbed = updater.disturbed
    BY <1>1 DEF Tells, UpdaterRecords
  <2>7. updater.disturbed
    <3>1. dfu.state = "IDLE" /\ v # 0
      BY <1>3, <1>4, <1>5, <1>8 DEF Accepts
    <3> QED BY <1>4, <3>1
  <2> HIDE DEF t
  <2>8. /\ updater' \in UpdaterRecords /\ updater'.gone = updater.gone
        /\ updater'.pc = "none" /\ updater'.disturbed
    BY <2>4, <2>5, <2>6, <2>7 DEF UpdaterRecords
  <2>9. HostInImage(updater') /\ InStep(dfu', updater')
    BY <2>8 DEF HostInImage, InStep, Looking, Sending
  <2> QED BY <1>2, <2>2, <2>3, <2>8, <2>9, HostStepKeeps
<1> QED BY <1>7, <1>8

LEMMA HostAcknowledgesKeeps == ASSUME UpdateInv, HostAcknowledges PROVE UpdateInv'
<1> USE UpdateConstants
<1> DEFINE m == updater.image
           v == updater.block
<1>1. /\ dfu \in DfuRecords /\ updater \in UpdaterRecords
      /\ dfu.received = dfu.expected_block
  BY KnownTypes
<1>2. /\ dfu' = StatusRead(dfu) /\ updater.pc = "sent" /\ ~updater.gone
      /\ burner' = burner /\ nor' = nor
  BY DEF HostAcknowledges, Reaches
<1>3. m \in Images /\ v \in Nat /\ v < BlocksOf[m] /\ BlocksOf[m] \in 1 .. SlotBlocks
  BY <1>1, <1>2 DEF UpdateInv, HostInImage, UpdaterRecords
<1>4. /\ dfu.state \in {"IDLE", "DNLOAD_SYNC"}
      /\ dfu.state = "DNLOAD_SYNC" => dfu.received = v + 1 /\ Staged(dfu, m, v + 1)
      /\ dfu.state = "IDLE" => updater.disturbed
  BY <1>2 DEF UpdateInv, InStep, Sending
<1>5. /\ dfu' \in DfuRecords /\ dfu'.received = dfu'.expected_block
      /\ WholeWhenReady(dfu') /\ KeepsReady(dfu, dfu')
  BY <1>1, <1>2, StatusReadIs, ReadKeepsWhole DEF UpdateInv
<1>6. /\ dfu'.state \in {"IDLE", "DNLOAD_IDLE"}
      /\ dfu'.state = "DNLOAD_IDLE" => dfu'.received = v + 1 /\ Staged(dfu', m, v + 1)
      /\ dfu'.state = "IDLE" => updater.disturbed
  BY <1>1, <1>2, <1>4, StatusReadIs DEF Staged
<1>7. CASE updater' = Tells("error")
  BY <1>2, <1>5, <1>7, TellsIs, HostStepKeeps
<1>8. CASE updater' # Tells("error")
  <2>1. updater' = [updater EXCEPT !.block = @ + 1,
                                   !.pc = IF v + 1 < BlocksOf[m] THEN "send" ELSE "end"]
    BY <1>8 DEF HostAcknowledges
  <2>2. v + 1 \in 0 .. SlotBlocks
    BY <1>3
  <2>3. updater' \in UpdaterRecords
    BY <1>1, <2>1, <2>2 DEF UpdaterRecords, HostStates
  <2>4. updater'.block = v + 1
    BY <1>1, <2>1 DEF UpdaterRecords
  <2>5. updater'.pc = IF v + 1 < BlocksOf[m] THEN "send" ELSE "end"
    BY <1>1, <2>1 DEF UpdaterRecords
  <2>6. updater'.image = m /\ updater'.gone = updater.gone
    BY <1>1, <2>1 DEF UpdaterRecords
  <2>7. updater'.refused = updater.refused /\ updater'.disturbed = updater.disturbed
    BY <1>1, <2>1 DEF UpdaterRecords
  <2>8. HostInImage(updater')
    <3>1. BlocksOf[m] \in Nat /\ ~(v + 1 < BlocksOf[m]) => v + 1 = BlocksOf[m]
      BY <1>3
    <3>2. updater.refused => updater.disturbed
      BY DEF UpdateInv, HostInImage
    <3>3. CASE v + 1 < BlocksOf[m]
      <4>1. updater'.pc = "send"
        BY <2>5, <3>3
      <4> QED BY <1>3, <2>4, <2>6, <2>7, <3>2, <3>3, <4>1 DEF HostInImage, Looking
    <3>4. CASE ~(v + 1 < BlocksOf[m])
      <4>1. updater'.pc = "end"
        BY <2>5, <3>4
      <4> QED BY <1>3, <2>4, <2>6, <2>7, <3>1, <3>2, <3>4, <4>1 DEF HostInImage, Looking
    <3> QED BY <3>3, <3>4
  <2>9. InStep(dfu', updater')
    BY <1>6, <2>4, <2>5, <2>6, <2>7 DEF InStep
  <2> QED BY <1>2, <1>5, <2>3, <2>6, <2>8, <2>9, HostStepKeeps
<1> QED BY <1>7, <1>8

LEMMA HostEndsKeeps == ASSUME UpdateInv, HostEnds PROVE UpdateInv'
<1> DEFINE m == updater.image
<1>1. /\ dfu \in DfuRecords /\ dfu.received = dfu.expected_block
  BY KnownTypes
<1>2. /\ dfu' = DownloadEnded(dfu) /\ updater.pc = "end" /\ updater' = MovesTo("poll")
      /\ burner' = burner /\ nor' = nor
  BY DEF HostEnds, MovesTo
<1>3. m \in Images /\ updater.block = BlocksOf[m]
  BY <1>2 DEF UpdateInv, HostInImage
<1>4. /\ dfu.state \in {"IDLE", "DNLOAD_IDLE"}
      /\ dfu.state = "DNLOAD_IDLE" => dfu.received = BlocksOf[m] /\ Staged(dfu, m, BlocksOf[m])
  BY <1>2, <1>3 DEF UpdateInv, InStep, Sending
<1>5. ~dfu.image_ready
  BY <1>4 DEF UpdateInv, WholeWhenReady
<1>6. /\ dfu' \in DfuRecords /\ dfu'.received = dfu'.expected_block
      /\ WholeWhenReady(dfu') /\ KeepsReady(dfu, dfu')
  <2>1. CASE dfu.state = "DNLOAD_IDLE"
    <3> DEFINE e == [dfu EXCEPT !.state = "MANIFEST_SYNC"]
    <3>1. dfu' = e
      BY <1>2, <2>1 DEF DownloadEnded
    <3>2. /\ e \in DfuRecords /\ e.received = dfu.received
          /\ e.expected_block = dfu.expected_block
          /\ e.stage = dfu.stage /\ e.image_ready = dfu.image_ready
      BY <1>1 DEF DfuRecords, DfuStates
    <3>3. Whole(dfu)
      BY <1>3, <1>4, <2>1 DEF Whole
    <3> HIDE DEF e
    <3>4. Whole(e)
      BY <3>2, <3>3, SameImageWhole
    <3> QED BY <1>1, <1>5, <3>1, <3>2, <3>4 DEF WholeWhenReady, KeepsReady
  <2>2. CASE dfu.state # "DNLOAD_IDLE"
    <3>1. dfu' = Failed(dfu)
      BY <1>2, <2>2 DEF DownloadEnded
    <3>2. /\ dfu' \in DfuRecords /\ dfu'.received = dfu'.expected_block
          /\ dfu'.state = "ERROR" /\ ~dfu'.image_ready
      BY <1>1, <1>5, <3>1, FailedIs
    <3> QED BY <1>5, <3>2 DEF WholeWhenReady, KeepsReady
  <2> QED BY <2>1, <2>2
<1>7. "poll" \in HostStates \ (Sending \cup Looking) /\ updater.pc # "none"
  BY <1>2 DEF HostStates, Sending, Looking
<1>8. /\ updater' \in UpdaterRecords /\ updater'.gone = updater.gone
      /\ HostInImage(updater') /\ InStep(dfu', updater')
  BY <1>2, <1>7, MovesToIs, IdleHostFits
<1> QED BY <1>2, <1>6, <1>8, HostStepKeeps

LEMMA HostPollsKeeps == ASSUME UpdateInv, HostPolls PROVE UpdateInv'
<1>1. /\ dfu \in DfuRecords /\ updater \in UpdaterRecords
      /\ dfu.received = dfu.expected_block
  BY KnownTypes
<1>2. dfu' = StatusRead(dfu) /\ updater.pc = "poll" /\ burner' = burner /\ nor' = nor
  BY DEF HostPolls
<1>3. /\ dfu' \in DfuRecords /\ dfu'.received = dfu'.expected_block
      /\ WholeWhenReady(dfu') /\ KeepsReady(dfu, dfu')
  BY <1>1, <1>2, StatusReadIs, ReadKeepsWhole DEF UpdateInv
<1>4. updater' \in {Tells("error"), Tells("written"), updater}
  BY DEF HostPolls
<1>5. CASE updater' = updater
  <2>1. InStep(dfu', updater')
    BY <1>2, <1>5 DEF InStep, Sending
  <2>2. HostInImage(updater')
    BY <1>5 DEF UpdateInv
  <2> QED BY <1>1, <1>2, <1>3, <1>5, <2>1, <2>2, HostStepKeeps
<1>6. ASSUME NEW o \in {"error", "written"}, updater' = Tells(o) PROVE UpdateInv'
  BY <1>2, <1>3, <1>6, TellsIs, HostStepKeeps
<1> QED BY <1>4, <1>5, <1>6

(* The host gives up: the board is left as it is. *)
LEMMA HostLeavesKeeps ==
  ASSUME UpdateInv, NEW o \in {"nothing", "error", "written"}, updater' = Tells(o),
         UNCHANGED <<dfu, burner, nor>>
  PROVE  UpdateInv'
<1>1. /\ dfu' \in DfuRecords /\ dfu'.received = dfu'.expected_block
      /\ WholeWhenReady(dfu') /\ KeepsReady(dfu, dfu')
  BY KnownTypes DEF UpdateInv, KeepsReady
<1> QED BY <1>1, TellsIs, HostStepKeeps

LEMMA HostStartsKeeps == ASSUME UpdateInv, NEW m \in Images, HostStarts(m) PROVE UpdateInv'
<1> USE UpdateConstants
<1>1. /\ updater' \in UpdaterRecords /\ updater'.pc = "look" /\ updater'.block = 0
      /\ updater'.image = m /\ ~updater'.refused /\ ~updater'.gone
  BY DEF HostStarts, UpdaterRecords, HostStates
<1>2. Board /\ burner' = burner /\ nor' = nor /\ dfu' = dfu
  BY DEF HostStarts
<1>3. HostInImage(updater)' /\ InStep(dfu, updater)'
  BY <1>1 DEF HostInImage, InStep, Sending
<1>4. UpdateTypeOK'
  BY <1>1, <1>2 DEF UpdateInv, UpdateTypeOK, UpdaterRecords
<1>5. BurnInStep'
  BY <1>2, BurnUndisturbed DEF KeepsReady
<1>6. WholeWhenReady(dfu)'
  BY <1>2 DEF UpdateInv
<1>7. GoneKnown'
  BY <1>2 DEF GoneKnown, Board
<1> QED BY <1>3, <1>4, <1>5, <1>6, <1>7 DEF UpdateInv

-----------------------------------------------------------------------------
(* The burn's steps *)

(* The host's view of a board that works on its own. *)
LEMMA BoardStepKeeps ==
  ASSUME UpdateInv, dfu' = dfu, burner' \in BurnerRecords,
         nor' \in [SlotSectors -> Blocks \cup {Blank, Junk}],
         updater' \in UpdaterRecords, updater'.pc = updater.pc,
         updater'.image = updater.image, updater'.block = updater.block,
         updater'.disturbed = updater.disturbed, updater'.refused = updater.refused,
         updater.gone => updater'.gone,
         burner'.pc \in {"rebooting", "off", "dead"} => updater'.gone,
         BurnInStep'
  PROVE  UpdateInv'
<1>1. UpdateTypeOK'
  BY DEF UpdateInv, UpdateTypeOK, BurnerRecords, UpdaterRecords
<1>2. HostInImage(updater)'
  BY DEF UpdateInv, HostInImage
<1>3. InStep(dfu, updater)'
  BY DEF UpdateInv, InStep, Staged
<1>4. WholeWhenReady(dfu)'
  BY DEF UpdateInv
<1>5. GoneKnown'
  BY DEF GoneKnown, Board
<1> QED BY <1>1, <1>2, <1>3, <1>4, <1>5 DEF UpdateInv

(* An image that waits fits the slot and has a first block. *)
LEMMA WholeFits ==
  ASSUME UpdateInv, dfu.image_ready
  PROVE  dfu.received \in 1 .. SlotBlocks
<1> USE UpdateConstants
<1>1. PICK m \in Images : dfu.received = BlocksOf[m]
  BY DEF UpdateInv, WholeWhenReady, Whole
<1>2. BlocksOf[m] \in 1 .. SlotBlocks
  OBVIOUS
<1> QED BY <1>1, <1>2

LEMMA BurnStartsKeeps == ASSUME UpdateInv, BurnStarts PROVE UpdateInv'
<1> USE UpdateConstants
<1>1. /\ burner'.pc = "erase" /\ burner'.at = 0 /\ burner'.size = dfu.received
      /\ burner'.done
  BY DEF BurnStarts
<1>2. dfu.image_ready /\ dfu' = dfu /\ nor' = nor /\ updater' = updater
  BY DEF BurnStarts
<1>3. dfu.received \in 1 .. SlotBlocks
  BY <1>2, WholeFits
<1>4. burner' \in BurnerRecords
  BY <1>3 DEF BurnStarts, BurnerRecords, BurnStates
<1>5. BurnInStep'
  BY <1>1, <1>2, <1>3 DEF BurnInStep, Burning
<1> QED BY <1>1, <1>2, <1>4, <1>5, KnownTypes, BoardStepKeeps

(* The sector the burn is at, and the next. *)
LEMMA BurnPlace ==
  ASSUME UpdateInv, burner.pc \in Burning
  PROVE  /\ burner.done /\ burner.size = dfu.received
         /\ burner.size \in 1 .. SlotBlocks
         /\ burner.at \in SlotSectors /\ burner.at < burner.size
<1> USE UpdateConstants
<1>1. burner.done /\ dfu.image_ready /\ burner.size = dfu.received /\ burner.at < burner.size
  BY DEF UpdateInv, BurnInStep
<1>2. burner.size \in 1 .. SlotBlocks
  BY <1>1, WholeFits
<1>3. burner.at \in 0 .. SlotBlocks
  BY KnownTypes DEF BurnerRecords
<1>4. burner.at \in SlotSectors
  BY <1>1, <1>2, <1>3 DEF SlotSectors
<1> QED BY <1>1, <1>2, <1>4

LEMMA OnwardIs ==
  ASSUME UpdateInv, burner.pc \in Burning, NEW next \in BurnStates
  PROVE  /\ Onward(next) \in BurnerRecords
         /\ Onward(next).done = burner.done /\ Onward(next).size = burner.size
         /\ burner.at + 1 < burner.size =>
              Onward(next).at = burner.at + 1 /\ Onward(next).pc = burner.pc
         /\ ~(burner.at + 1 < burner.size) =>
              Onward(next).at = 0 /\ Onward(next).pc = next /\ burner.at + 1 = burner.size
<1> USE UpdateConstants
<1>1. /\ burner \in BurnerRecords /\ burner.at \in Nat /\ burner.size \in 1 .. SlotBlocks
      /\ burner.at < burner.size
  BY KnownTypes, BurnPlace DEF BurnerRecords
<1>2. CASE burner.at + 1 < burner.size
  <2> DEFINE b == [burner EXCEPT !.at = @ + 1]
  <2>1. Onward(next) = b
    BY <1>2 DEF Onward
  <2>2. burner.at + 1 \in 0 .. SlotBlocks
    BY <1>1, <1>2
  <2>3. b \in BurnerRecords
    BY <1>1, <2>2 DEF BurnerRecords
  <2>4. b.done = burner.done /\ b.size = burner.size /\ b.at = burner.at + 1 /\ b.pc = burner.pc
    BY <1>1 DEF BurnerRecords
  <2> HIDE DEF b
  <2> QED BY <1>2, <2>1, <2>3, <2>4
<1>3. CASE ~(burner.at + 1 < burner.size)
  <2> DEFINE b == [burner EXCEPT !.at = 0, !.pc = next]
  <2>1. Onward(next) = b
    BY <1>3 DEF Onward
  <2>2. 0 \in 0 .. SlotBlocks /\ burner.at + 1 = burner.size
    BY <1>1, <1>3
  <2>3. b \in BurnerRecords
    BY <1>1, <2>2 DEF BurnerRecords
  <2>4. b.done = burner.done /\ b.size = burner.size
    BY <1>1 DEF BurnerRecords
  <2>5. b.at = 0 /\ b.pc = next
    BY <1>1 DEF BurnerRecords
  <2> HIDE DEF b
  <2> QED BY <1>3, <2>1, <2>2, <2>3, <2>4, <2>5
<1> QED BY <1>2, <1>3

LEMMA BurnBrokenIs ==
  ASSUME UpdateInv
  PROVE  /\ BurnBroken \in BurnerRecords
         /\ BurnBroken.done = burner.done /\ BurnBroken.size = burner.size
         /\ \/ BurnBroken.pc = "failed"
            \/ BurnBroken.pc = "erase" /\ BurnBroken.at = 0
<1> USE UpdateConstants
<1>1. burner \in BurnerRecords
  BY KnownTypes
<1>2. CASE burner.retried
  <2> DEFINE b == [burner EXCEPT !.pc = "failed"]
  <2>1. BurnBroken = b
    BY <1>2 DEF BurnBroken
  <2>2. b \in BurnerRecords /\ b.pc = "failed"
    BY <1>1 DEF BurnerRecords, BurnStates
  <2>3. b.done = burner.done /\ b.size = burner.size
    BY <1>1 DEF BurnerRecords
  <2> HIDE DEF b
  <2> QED BY <2>1, <2>2, <2>3
<1>3. CASE ~burner.retried
  <2> DEFINE b == [burner EXCEPT !.retried = TRUE, !.pc = "erase", !.at = 0]
  <2>1. BurnBroken = b
    BY <1>3 DEF BurnBroken
  <2>2. 0 \in 0 .. SlotBlocks
    OBVIOUS
  <2>3. b \in BurnerRecords
    BY <1>1, <2>2 DEF BurnerRecords, BurnStates
  <2>4. b.done = burner.done /\ b.size = burner.size
    BY <1>1 DEF BurnerRecords
  <2>5. b.pc = "erase" /\ b.at = 0
    BY <1>1 DEF BurnerRecords
  <2> HIDE DEF b
  <2> QED BY <2>1, <2>3, <2>4, <2>5
<1> QED BY <1>2, <1>3

LEMMA BrokenOffInStep ==
  ASSUME UpdateInv, burner.pc \in Burning, burner' = BurnBroken, dfu' = dfu
  PROVE  BurnInStep'
<1> USE UpdateConstants
<1>1. burner.done /\ dfu.image_ready /\ burner.size = dfu.received
  BY BurnPlace DEF UpdateInv, BurnInStep
<1>2. burner.size \in 1 .. SlotBlocks
  BY BurnPlace
<1>3. burner'.done = burner.done /\ burner'.size = burner.size
  BY BurnBrokenIs
<1>4. CASE burner'.pc = "failed"
  BY <1>1, <1>3, <1>4 DEF BurnInStep, Burning
<1>5. CASE burner'.pc = "erase" /\ burner'.at = 0
  <2>1. burner'.at < burner'.size
    BY <1>2, <1>3, <1>5
  <2> QED BY <1>1, <1>3, <1>5, <2>1 DEF BurnInStep, Burning
<1> QED BY <1>4, <1>5, BurnBrokenIs

(* A sector is written, and the burn goes on or breaks off. *)
LEMMA SectorStepKeeps ==
  ASSUME UpdateInv, burner.pc \in {"erase", "program"},
         burner' \in {BurnBroken, Onward(IF burner.pc = "erase" THEN "program" ELSE "verify")},
         nor' \in [SlotSectors -> Blocks \cup {Blank, Junk}],
         dfu' = dfu, updater' = updater
  PROVE  UpdateInv'
<1> USE UpdateConstants
<1> DEFINE next == IF burner.pc = "erase" THEN "program" ELSE "verify"
<1>1. next \in BurnStates /\ burner.pc \in Burning
  BY DEF BurnStates, Burning
<1>2. burner.done /\ burner.size = dfu.received /\ burner.size \in 1 .. SlotBlocks
       /\ dfu.image_ready /\ burner.at \in Nat
  BY <1>1, BurnPlace DEF UpdateInv, BurnInStep, SlotSectors
<1>3. CASE burner' = BurnBroken
  <2>1. BurnInStep'
    BY <1>1, <1>3, BrokenOffInStep
  <2>2. burner' \in BurnerRecords /\ burner'.pc \in {"failed", "erase"}
    BY <1>3, BurnBrokenIs
  <2> QED BY <2>1, <2>2, KnownTypes, BoardStepKeeps
<1>4. CASE burner' = Onward(next)
  <2> HIDE DEF next
  <2>1. /\ burner' \in BurnerRecords /\ burner'.done /\ burner'.size = dfu.received
        /\ burner'.at < burner'.size
        /\ burner'.pc \in {"erase", "program", "verify"}
        /\ burner'.pc = "verify" => burner'.at = 0
    <3>1. CASE burner.at + 1 < burner.size
      BY <1>1, <1>2, <1>4, <3>1, OnwardIs
    <3>2. CASE ~(burner.at + 1 < burner.size)
      <4>1. next \in {"program", "verify"}
        BY DEF next
      <4>2. /\ burner' \in BurnerRecords /\ burner'.done = burner.done
            /\ burner'.size = burner.size /\ burner'.at = 0 /\ burner'.pc = next
        BY <1>1, <1>4, <3>2, OnwardIs
      <4> QED BY <1>2, <4>1, <4>2
    <3> QED BY <3>1, <3>2
  <2>2. BurnInStep'
    BY <1>2, <2>1 DEF BurnInStep, Burning, Verified
  <2> QED BY <2>1, <2>2, KnownTypes, BoardStepKeeps
<1> QED BY <1>3, <1>4

LEMMA EraseKeeps == ASSUME UpdateInv, Erase PROVE UpdateInv'
<1>1. nor' \in [SlotSectors -> Blocks \cup {Blank, Junk}]
  BY KnownTypes DEF Erase
<1>2. burner' = Onward(IF burner.pc = "erase" THEN "program" ELSE "verify")
  BY DEF Erase
<1> QED BY <1>1, <1>2, SectorStepKeeps DEF Erase

LEMMA ProgramKeeps == ASSUME UpdateInv, Program PROVE UpdateInv'
<1>1. nor' \in [SlotSectors -> Blocks \cup {Blank, Junk}]
  <2>1. burner.at \in SlotSectors
    BY BurnPlace DEF Program, Burning
  <2>2. dfu.stage[burner.at] \in Blocks \cup {Junk}
    BY <2>1, KnownTypes DEF DfuRecords
  <2> QED BY <2>2, KnownTypes DEF Program
<1>2. burner' = Onward(IF burner.pc = "erase" THEN "program" ELSE "verify")
  BY DEF Program
<1> QED BY <1>1, <1>2, SectorStepKeeps DEF Program

LEMMA ChipFailsKeeps == ASSUME UpdateInv, ChipFails PROVE UpdateInv'
<1>1. nor' \in [SlotSectors -> Blocks \cup {Blank, Junk}]
  BY KnownTypes DEF ChipFails
<1> QED BY <1>1, SectorStepKeeps DEF ChipFails

LEMMA VerifyKeeps == ASSUME UpdateInv, Verify PROVE UpdateInv'
<1> USE UpdateConstants
<1>1. burner.pc = "verify" /\ dfu' = dfu /\ nor' = nor /\ updater' = updater
  BY DEF Verify
<1>2. burner.pc \in Burning /\ "linger" \in BurnStates
  BY <1>1 DEF Burning, BurnStates
<1>3. /\ burner.done /\ burner.size = dfu.received /\ burner.size \in 1 .. SlotBlocks
      /\ dfu.image_ready /\ burner.at \in Nat /\ Verified(burner.at)
  BY <1>1, <1>2, BurnPlace DEF UpdateInv, BurnInStep, SlotSectors
<1>4. CASE burner' = BurnBroken
  <2>1. BurnInStep'
    BY <1>1, <1>2, <1>4, BrokenOffInStep
  <2>2. burner' \in BurnerRecords /\ burner'.pc \in {"failed", "erase"}
    BY <1>4, BurnBrokenIs
  <2> QED BY <1>1, <2>1, <2>2, KnownTypes, BoardStepKeeps
<1>5. CASE nor[burner.at] = dfu.stage[burner.at] /\ burner' = Onward("linger")
  <2>1. Verified(burner.at + 1)
    <3> SUFFICES ASSUME NEW k \in 0 .. burner.at PROVE nor[k] = dfu.stage[k]
      BY <1>3 DEF Verified
    <3>1. CASE k = burner.at
      BY <1>5, <3>1
    <3>2. CASE k # burner.at
      <4>1. k \in 0 .. burner.at - 1
        BY <1>3, <3>2
      <4> QED BY <1>3, <4>1 DEF Verified
    <3> QED BY <3>1, <3>2
  <2>2. \A n : Verified(n)' <=> Verified(n)
    BY <1>1 DEF Verified
  <2>3. CASE burner.at + 1 < burner.size
    <3>1. /\ burner' \in BurnerRecords /\ burner'.done /\ burner'.size = dfu.received
          /\ burner'.at = burner.at + 1 /\ burner'.pc = "verify" /\ burner'.at < burner'.size
      BY <1>1, <1>2, <1>3, <1>5, <2>3, OnwardIs
    <3>2. BurnInStep'
      BY <1>1, <1>3, <2>1, <2>2, <3>1 DEF BurnInStep
    <3> QED BY <1>1, <3>1, <3>2, KnownTypes, BoardStepKeeps
  <2>4. CASE ~(burner.at + 1 < burner.size)
    <3>1. /\ burner' \in BurnerRecords /\ burner'.done /\ burner'.size = dfu.received
          /\ burner'.pc = "linger" /\ burner'.size = burner.at + 1
      BY <1>1, <1>2, <1>3, <1>5, <2>4, OnwardIs
    <3>2. BurnInStep'
      BY <1>1, <1>3, <2>1, <2>2, <3>1 DEF BurnInStep, Burning
    <3> QED BY <1>1, <3>1, <3>2, KnownTypes, BoardStepKeeps
  <2> QED BY <2>3, <2>4
<1> QED BY <1>4, <1>5 DEF Verify

LEMMA BurnerAt ==
  ASSUME UpdateInv, NEW p \in BurnStates
  PROVE  LET b == [burner EXCEPT !.pc = p]
         IN /\ b \in BurnerRecords /\ b.pc = p
            /\ b.done = burner.done /\ b.size = burner.size
<1>1. burner \in BurnerRecords
  BY KnownTypes
<1>2. [burner EXCEPT !.pc = p] \in BurnerRecords /\ [burner EXCEPT !.pc = p].pc = p
  BY <1>1 DEF BurnerRecords
<1>3. /\ [burner EXCEPT !.pc = p].done = burner.done
      /\ [burner EXCEPT !.pc = p].size = burner.size
  BY <1>1 DEF BurnerRecords
<1> QED BY <1>2, <1>3

LEMMA GoneIs ==
  ASSUME UpdateInv
  PROVE  LET u == [updater EXCEPT !.gone = TRUE]
         IN /\ u \in UpdaterRecords /\ u.gone /\ u.pc = updater.pc
            /\ u.image = updater.image /\ u.block = updater.block
            /\ u.disturbed = updater.disturbed /\ u.refused = updater.refused
<1> DEFINE u == [updater EXCEPT !.gone = TRUE]
<1>1. updater \in UpdaterRecords
  BY KnownTypes
<1>2. u \in UpdaterRecords /\ u.gone /\ u.pc = updater.pc
  BY <1>1 DEF UpdaterRecords
<1>3. u.image = updater.image /\ u.block = updater.block
  BY <1>1 DEF UpdaterRecords
<1>4. u.disturbed = updater.disturbed /\ u.refused = updater.refused
  BY <1>1 DEF UpdaterRecords
<1> QED BY <1>2, <1>3, <1>4

LEMMA RebootKeeps == ASSUME UpdateInv, Reboot PROVE UpdateInv'
<1>1. /\ burner.pc = "linger" /\ burner' = [burner EXCEPT !.pc = "rebooting"]
      /\ updater' = [updater EXCEPT !.gone = TRUE] /\ dfu' = dfu /\ nor' = nor
  BY DEF Reboot
<1>2. "rebooting" \in BurnStates
  BY DEF BurnStates
<1>3. /\ burner' \in BurnerRecords /\ burner'.pc = "rebooting"
      /\ burner'.done = burner.done /\ burner'.size = burner.size
  BY <1>1, <1>2, BurnerAt
<1>4. \A n : Verified(n)' <=> Verified(n)
  BY <1>1 DEF Verified
<1>5. burner.done /\ dfu.image_ready /\ burner.size = dfu.received /\ Verified(burner.size)
  BY <1>1 DEF UpdateInv, BurnInStep
<1>6. BurnInStep'
  BY <1>1, <1>3, <1>4, <1>5 DEF BurnInStep, Burning
<1>7. /\ updater' \in UpdaterRecords /\ updater'.gone /\ updater'.pc = updater.pc
      /\ updater'.image = updater.image /\ updater'.block = updater.block
      /\ updater'.disturbed = updater.disturbed /\ updater'.refused = updater.refused
  BY <1>1, GoneIs
<1> QED BY <1>1, <1>3, <1>6, <1>7, KnownTypes, BoardStepKeeps

LEMMA UnplugKeeps == ASSUME UpdateInv, Unplug PROVE UpdateInv'
<1>1. /\ burner' = [burner EXCEPT !.pc = "off"]
      /\ updater' = [updater EXCEPT !.gone = TRUE] /\ dfu' = dfu /\ nor' = nor
  BY DEF Unplug
<1>2. "off" \in BurnStates
  BY DEF BurnStates
<1>3. /\ burner' \in BurnerRecords /\ burner'.pc = "off"
      /\ burner'.done = burner.done /\ burner'.size = burner.size
  BY <1>1, <1>2, BurnerAt
<1>4. BurnInStep'
  BY <1>1, <1>3 DEF BurnInStep, UpdateInv, Burning
<1>5. /\ updater' \in UpdaterRecords /\ updater'.gone /\ updater'.pc = updater.pc
      /\ updater'.image = updater.image /\ updater'.block = updater.block
      /\ updater'.disturbed = updater.disturbed /\ updater'.refused = updater.refused
  BY <1>1, GoneIs
<1> QED BY <1>1, <1>3, <1>4, <1>5, KnownTypes, BoardStepKeeps

LEMMA FreshTypes ==
  /\ FreshDfu \in DfuRecords /\ FreshDfu.received = FreshDfu.expected_block
  /\ FreshDfu.state = "IDLE" /\ ~FreshDfu.image_ready
  /\ FreshBurner \in BurnerRecords /\ ~FreshBurner.done /\ FreshBurner.pc = "idle"
<1> USE UpdateConstants
<1>1. 0 \in 0 .. SlotBlocks
  OBVIOUS
<1>2. [k \in SlotSectors |-> Junk] \in [SlotSectors -> Blocks \cup {Junk}]
  OBVIOUS
<1>3. FreshDfu \in DfuRecords
  BY <1>1, <1>2 DEF FreshDfu, DfuRecords, DfuStates
<1>4. FreshBurner \in BurnerRecords
  BY <1>1 DEF FreshBurner, BurnerRecords, BurnStates
<1> QED BY <1>3, <1>4 DEF FreshDfu, FreshBurner

LEMMA BootKeeps == ASSUME UpdateInv, Boot PROVE UpdateInv'
<1>1. /\ burner.pc \in {"rebooting", "off"}
      /\ burner' \in {FreshBurner, [FreshBurner EXCEPT !.pc = "dead"]}
      /\ dfu' = FreshDfu /\ nor' = nor /\ updater' = updater
  BY DEF Boot
<1>2. updater.gone
  BY <1>1 DEF UpdateInv, GoneKnown, Board
<1>3. burner' \in BurnerRecords /\ burner'.pc \in {"idle", "dead"} /\ ~burner'.done
  <2> DEFINE b == [FreshBurner EXCEPT !.pc = "dead"]
  <2>1. b \in BurnerRecords /\ b.pc = "dead" /\ ~b.done
    BY FreshTypes DEF BurnerRecords, BurnStates
  <2> HIDE DEF b
  <2> QED BY <1>1, <2>1, FreshTypes DEF b
<1>4. UpdateTypeOK'
  BY <1>1, <1>3, FreshTypes, KnownTypes DEF UpdateTypeOK, DfuRecords, BurnerRecords,
                                            UpdaterRecords
<1>5. HostInImage(updater)'
  BY <1>1 DEF UpdateInv, HostInImage
<1>6. InStep(dfu, updater)'
  BY <1>1, <1>2, FreshTypes DEF InStep
<1>7. WholeWhenReady(dfu)'
  BY <1>1, FreshTypes DEF WholeWhenReady
<1>8. BurnInStep'
  BY <1>3 DEF BurnInStep, Burning
<1>9. GoneKnown'
  BY <1>1, <1>2 DEF GoneKnown
<1> QED BY <1>4, <1>5, <1>6, <1>7, <1>8, <1>9 DEF UpdateInv

LEMMA BusResetKeeps == ASSUME UpdateInv, BusReset PROVE UpdateInv'
<1> USE UpdateConstants
<1> DEFINE u == [updater EXCEPT !.disturbed = TRUE]
           e == [dfu EXCEPT !.state = "IDLE", !.status = "OK",
                            !.received = 0, !.expected_block = 0]
<1>1. /\ dfu' = IF dfu.image_ready THEN dfu ELSE e
      /\ updater' = u /\ burner' = burner /\ nor' = nor
  BY DEF BusReset
<1>2. dfu \in DfuRecords /\ updater \in UpdaterRecords /\ dfu.received = dfu.expected_block
  BY KnownTypes
<1>3. u \in UpdaterRecords /\ u.disturbed /\ u.pc = updater.pc
  BY <1>2 DEF UpdaterRecords
<1>4. u.image = updater.image /\ u.block = updater.block /\ u.gone = updater.gone
  BY <1>2 DEF UpdaterRecords
<1>5. 0 \in 0 .. SlotBlocks
  OBVIOUS
<1>6. e \in DfuRecords
  BY <1>2, <1>5 DEF DfuRecords, DfuStates
<1>7. e.state = "IDLE" /\ e.received = 0 /\ e.expected_block = 0
  BY <1>2 DEF DfuRecords
<1>8. e.image_ready = dfu.image_ready
  BY <1>2 DEF DfuRecords
<1> HIDE DEF u, e
<1>9. dfu' \in DfuRecords /\ dfu'.received = dfu'.expected_block
  BY <1>1, <1>2, <1>6, <1>7
<1>10. HostInImage(updater')
  BY <1>1, <1>3, <1>4 DEF UpdateInv, HostInImage
<1>11. InStep(dfu', updater')
  <2>1. CASE dfu.image_ready
    <3>1. updater.pc \notin Sending
      BY <2>1 DEF UpdateInv, InStep, WholeWhenReady
    <3> QED BY <1>1, <1>3, <3>1 DEF InStep
  <2>2. CASE ~dfu.image_ready
    BY <1>1, <1>3, <1>7, <2>2 DEF InStep
  <2> QED BY <2>1, <2>2
<1>12. WholeWhenReady(dfu') /\ KeepsReady(dfu, dfu')
  BY <1>1, <1>7, <1>8 DEF UpdateInv, WholeWhenReady, KeepsReady
<1> QED BY <1>1, <1>3, <1>4, <1>9, <1>10, <1>11, <1>12, HostStepKeeps

-----------------------------------------------------------------------------
(* The theorems *)

LEMMA UpdateInitInv == UpdateInit => UpdateInv
<1> USE UpdateConstants
<1> SUFFICES ASSUME UpdateInit PROVE UpdateInv
  OBVIOUS
<1>1. /\ dfu = FreshDfu /\ burner = FreshBurner
      /\ updater.pc = "none" /\ ~updater.refused
  BY DEF UpdateInit
<1>2. nor \in [SlotSectors -> Blocks \cup {Blank, Junk}]
  <2> SUFFICES ASSUME NEW k \in SlotSectors
               PROVE  (IF k < BlocksOf[Factory] THEN <<Factory, k>> ELSE Blank)
                        \in Blocks \cup {Blank, Junk}
    BY DEF UpdateInit
  <2>1. <<Factory, k>> \in Blocks
    BY DEF Blocks
  <2> QED BY <2>1
<1>3. updater \in UpdaterRecords
  BY DEF UpdateInit, UpdaterRecords, HostStates
<1>4. UpdateTypeOK
  BY <1>1, <1>2, <1>3, FreshTypes DEF UpdateTypeOK, DfuRecords, BurnerRecords, UpdaterRecords
<1>5. HostInImage(updater) /\ InStep(dfu, updater)
  BY <1>1 DEF HostInImage, InStep, Looking, Sending
<1>6. WholeWhenReady(dfu) /\ BurnInStep /\ GoneKnown
  BY <1>1, FreshTypes DEF WholeWhenReady, BurnInStep, Burning, GoneKnown, Board
<1> QED BY <1>4, <1>5, <1>6 DEF UpdateInv

LEMMA UpdateStepKeeps == ASSUME UpdateInv, [UpdateNext]_updateVars PROVE UpdateInv'
<1>1. ASSUME NEW m \in Images, HostStarts(m) PROVE UpdateInv'
  BY <1>1, HostStartsKeeps
<1>2. CASE HostLooks \/ HostClears \/ HostAborts
  BY <1>2, HostLooksKeeps, HostClearsKeeps, HostAbortsKeeps
<1>3. CASE HostSends \/ HostAcknowledges
  BY <1>3, HostSendsKeeps, HostAcknowledgesKeeps
<1>4. CASE HostEnds \/ HostPolls
  BY <1>4, HostEndsKeeps, HostPollsKeeps
<1>5. CASE HostLosesBoard
  <2>1. PICK o \in {"written", "error"} : updater' = Tells(o)
    BY <1>5 DEF HostLosesBoard
  <2> QED BY <1>5, <2>1, HostLeavesKeeps DEF HostLosesBoard
<1>6. CASE HostTimesOut
  BY <1>6, HostLeavesKeeps DEF HostTimesOut
<1>7. CASE HostStops
  BY <1>7, HostLeavesKeeps DEF HostStops
<1>8. CASE BurnStarts \/ Erase \/ Program
  BY <1>8, BurnStartsKeeps, EraseKeeps, ProgramKeeps
<1>9. CASE Verify \/ Reboot \/ ChipFails
  BY <1>9, VerifyKeeps, RebootKeeps, ChipFailsKeeps
<1>10. CASE BusReset \/ Unplug \/ Boot
  BY <1>10, BusResetKeeps, UnplugKeeps, BootKeeps
<1>11. CASE UNCHANGED updateVars
  BY <1>11 DEF updateVars, UpdateInv, UpdateTypeOK, HostInImage, InStep, Staged,
               WholeWhenReady, Whole, BurnInStep, Verified, GoneKnown, Board
<1> QED BY <1>1, <1>2, <1>3, <1>4, <1>5, <1>6, <1>7, <1>8, <1>9, <1>10, <1>11
        DEF UpdateNext, HostStep, BurnStep

(* The invariant holds throughout: types, the host in step with the board, *)
(* and the burn in step with the image.                                    *)
THEOREM UpdateInvariant == UpdateSpec => []UpdateInv
BY UpdateInitInv, UpdateStepKeeps, PTL DEF UpdateSpec

(* Types, and the board's two counters of blocks agree. *)
THEOREM UpdateTypeCorrect == UpdateSpec => []UpdateTypeOK
<1>1. UpdateInv => UpdateTypeOK
  BY DEF UpdateInv
<1> QED BY <1>1, UpdateInvariant, PTL

(* The board reboots into the slot only when usbdfu.c has burnt and read   *)
(* back one image from its first block to its last.                        *)
THEOREM OneImageBurnt == UpdateSpec => []BurntIsOneImage
<1>1. UpdateInv => BurntIsOneImage
  <2> SUFFICES ASSUME UpdateInv, burner.pc \in {"linger", "rebooting"}
               PROVE  \E m \in Images : burner.size = BlocksOf[m] /\ Holds(nor, m)
    BY DEF BurntIsOneImage
  <2>1. dfu.image_ready /\ burner.size = dfu.received /\ Verified(burner.size)
    BY DEF UpdateInv, BurnInStep
  <2>2. PICK m \in Images : dfu.received = BlocksOf[m] /\ Staged(dfu, m, BlocksOf[m])
    BY <2>1 DEF UpdateInv, WholeWhenReady, Whole
  <2>3. Holds(nor, m)
    BY <2>1, <2>2 DEF Holds, Staged, Verified
  <2> QED BY <2>1, <2>2, <2>3
<1> QED BY <1>1, UpdateInvariant, PTL

(* The host's block is refused only if the bus was reset under it: what an *)
(* earlier, broken-off download left is cleared before the first block.    *)
THEOREM NoUndeservedRefusal == UpdateSpec => []RefusedOnlyIfReset
<1>1. UpdateInv => RefusedOnlyIfReset
  BY DEF UpdateInv, HostInImage, RefusedOnlyIfReset
<1> QED BY <1>1, UpdateInvariant, PTL

(* The flash changes only while a whole image is staged, and that image is *)
(* not touched meanwhile, whatever the host asks of the interrupt.         *)
THEOREM FlashIsSafe == UpdateSpec => FlashWaitsForImage
<1>1. UpdateInv /\ [UpdateNext]_updateVars =>
        [nor' # nor => \E m \in Images : StageHolds(m) /\ StageHolds(m)']_updateVars
  <2> SUFFICES ASSUME UpdateInv, UpdateNext, nor' # nor
               PROVE  \E m \in Images : StageHolds(m) /\ StageHolds(m)'
    BY DEF updateVars
  <2>1. Erase \/ Program \/ ChipFails
    BY DEF UpdateNext, HostStarts, HostStep, HostLooks, HostClears, HostAborts, HostSends,
           HostAcknowledges, HostEnds, HostPolls, HostLosesBoard, HostTimesOut, HostStops,
           BurnStep, BurnStarts, Verify, Reboot, BusReset, Unplug, Boot
  <2>2. burner.pc \in Burning /\ dfu' = dfu
    BY <2>1 DEF Erase, Program, ChipFails, Burning
  <2>3. dfu.image_ready
    BY <2>2 DEF UpdateInv, BurnInStep
  <2>4. PICK m \in Images : dfu.received = BlocksOf[m] /\ Staged(dfu, m, BlocksOf[m])
    BY <2>3 DEF UpdateInv, WholeWhenReady, Whole
  <2>5. StageHolds(m)
    BY <2>4 DEF StageHolds, Holds, Staged
  <2>6. StageHolds(m)'
    BY <2>2, <2>5 DEF StageHolds, Holds
  <2> QED BY <2>5, <2>6
<1> QED BY <1>1, UpdateInvariant, PTL DEF UpdateSpec, FlashWaitsForImage
=============================================================================

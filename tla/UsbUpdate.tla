----------------------------- MODULE UsbUpdate ------------------------------
(***************************************************************************)
(* Firmware update over USB: the DFU state machine of src/src/usbdfu.c,    *)
(* which runs in the USB interrupt, the burn its main-loop hook makes with *)
(* src/src/spinor.c, and the host, dfuDownload of                          *)
(* src/desktop/src/main/update/dfu.ts.                                     *)
(*                                                                         *)
(* Simplifications:                                                        *)
(*  - a transfer block is a flash sector (both are 4096 bytes), and block  *)
(*    k of image m is the pair <<m, k>>;                                   *)
(*  - a control transfer is one step: the handler and what the host makes  *)
(*    of the answer; the host's deadlines may expire at any time.          *)
(***************************************************************************)
EXTENDS Integers

CONSTANTS
  Images,      \* images the host may send, all of them valid
  Factory,     \* the image the slot holds at first
  BlocksOf,    \* blocks of each image
  SlotBlocks,  \* SPINOR_FW_SIZE in blocks
  Blank, Junk, \* contents of a sector: erased, and neither erased nor a block
  Mishaps      \* what may go wrong, out of KnownMishaps

KnownMishaps == {"reset", "unplug", "crash", "chip"}

ASSUME UpdateConstants ==
  /\ Factory \notin Images
  /\ SlotBlocks \in Nat \ {0}
  /\ BlocksOf \in [Images \cup {Factory} -> 1 .. SlotBlocks]
  /\ Mishaps \subseteq KnownMishaps
  /\ Blank # Junk
  /\ \A m \in Images \cup {Factory}, k \in 0 .. SlotBlocks - 1 : <<m, k>> \notin {Blank, Junk}

VARIABLES
  dfu,      \* usbdfu.c: state, status, received, expected_block, image_ready, stage
  burner,   \* usbdfu_poll and burn: where they are
  nor,      \* the firmware slot of the flash
  updater   \* dfuDownload

updateVars == <<dfu, burner, nor, updater>>

SlotSectors == 0 .. SlotBlocks - 1
Blocks == (Images \cup {Factory}) \X SlotSectors

DfuStates == {"IDLE", "DNLOAD_SYNC", "DNLOAD_IDLE", "MANIFEST_SYNC",
              "MANIFEST", "MANIFEST_WAIT", "ERROR"}
BurnStates == {"idle", "erase", "program", "verify", "linger", "failed",
               "rebooting", "off", "dead"}
HostStates == {"none", "look", "clear", "look again", "abort", "look last",
               "send", "sent", "end", "poll"}

(* Types; and the next block's number is the number of blocks staged. *)
UpdateTypeOK ==
  /\ dfu \in [state : DfuStates, status : {"OK", "ERR"},
              received : 0 .. SlotBlocks, expected_block : 0 .. SlotBlocks,
              image_ready : BOOLEAN, stage : [SlotSectors -> Blocks \cup {Junk}]]
  /\ burner \in [pc : BurnStates, at : 0 .. SlotBlocks, size : 0 .. SlotBlocks,
                 retried : BOOLEAN, done : BOOLEAN]
  /\ nor \in [SlotSectors -> Blocks \cup {Blank, Junk}]
  /\ updater \in [pc : HostStates, image : Images \cup {Factory},
                  block : 0 .. SlotBlocks, gone : BOOLEAN, disturbed : BOOLEAN,
                  refused : BOOLEAN, told : {"nothing", "error", "written"}]
  /\ dfu.received = dfu.expected_block

FreshDfu ==
  [state |-> "IDLE", status |-> "OK", received |-> 0, expected_block |-> 0,
   image_ready |-> FALSE, stage |-> [k \in SlotSectors |-> Junk]]
FreshBurner ==
  [pc |-> "idle", at |-> 0, size |-> 0, retried |-> FALSE, done |-> FALSE]

UpdateInit ==
  /\ dfu = FreshDfu
  /\ burner = FreshBurner
  /\ nor = [k \in SlotSectors |-> IF k < BlocksOf[Factory] THEN <<Factory, k>> ELSE Blank]
  /\ updater = [pc |-> "none", image |-> Factory, block |-> 0, gone |-> FALSE,
                disturbed |-> FALSE, refused |-> FALSE, told |-> "nothing"]

Holds(flash, m) == \A k \in 0 .. BlocksOf[m] - 1 : flash[k] = <<m, k>>
Bootable(flash) == \E m \in Images \cup {Factory} : Holds(flash, m)

-----------------------------------------------------------------------------
(* dfu_class_handler *)

Failed(d) == [d EXCEPT !.status = "ERR", !.state = "ERROR"]

(* DFU_DNLOAD with data: block `value` of image m. *)
DownloadStarts(d) ==
  IF d.state = "IDLE"
  THEN [d EXCEPT !.received = 0, !.expected_block = 0, !.image_ready = FALSE]
  ELSE d

Accepts(d, value) ==
  /\ d.state \in {"IDLE", "DNLOAD_IDLE"}
  /\ value = DownloadStarts(d).expected_block
  /\ DownloadStarts(d).received < SlotBlocks

Downloaded(d, m, value) ==
  LET e == DownloadStarts(d)
  IN IF Accepts(d, value)
     THEN [e EXCEPT !.stage[e.received] = <<m, value>>,
                    !.received = @ + 1,
                    !.expected_block = @ + 1,
                    !.state = "DNLOAD_SYNC"]
     ELSE Failed(IF d.state \in {"IDLE", "DNLOAD_IDLE"} THEN e ELSE d)

(* DFU_DNLOAD without data ends the transfer. *)
DownloadEnded(d) ==
  IF d.state = "DNLOAD_IDLE" THEN [d EXCEPT !.state = "MANIFEST_SYNC"]
  ELSE Failed(d)

image_valid(d) ==
  /\ d.received >= 1
  /\ d.stage[0] \in (Images \cup {Factory}) \X {0}

(* DFU_GETSTATUS moves the machine on, and then reports. *)
StatusRead(d) ==
  CASE d.state = "DNLOAD_SYNC" -> [d EXCEPT !.state = "DNLOAD_IDLE"]
    [] d.state = "MANIFEST_SYNC" /\ image_valid(d) ->
         [d EXCEPT !.image_ready = TRUE, !.state = "MANIFEST"]
    [] d.state = "MANIFEST_SYNC" /\ ~image_valid(d) -> Failed(d)
    [] d.state = "MANIFEST" -> [d EXCEPT !.state = "MANIFEST_WAIT"]
    [] OTHER -> d

StatusCleared(d) ==
  IF d.state = "ERROR" THEN [d EXCEPT !.status = "OK", !.state = "IDLE"] ELSE d

(* A mutant: only the block counter starts again. *)
Aborted_KeepsReceived(d) ==
  IF d.state \in {"MANIFEST", "MANIFEST_WAIT"} THEN d
  ELSE [d EXCEPT !.state = "IDLE", !.expected_block = 0]

(* A mutant: the burn is not protected. *)
Aborted_Always(d) ==
  [d EXCEPT !.state = "IDLE", !.received = 0, !.expected_block = 0]

(* DFU_ABORT leaves image_ready and the status alone. *)
Aborted(d) ==
  IF d.state \in {"MANIFEST", "MANIFEST_WAIT"} THEN d
  ELSE [d EXCEPT !.state = "IDLE", !.received = 0, !.expected_block = 0]

(* A mutant: the reset forgets an image that waits for its burn. *)
BusReset_Always ==
  /\ "reset" \in Mishaps
  /\ dfu' = [dfu EXCEPT !.state = "IDLE", !.status = "OK",
                        !.received = 0, !.expected_block = 0]
  /\ updater' = [updater EXCEPT !.disturbed = TRUE]
  /\ UNCHANGED <<burner, nor>>

(* dfu_notify on a bus reset. *)
BusReset ==
  /\ "reset" \in Mishaps
  /\ dfu' = IF dfu.image_ready THEN dfu
            ELSE [dfu EXCEPT !.state = "IDLE", !.status = "OK",
                             !.received = 0, !.expected_block = 0]
  /\ updater' = [updater EXCEPT !.disturbed = TRUE]
  /\ UNCHANGED <<burner, nor>>

-----------------------------------------------------------------------------
(* dfuDownload *)

Board == burner.pc \notin {"rebooting", "off", "dead"}
Reaches == Board /\ ~updater.gone

Tells(outcome) == [updater EXCEPT !.pc = "none", !.told = outcome]

HostStarts(m) ==
  /\ updater.pc = "none"
  /\ Board
  /\ updater' = [pc |-> "look", image |-> m, block |-> 0, gone |-> FALSE,
                 disturbed |-> FALSE, refused |-> FALSE, told |-> "nothing"]
  /\ UNCHANGED <<dfu, burner, nor>>

(* A mutant: the state an earlier download left is not looked at. *)
AfterLook_NoAbort(from, d) ==
  IF from = "look" /\ d.state = "ERROR" THEN [updater EXCEPT !.pc = "clear"]
  ELSE IF d.status # "OK" THEN Tells("error")
  ELSE [updater EXCEPT !.pc = "send"]

(* What the host does next once it has read a status at rest. *)
AfterLook(from, d) ==
  IF from = "look" /\ d.state = "ERROR" THEN [updater EXCEPT !.pc = "clear"]
  ELSE IF from # "look last" /\ d.state # "IDLE" THEN [updater EXCEPT !.pc = "abort"]
  ELSE IF d.status # "OK" \/ d.state # "IDLE" THEN Tells("error")
  ELSE [updater EXCEPT !.pc = "send"]

HostLooks ==
  /\ Reaches
  /\ updater.pc \in {"look", "look again", "look last"}
  /\ dfu' = StatusRead(dfu)
  /\ updater' = AfterLook(updater.pc, dfu')
  /\ UNCHANGED <<burner, nor>>

HostClears ==
  /\ Reaches /\ updater.pc = "clear"
  /\ dfu' = StatusCleared(dfu)
  /\ updater' = [updater EXCEPT !.pc = "look again"]
  /\ UNCHANGED <<burner, nor>>

HostAborts ==
  /\ Reaches /\ updater.pc = "abort"
  /\ dfu' = Aborted(dfu)
  /\ updater' = [updater EXCEPT !.pc = "look last"]
  /\ UNCHANGED <<burner, nor>>

HostSends ==
  /\ Reaches /\ updater.pc = "send"
  /\ dfu' = Downloaded(dfu, updater.image, updater.block)
  /\ updater' = IF Accepts(dfu, updater.block) THEN [updater EXCEPT !.pc = "sent"]
                ELSE [Tells("error") EXCEPT !.refused = TRUE]
  /\ UNCHANGED <<burner, nor>>

HostAcknowledges ==
  /\ Reaches /\ updater.pc = "sent"
  /\ dfu' = StatusRead(dfu)
  /\ updater' = IF dfu'.status # "OK" THEN Tells("error")
                ELSE [updater EXCEPT
                        !.block = @ + 1,
                        !.pc = IF updater.block + 1 < BlocksOf[updater.image]
                               THEN "send" ELSE "end"]
  /\ UNCHANGED <<burner, nor>>

(* The answer to the closing transfer is not looked at. *)
HostEnds ==
  /\ Reaches /\ updater.pc = "end"
  /\ dfu' = DownloadEnded(dfu)
  /\ updater' = [updater EXCEPT !.pc = "poll"]
  /\ UNCHANGED <<burner, nor>>

HostPolls ==
  /\ Reaches /\ updater.pc = "poll"
  /\ dfu' = StatusRead(dfu)
  /\ updater' = IF dfu'.status # "OK" THEN Tells("error")
                ELSE IF dfu'.state = "MANIFEST_WAIT" THEN Tells("written")
                ELSE updater
  /\ UNCHANGED <<burner, nor>>

(* A transfer throws: while polling that counts as the reboot. *)
HostLosesBoard ==
  /\ updater.pc # "none" /\ ~Reaches
  /\ updater' = Tells(IF updater.pc = "poll" THEN "written" ELSE "error")
  /\ UNCHANGED <<dfu, burner, nor>>

HostTimesOut ==
  /\ updater.pc = "poll"
  /\ updater' = Tells("error")
  /\ UNCHANGED <<dfu, burner, nor>>

(* The user cancels between blocks, or the program dies anywhere. *)
HostStops ==
  /\ updater.pc = "send" \/ ("crash" \in Mishaps /\ updater.pc # "none")
  /\ updater' = Tells("nothing")
  /\ UNCHANGED <<dfu, burner, nor>>

-----------------------------------------------------------------------------
(* usbdfu_poll and burn, in the main loop *)

BurnStarts ==
  /\ burner.pc = "idle"
  /\ dfu.image_ready /\ ~burner.done
  /\ burner' = [pc |-> "erase", at |-> 0, size |-> dfu.received,
                retried |-> FALSE, done |-> TRUE]
  /\ UNCHANGED <<dfu, nor, updater>>

(* The next sector of this pass, or the first one of the next. *)
Onward(next) ==
  IF burner.at + 1 < burner.size THEN [burner EXCEPT !.at = @ + 1]
  ELSE [burner EXCEPT !.at = 0, !.pc = next]

(* A mutant: the retry is not counted. *)
BurnBroken_Again == [burner EXCEPT !.pc = "erase", !.at = 0]

(* burn returned an error: once more, and then give up. *)
BurnBroken ==
  IF burner.retried THEN [burner EXCEPT !.pc = "failed"]
  ELSE [burner EXCEPT !.retried = TRUE, !.pc = "erase", !.at = 0]

Erase ==
  /\ burner.pc = "erase"
  /\ nor' = [nor EXCEPT ![burner.at] = Blank]
  /\ burner' = Onward("program")
  /\ UNCHANGED <<dfu, updater>>

(* Programming only clears bits: what was not blank comes out as junk. *)
Program ==
  /\ burner.pc = "program"
  /\ nor' = [nor EXCEPT ![burner.at] =
               IF @ = Blank THEN dfu.stage[burner.at] ELSE Junk]
  /\ burner' = Onward("verify")
  /\ UNCHANGED <<dfu, updater>>

Verify ==
  /\ burner.pc = "verify"
  /\ burner' = IF nor[burner.at] = dfu.stage[burner.at] THEN Onward("linger")
               ELSE BurnBroken
  /\ UNCHANGED <<dfu, nor, updater>>

(* The chip stays busy past wait_ready's limit, or programs badly. *)
ChipFails ==
  /\ "chip" \in Mishaps
  /\ burner.pc \in {"erase", "program"}
  /\ nor' = [nor EXCEPT ![burner.at] = Junk]
  /\ burner' \in {BurnBroken, Onward(IF burner.pc = "erase" THEN "program" ELSE "verify")}
  /\ UNCHANGED <<dfu, updater>>

(* The wait for the host's last poll, at most 3 s, and then the watchdog. *)
Reboot ==
  /\ burner.pc = "linger"
  /\ burner' = [burner EXCEPT !.pc = "rebooting"]
  /\ updater' = [updater EXCEPT !.gone = TRUE]
  /\ UNCHANGED <<dfu, nor>>

Unplug ==
  /\ "unplug" \in Mishaps
  /\ burner.pc \notin {"off", "dead"}
  /\ burner' = [burner EXCEPT !.pc = "off"]
  /\ updater' = [updater EXCEPT !.gone = TRUE]
  /\ UNCHANGED <<dfu, nor>>

Boot ==
  /\ burner.pc \in {"rebooting", "off"}
  /\ burner' = IF Bootable(nor) THEN FreshBurner ELSE [FreshBurner EXCEPT !.pc = "dead"]
  /\ dfu' = FreshDfu
  /\ UNCHANGED <<nor, updater>>

BurnStep == BurnStarts \/ Erase \/ Program \/ Verify \/ Reboot
HostStep ==
  \/ HostLooks \/ HostClears \/ HostAborts \/ HostSends \/ HostAcknowledges
  \/ HostEnds \/ HostPolls \/ HostLosesBoard \/ HostTimesOut

UpdateNext ==
  \/ \E m \in Images : HostStarts(m)
  \/ HostStep \/ HostStops
  \/ BurnStep \/ ChipFails
  \/ BusReset \/ Unplug \/ Boot

UpdateFairness == WF_updateVars(BurnStep) /\ WF_updateVars(HostStep)
UpdateSpec == UpdateInit /\ [][UpdateNext]_updateVars /\ UpdateFairness

-----------------------------------------------------------------------------
(* Properties *)

StageHolds(m) == dfu.received = BlocksOf[m] /\ Holds(dfu.stage, m)

(* The board reboots into the slot only when it holds one image from its   *)
(* first block to its last, whatever was cancelled, reset or sent again    *)
(* while the image was staged and burnt.                                   *)
BurntIsOneImage ==
  burner.pc \in {"linger", "rebooting"} =>
    \E m \in Images : burner.size = BlocksOf[m] /\ Holds(nor, m)

(* Nothing touches the flash until the whole image has arrived, as dfu.ts  *)
(* says, and the staged image stays as it is while it is burnt.            *)
FlashWaitsForImage ==
  [][nor' # nor => \E m \in Images : StageHolds(m) /\ StageHolds(m)']_updateVars

(* An update that was interrupted does not poison the next: the board      *)
(* refuses a block only if the bus was reset under this very download.     *)
RefusedOnlyIfReset == updater.refused => updater.disturbed

(* An image the board has accepted gets burnt, unless the power goes or    *)
(* the flash chip fails twice.                                             *)
AcceptedIsBurnt ==
  dfu.image_ready ~> burner.pc \in {"rebooting", "failed", "off", "dead"}

(* The host is told that the firmware is written and verified only when    *)
(* it is: firmware.ts reports "written and verified, the board is          *)
(* rebooting" on MANIFEST_WAIT.                                            *)
ToldWrittenIsWritten ==
  updater.told = "written" =>
    \/ burner.pc \in {"linger", "rebooting"}
    \/ Holds(nor, updater.image)
=============================================================================

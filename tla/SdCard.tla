-------------------------------- MODULE SdCard --------------------------------
(***************************************************************************)
(* The card layer: sdcard_detect and the sector transfers (sdcard.c over   *)
(* sdc.c, called by diskio.c), command by command, against a card that     *)
(* keeps the states of the SD specification and stays silent to a command  *)
(* that is not legal in its state.  A command or its response may be lost, *)
(* a data phase may break off, the card may be pulled and another put in.  *)
(***************************************************************************)
EXTENDS Integers

CONSTANTS
  Kinds,      \* of cards: subset of {"sd1", "sd2", "sdhc"}
  MaxBusy,    \* ACMD41 polls a card may answer busy
  Retries,    \* of the ACMD41 loop (1000)
  SilentMax,  \* CMD55 unanswered so often is an empty slot (200)
  Lossy,      \* commands whose exchange may be lost
  MaxLosses,  \* bound: lost exchanges and broken data phases in a behaviour
  MaxSwaps    \* bound: cards put in

ASSUME SdConstants ==
  /\ Kinds \subseteq {"sd1", "sd2", "sdhc"} /\ Kinds # {}
  /\ {MaxBusy, MaxLosses, MaxSwaps} \subseteq Nat
  /\ {Retries, SilentMax} \subseteq Nat \ {0}

VARIABLES
  sd,     \* sdcard_t, the controller's bus width and the step of the operation
  card,   \* the card in the slot
  trial   \* history: losses and swaps so far, calm: none of them since the detect began;
          \* touched: where the last successful transfer went

sdVars == <<sd, card, trial>>

Idle(kind) == [kind |-> kind, state |-> "idle", width |-> 1, rca |-> 0, busy |-> MaxBusy,
               app |-> FALSE]
NoCard == [kind |-> "none", state |-> "none", width |-> 1, rca |-> 0, busy |-> 0, app |-> FALSE]
HighCapacity(c) == c.kind = "sdhc"

SdInit ==
  /\ sd = [at |-> "off", version |-> "none", hc |-> FALSE, rca |-> 0, width |-> 1,
           retries |-> 0, silent |-> 0, status |-> "noinit"]
  /\ card = NoCard
  /\ trial = [losses |-> 0, swaps |-> 0, calm |-> TRUE, touched |-> "asked"]

-----------------------------------------------------------------------------
(* The card (the SD specification) *)

Legal(cmd) ==
  CASE cmd = "CMD0"   -> card.state # "none"
    [] cmd = "CMD8"   -> card.state = "idle" /\ card.kind # "sd1"
    [] cmd = "CMD55"  -> card.state \in {"idle", "stby", "tran", "data", "rcv"}
                         /\ sd.rca = card.rca
    [] cmd = "ACMD41" -> card.state = "idle" /\ card.app
    [] cmd = "CMD2"   -> card.state = "ready"
    [] cmd = "CMD3"   -> card.state \in {"ident", "stby"}
    [] cmd = "CMD9"   -> card.state = "stby" /\ sd.rca = card.rca
    [] cmd = "CMD7"   -> card.state = "stby" /\ sd.rca = card.rca
    [] cmd = "CMD13"  -> card.state \in {"stby", "tran", "data", "rcv"} /\ sd.rca = card.rca
    [] cmd = "ACMD6"  -> card.state = "tran" /\ card.app
    [] cmd \in {"CMD16", "read", "write"} -> card.state = "tran"
    [] OTHER          -> FALSE

\* Only a card told that the host knows high capacity leaves busy, if it is one.
OpCond == IF card.busy > 0 /\ (HighCapacity(card) => sd.version = "sd2")
            THEN [card EXCEPT !.busy = @ - 1]
          ELSE IF HighCapacity(card) => sd.version = "sd2"
            THEN [card EXCEPT !.state = "ready"] ELSE card

Obeyed(cmd) ==
  LET plain == [card EXCEPT !.app = (cmd = "CMD55")]
  IN  CASE cmd = "CMD0"   -> Idle(card.kind)
        [] cmd = "ACMD41" -> [OpCond EXCEPT !.app = FALSE]
        [] cmd = "CMD2"   -> [plain EXCEPT !.state = "ident"]
        [] cmd = "CMD3"   -> [plain EXCEPT !.state = "stby", !.rca = 1]
        [] cmd = "CMD7"   -> [plain EXCEPT !.state = "tran"]
        [] cmd = "ACMD6"  -> [plain EXCEPT !.width = 4]
        [] cmd = "read"   -> [plain EXCEPT !.state = "data"]
        [] cmd = "write"  -> [plain EXCEPT !.state = "rcv"]
        [] OTHER          -> plain

\* One exchange, sdc_transfer: c is the card after it, ok what the driver is told.
Exchange(cmd, ok, c) ==
  \/ ok = Legal(cmd) /\ c = (IF ok THEN Obeyed(cmd) ELSE card)
     /\ trial' = trial
  \/ /\ cmd \in Lossy /\ trial.losses < MaxLosses /\ Legal(cmd)
     /\ ok = FALSE /\ c \in {card, Obeyed(cmd)}
     /\ trial' = [trial EXCEPT !.losses = @ + 1, !.calm = FALSE]

-----------------------------------------------------------------------------
(* sdcard_detect *)

DetectFails(s) == [s EXCEPT !.at = "off", !.status = "noinit"]

\* One command of the detection; a command without an answer ends it.
DetectStep(at, cmd, next(_)) ==
  /\ sd.at = at
  /\ \E ok \in BOOLEAN, c \in {card, Obeyed(cmd)} :
       /\ Exchange(cmd, ok, c)
       /\ card' = c
       /\ sd' = IF ok THEN next(sd) ELSE DetectFails(sd)

\* disk_initialize: the controller is reset, one bit wide.
BeginDetect_NoIdle == [sd EXCEPT !.at = "CMD8", !.width = 1]
BeginDetect == [sd EXCEPT !.at = "CMD0", !.width = 1]

disk_initialize ==
  /\ sd.at \in {"off", "up"}
  /\ sd' = BeginDetect
  /\ trial' = [trial EXCEPT !.calm = card # NoCard]
  /\ UNCHANGED card

\* CMD0 has no response: the driver goes on whatever the card heard.
go_idle_state ==
  /\ sd.at = "CMD0"
  /\ \E ok \in BOOLEAN, c \in {card, Obeyed("CMD0")} : Exchange("CMD0", ok, c) /\ card' = c
  /\ sd' = [sd EXCEPT !.at = "CMD8"]

\* The version a card before this one left is kept when CMD8 goes unanswered.
sd_send_if_cond ==
  /\ sd.at = "CMD8"
  /\ \E ok \in BOOLEAN, c \in {card, Obeyed("CMD8")} :
       /\ Exchange("CMD8", ok, c)
       /\ card' = c
       /\ sd' = [sd EXCEPT !.version = IF ok THEN "sd2" ELSE @,
                           !.at = "CMD55", !.retries = Retries, !.silent = 0, !.rca = 0]

\* The end of a turn of the loop: while(retries--).
NextTry(s) ==
  IF s.retries > 0 THEN [s EXCEPT !.at = "CMD55", !.retries = @ - 1]
                   ELSE [s EXCEPT !.at = "CMD1", !.retries = @ - 1]

\* Out of the loop by break; tries that ran out are looked for once more.
OutOfLoop(s, ocrHcs) ==
  IF s.retries <= 0 THEN [s EXCEPT !.at = "CMD1"]
  ELSE [s EXCEPT !.at = "CMD2", !.hc = ocrHcs, !.rca = 0,
                 !.version = IF @ = "sd2" THEN @ ELSE "sd1"]

op_cond_app_cmd ==
  /\ sd.at = "CMD55"
  /\ \E ok \in BOOLEAN, c \in {card, Obeyed("CMD55")} :
       /\ Exchange("CMD55", ok, c)
       /\ card' = c
       /\ sd' = IF ok THEN [sd EXCEPT !.at = "ACMD41", !.silent = 0]
                ELSE IF sd.silent + 1 >= SilentMax THEN [sd EXCEPT !.at = "CMD1"]
                ELSE NextTry([sd EXCEPT !.silent = @ + 1])

\* An ACMD41 without an answer ends the loop as a ready card does, and what is then taken for
\* the OCR is the response CMD55 left, which has no HCS bit.
sd_send_op_cond ==
  /\ sd.at = "ACMD41"
  /\ \E ok \in BOOLEAN, c \in {card, Obeyed("ACMD41")} :
       /\ Exchange("ACMD41", ok, c)
       /\ card' = c
       /\ sd' = CASE ~ok -> OutOfLoop(sd, FALSE)
                  [] ok /\ c.state = "ready" -> OutOfLoop(sd, HighCapacity(c))
                  [] OTHER -> NextTry(sd)

\* mmc_send_op_cond: the card hears CMD0, and an SD card does not answer CMD1.
mmc_send_op_cond ==
  /\ sd.at = "CMD1"
  /\ card' = IF card = NoCard THEN card ELSE Idle(card.kind)
  /\ sd' = DetectFails(sd)
  /\ UNCHANGED trial

To(s, at) == [s EXCEPT !.at = at]
Up(s) == [s EXCEPT !.at = "up", !.status = "ok"]

\* The bus becomes four bits wide once ACMD6 was answered.
Widened_Skipped(s) == To(s, "CMD16")
Widened(s) == [To(s, "CMD16") EXCEPT !.width = 4]

Identify ==
  \/ DetectStep("CMD2", "CMD2", LAMBDA s : To(s, "CMD3"))
  \/ DetectStep("CMD3", "CMD3", LAMBDA s : [To(s, "CMD9") EXCEPT !.rca = 1])
  \/ DetectStep("CMD9", "CMD9", LAMBDA s : To(s, "CMD7"))
  \/ DetectStep("CMD7", "CMD7", LAMBDA s : To(s, "CMD13"))

Configure ==
  \/ DetectStep("CMD13", "CMD13", LAMBDA s : To(s, "APP6"))
  \/ DetectStep("APP6", "CMD55", LAMBDA s : To(s, "ACMD6"))
  \/ DetectStep("ACMD6", "ACMD6", Widened)
  \/ DetectStep("CMD16", "CMD16", Up)

-----------------------------------------------------------------------------
(* mmc_read_blocks and mmc_write_blocks *)

\* A sector goes out as it is or as a byte address.
Touched == IF sd.hc = HighCapacity(card) THEN "asked" ELSE "elsewhere"

\* A failed transfer leaves the card where it is, and diskio's status as it is.
Transfer(dir) ==
  /\ sd.at = "up"
  /\ \/ \* the command fails
        \E c \in {card, Obeyed(dir)} : Exchange(dir, FALSE, c) /\ card' = c
     \/ \* the data is transferred and the status says so
        /\ Legal(dir) /\ sd.width = card.width /\ sd.rca = card.rca
        /\ trial' = [trial EXCEPT !.touched = Touched]
        /\ UNCHANGED card
     \/ \* the data phase breaks off: a timeout, or a bus that is not as wide
        /\ Legal(dir) /\ sd.width = card.width => trial.losses < MaxLosses
        /\ Legal(dir)
        /\ trial' = [trial EXCEPT !.losses = @ + (IF sd.width = card.width THEN 1 ELSE 0)]
        /\ card' \in {card, Obeyed(dir)}
  /\ UNCHANGED sd

CardPulled ==
  /\ card # NoCard
  /\ card' = NoCard
  /\ trial' = [trial EXCEPT !.calm = FALSE]
  /\ UNCHANGED sd

CardInserted(kind) ==
  /\ card = NoCard /\ trial.swaps < MaxSwaps
  /\ card' = Idle(kind)
  /\ trial' = [trial EXCEPT !.swaps = @ + 1, !.calm = FALSE]
  /\ UNCHANGED sd

SdNext ==
  \/ disk_initialize \/ go_idle_state \/ sd_send_if_cond
  \/ op_cond_app_cmd \/ sd_send_op_cond \/ mmc_send_op_cond
  \/ Identify \/ Configure
  \/ \E dir \in {"read", "write"} : Transfer(dir)
  \/ CardPulled \/ \E kind \in Kinds : CardInserted(kind)

SdSpec == SdInit /\ [][SdNext]_sdVars

-----------------------------------------------------------------------------

SdTypeOK ==
  /\ sd.width \in {1, 4} /\ sd.rca \in {0, 1} /\ card.rca \in {0, 1}
  /\ sd.retries \in -1..Retries /\ sd.silent \in 0..SilentMax
  /\ sd.at = "up" => sd.status = "ok"

\* A card that was detected in peace is selected, and both sides of the bus agree.
DetectedAgrees ==
  sd.at = "up" /\ trial.calm /\ card.state \notin {"none", "data", "rcv"} =>
    card.state = "tran" /\ sd.width = card.width /\ sd.rca = card.rca
      /\ sd.hc = HighCapacity(card)

\* Whatever a failed transfer, a lost exchange or another card left behind, a detect with the
\* card in the slot and no further loss succeeds.
RedetectRecovers ==
  [][sd.at # "off" /\ sd'.at = "off" => ~trial'.calm]_sdVars

\* A transfer that is reported as done went to the sector that was asked for.
SectorsAsAsked == trial.touched = "asked"
=============================================================================

---------------------------- MODULE SdCardProofs ----------------------------
(***************************************************************************)
(* Theorems about SdCard, for every set of cards and every pattern of lost *)
(* exchanges: what a detect finds out is what the card knows, and a detect *)
(* that nothing disturbs succeeds.                                         *)
(***************************************************************************)
EXTENDS SdCard, TLAPS

(* The detect asks more often than a card is busy. *)
Patient == Retries > MaxBusy

Places == {"off", "CMD0", "CMD8", "CMD55", "ACMD41", "CMD1", "CMD2", "CMD3", "CMD9", "CMD7",
           "CMD13", "APP6", "ACMD6", "CMD16", "up"}

SdRecords ==
  [at : Places, version : {"none", "sd1", "sd2"}, hc : BOOLEAN, rca : {0, 1}, width : {1, 4},
   retries : -1..Retries, silent : 0..SilentMax, status : {"noinit", "ok"}]

CardRecords ==
  [kind : Kinds \cup {"none"},
   state : {"none", "idle", "ready", "ident", "stby", "tran", "data", "rcv"},
   width : {1, 4}, rca : {0, 1}, busy : 0..MaxBusy, app : BOOLEAN]

TrialRecords ==
  [losses : Nat, swaps : Nat, calm : BOOLEAN, touched : {"asked", "elsewhere"}]

Types == sd \in SdRecords /\ card \in CardRecords /\ trial \in TrialRecords

(***************************************************************************)
(* What a detect that nothing disturbs has made of the card by the time it *)
(* sends each command.  Both sides count: the driver must not run out of   *)
(* tries before the card is ready.                                         *)
(***************************************************************************)
Narrow(s, c) == s.width = 1 /\ c.width = 1
Fresh(s, c) == c.state = "idle" /\ c.rca = 0 /\ Narrow(s, c)
Understood(s, c) == HighCapacity(c) => s.version = "sd2"
Polling(s, c) == Fresh(s, c) /\ s.rca = 0 /\ Understood(s, c) /\ s.retries > c.busy
Chosen(s, c) == s.rca = c.rca /\ s.hc = HighCapacity(c)

Expected(s, c) ==
  /\ s.at = "off" => c = NoCard
  /\ s.at # "off" => c.kind # "none" /\ c.state # "none"
  /\ s.at = "CMD0" => s.width = 1
  /\ s.at = "CMD8" => Fresh(s, c) /\ c.busy = MaxBusy
  /\ s.at \in {"CMD55", "ACMD41"} => Polling(s, c)
  /\ s.at \in {"ACMD41", "ACMD6"} => c.app
  /\ s.at # "CMD1"
  /\ s.at \in {"CMD2", "CMD3"} => Narrow(s, c) /\ s.hc = HighCapacity(c)
  /\ s.at \in {"CMD9", "CMD7", "CMD13", "APP6", "ACMD6"} => Narrow(s, c) /\ Chosen(s, c)
  /\ s.at \in {"CMD16", "up"} => s.width = c.width /\ Chosen(s, c)
  /\ s.at = "CMD2" => c.state = "ready"
  /\ s.at = "CMD3" => c.state = "ident"
  /\ s.at \in {"CMD9", "CMD7"} => c.state = "stby"
  /\ s.at \in {"CMD13", "APP6", "ACMD6", "CMD16"} => c.state = "tran"
  /\ s.at = "up" => c.state \in {"tran", "data", "rcv"}

InCalm == trial.calm => Expected(sd, card)

(* A slot without a card has no card's state. *)
Present(c) == c.kind = "none" \/ c.state = "none" => c = NoCard

(* Inside the loop a try is left, the one that is running. *)
Trying(s) == s.at \in {"CMD55", "ACMD41"} => s.retries >= 0

SdInv ==
  Types /\ InCalm /\ Present(card) /\ Trying(sd) /\ (sd.at = "up" => sd.status = "ok")

LEMMA SdInitInv == SdInit => SdInv
BY SdConstants DEF SdInit, SdInv, Types, SdRecords, CardRecords, TrialRecords, Places, InCalm,
     Expected, Present, NoCard, Trying

-----------------------------------------------------------------------------
(* The card's side of an exchange *)

LEMMA KindsAre == "none" \notin Kinds /\ 0 \in 0..MaxBusy /\ MaxBusy \in Nat
BY SdConstants

LEMMA IdleIs ==
  \A k \in Kinds \cup {"none"} :
    /\ Idle(k) \in CardRecords /\ Idle(k).kind = k /\ Idle(k).state = "idle"
    /\ Idle(k).rca = 0 /\ Idle(k).width = 1 /\ Idle(k).busy = MaxBusy /\ Idle(k) # NoCard
BY SdConstants DEF Idle, CardRecords, NoCard

LEMMA OpCondIs ==
  ASSUME card \in CardRecords
  PROVE  /\ OpCond \in CardRecords /\ OpCond.kind = card.kind /\ OpCond.width = card.width
         /\ OpCond.rca = card.rca /\ OpCond.state \in {card.state, "ready"}
         /\ OpCond.state # "ready" /\ Understood(sd, card) =>
              OpCond.busy < card.busy /\ OpCond.state = card.state
<1>1. card.busy \in Nat /\ card.busy \in 0..MaxBusy /\ (card.busy > 0 => card.busy - 1 \in 0..MaxBusy)
  BY KindsAre DEF CardRecords
<1> DEFINE waiting == [card EXCEPT !.busy = card.busy - 1]
           ready   == [card EXCEPT !.state = "ready"]
<1>2. CASE card.busy > 0 /\ Understood(sd, card)
  <2>1. OpCond = waiting
    BY <1>2 DEF OpCond, Understood
  <2> QED BY <2>1, <1>1, <1>2 DEF CardRecords
<1>3. CASE ~(card.busy > 0) /\ Understood(sd, card)
  <2>1. OpCond = ready
    BY <1>3 DEF OpCond, Understood
  <2> QED BY <2>1 DEF CardRecords
<1>4. CASE ~Understood(sd, card)
  <2>1. OpCond = card
    BY <1>4 DEF OpCond, Understood
  <2> QED BY <2>1, <1>4
<1> QED BY <1>2, <1>3, <1>4

(* What a command leaves of the card. *)
Heard(cmd) == [card EXCEPT !.app = (cmd = "CMD55")]

LEMMA ObeyedDoes ==
  /\ Obeyed("CMD0") = Idle(card.kind)
  /\ Obeyed("ACMD41") = [OpCond EXCEPT !.app = FALSE]
  /\ Obeyed("CMD2") = [Heard("CMD2") EXCEPT !.state = "ident"]
  /\ Obeyed("CMD3") = [Heard("CMD3") EXCEPT !.state = "stby", !.rca = 1]
  /\ Obeyed("CMD7") = [Heard("CMD7") EXCEPT !.state = "tran"]
  /\ Obeyed("ACMD6") = [Heard("ACMD6") EXCEPT !.width = 4]
  /\ Obeyed("read") = [Heard("read") EXCEPT !.state = "data"]
  /\ Obeyed("write") = [Heard("write") EXCEPT !.state = "rcv"]
  /\ \A cmd : cmd \notin {"CMD0", "ACMD41", "CMD2", "CMD3", "CMD7", "ACMD6", "read", "write"} =>
       Obeyed(cmd) = Heard(cmd)
<1> HIDE DEF Heard, OpCond, Idle
<1>1. \A cmd : cmd \notin {"CMD0", "ACMD41", "CMD2", "CMD3", "CMD7", "ACMD6", "read", "write"} =>
        Obeyed(cmd) = Heard(cmd)
  BY Zenon DEF Obeyed, Heard
<1> QED BY <1>1 DEF Obeyed, Heard

LEMMA ObeyedIs ==
  ASSUME card \in CardRecords, NEW cmd
  PROVE  /\ Obeyed(cmd) \in CardRecords /\ Obeyed(cmd).kind = card.kind
         /\ card.state # "none" => Obeyed(cmd).state # "none"
<1>1. Heard(cmd) \in CardRecords /\ Heard(cmd).kind = card.kind /\ Heard(cmd).state = card.state
  BY DEF CardRecords, Heard
<1>2. CASE cmd = "CMD0"
  BY <1>2, ObeyedDoes, IdleIs DEF CardRecords
<1>3. CASE cmd = "ACMD41"
  BY <1>3, ObeyedDoes, OpCondIs DEF CardRecords
<1>4. CASE cmd \in {"CMD2", "CMD3", "CMD7", "ACMD6", "read", "write"}
  <2>1. \A st \in {"ident", "stby", "tran", "data", "rcv"} :
          [Heard(cmd) EXCEPT !.state = st] \in CardRecords
            /\ [Heard(cmd) EXCEPT !.state = st].kind = card.kind
            /\ [Heard(cmd) EXCEPT !.state = st].state # "none"
    BY <1>1 DEF CardRecords
  <2>2. /\ [Heard(cmd) EXCEPT !.state = "stby", !.rca = 1] \in CardRecords
        /\ [Heard(cmd) EXCEPT !.state = "stby", !.rca = 1].kind = card.kind
        /\ [Heard(cmd) EXCEPT !.state = "stby", !.rca = 1].state = "stby"
        /\ [Heard(cmd) EXCEPT !.width = 4] \in CardRecords
        /\ [Heard(cmd) EXCEPT !.width = 4].kind = card.kind
        /\ [Heard(cmd) EXCEPT !.width = 4].state = card.state
    BY <1>1 DEF CardRecords
  <2>3. CASE cmd = "CMD2" \/ cmd = "CMD7" \/ cmd = "read" \/ cmd = "write"
    <3>1. PICK st \in {"ident", "stby", "tran", "data", "rcv"} :
            Obeyed(cmd) = [Heard(cmd) EXCEPT !.state = st]
      BY Zenon, <2>3, ObeyedDoes
    <3> QED BY Zenon, <3>1, <2>1
  <2>4. CASE cmd = "CMD3"
    BY Zenon, <2>2, <2>4, ObeyedDoes
  <2>5. CASE cmd = "ACMD6"
    BY Zenon, <2>2, <2>5, ObeyedDoes
  <2> QED BY Zenon, <2>3, <2>4, <2>5, <1>4
<1>5. CASE cmd \notin {"CMD0", "ACMD41", "CMD2", "CMD3", "CMD7", "ACMD6", "read", "write"}
  BY <1>1, <1>5, ObeyedDoes
<1> QED BY <1>2, <1>3, <1>4, <1>5

LEMMA LegalNeedsCard ==
  ASSUME NEW cmd, Legal(cmd)
  PROVE  card.state # "none"
<1>1. \/ cmd = "CMD0" /\ card.state # "none"
      \/ card.state \in {"idle", "stby", "tran", "data", "rcv", "ready", "ident"}
  BY SMT DEF Legal
<1> QED BY <1>1

LEMMA LegalIs ==
  /\ Legal("CMD0") <=> card.state # "none"
  /\ Legal("CMD8") <=> card.state = "idle" /\ card.kind # "sd1"
  /\ Legal("CMD55") <=> card.state \in {"idle", "stby", "tran", "data", "rcv"} /\ sd.rca = card.rca
  /\ Legal("ACMD41") <=> card.state = "idle" /\ card.app
  /\ Legal("CMD2") <=> card.state = "ready"
  /\ Legal("CMD3") <=> card.state \in {"ident", "stby"}
  /\ Legal("CMD9") <=> card.state = "stby" /\ sd.rca = card.rca
  /\ Legal("CMD7") <=> card.state = "stby" /\ sd.rca = card.rca
  /\ Legal("CMD13") <=> card.state \in {"stby", "tran", "data", "rcv"} /\ sd.rca = card.rca
  /\ Legal("ACMD6") <=> card.state = "tran" /\ card.app
  /\ \A cmd \in {"CMD16", "read", "write"} : Legal(cmd) <=> card.state = "tran"
BY Zenon DEF Legal

(* An exchange that leaves the calm undisturbed goes as the card would have it. *)
LEMMA ExchangeIs ==
  ASSUME Types, Present(card), NEW cmd, NEW ok \in BOOLEAN, NEW c, Exchange(cmd, ok, c)
  PROVE  /\ c \in CardRecords /\ c.kind = card.kind /\ Present(c)
         /\ trial' \in TrialRecords
         /\ trial'.calm => trial.calm /\ ok = Legal(cmd)
                           /\ c = IF ok THEN Obeyed(cmd) ELSE card
<1>1. card \in CardRecords /\ trial \in TrialRecords /\ trial.losses \in Nat
  BY DEF Types, TrialRecords
<1>2. c = card \/ (Legal(cmd) /\ c = Obeyed(cmd))
  BY Zenon DEF Exchange
<1>3. \/ trial' = trial /\ ok = Legal(cmd) /\ c = IF ok THEN Obeyed(cmd) ELSE card
      \/ trial' = [trial EXCEPT !.losses = @ + 1, !.calm = FALSE]
  BY Zenon DEF Exchange
<1>4. trial' \in TrialRecords
  <2>1. trial.losses + 1 \in Nat
    BY <1>1
  <2>2. [trial EXCEPT !.losses = @ + 1, !.calm = FALSE] \in TrialRecords
    BY <1>1, <2>1 DEF TrialRecords
  <2> QED BY <1>1, <1>3, <2>2
<1>5. trial'.calm => trial.calm /\ ok = Legal(cmd) /\ c = IF ok THEN Obeyed(cmd) ELSE card
  BY <1>1, <1>3 DEF TrialRecords
<1>6. c \in CardRecords /\ c.kind = card.kind
  BY <1>1, <1>2, ObeyedIs
<1>7. Present(c)
  <2>1. Legal(cmd) => card.kind # "none" /\ card.state # "none"
    BY LegalNeedsCard DEF Present, NoCard
  <2> QED BY <2>1, <1>1, <1>2, ObeyedIs DEF Present
<1> QED BY <1>4, <1>5, <1>6, <1>7

-----------------------------------------------------------------------------
(* The steps *)

LEMMA SdFacts ==
  ASSUME SdInv
  PROVE  /\ Types /\ sd \in SdRecords /\ card \in CardRecords /\ trial \in TrialRecords
         /\ trial.calm \in BOOLEAN
         /\ sd.at \in Places /\ sd.retries \in Int /\ sd.silent \in Nat
         /\ trial.calm => Expected(sd, card)
         /\ Present(card) /\ Trying(sd)
BY SdConstants DEF SdInv, Types, InCalm, SdRecords, TrialRecords

LEMMA BeginStep == ASSUME SdInv, disk_initialize PROVE SdInv'
<1>1. sd' = [sd EXCEPT !.at = "CMD0", !.width = 1] /\ card' = card
      /\ trial' = [trial EXCEPT !.calm = card # NoCard]
  BY DEF disk_initialize, BeginDetect
<1>2. sd' \in SdRecords /\ sd'.at = "CMD0" /\ sd'.width = 1
  BY <1>1, SdFacts DEF SdRecords, Places
<1>3. trial' \in TrialRecords /\ trial'.calm = (card # NoCard)
  BY <1>1, SdFacts DEF TrialRecords
<1>4. trial'.calm => Expected(sd', card')
  BY <1>1, <1>2, <1>3, SdFacts DEF Expected, Present
<1> QED BY <1>1, <1>2, <1>3, <1>4, SdFacts DEF SdInv, Types, InCalm, Trying

LEMMA IdleStep == ASSUME SdInv, go_idle_state PROVE SdInv'
<1>1. sd.at = "CMD0" /\ sd' = [sd EXCEPT !.at = "CMD8"]
  BY DEF go_idle_state
<1>2. PICK ok \in BOOLEAN : Exchange("CMD0", ok, card')
  BY DEF go_idle_state
<1>3. /\ card' \in CardRecords /\ card'.kind = card.kind /\ Present(card')
      /\ trial' \in TrialRecords
      /\ trial'.calm => trial.calm /\ ok = Legal("CMD0")
                        /\ card' = IF ok THEN Obeyed("CMD0") ELSE card
  BY <1>2, ExchangeIs, SdFacts
<1>4. sd' \in SdRecords /\ sd'.at = "CMD8" /\ sd'.width = sd.width
  BY <1>1, SdFacts DEF SdRecords, Places
<1>5. trial'.calm => Expected(sd', card')
  <2> SUFFICES ASSUME trial'.calm PROVE Expected(sd', card')
    OBVIOUS
  <2>1. Legal("CMD0")
    BY <1>1, <1>3, SdFacts DEF Expected, Legal
  <2>2. card' = Idle(card.kind)
    BY <1>3, <2>1, ObeyedDoes
  <2>3. sd.width = 1
    BY <1>1, <1>3, SdFacts DEF Expected
  <2> QED BY <1>1, <1>3, <1>4, <2>2, <2>3, IdleIs, SdFacts
          DEF Expected, Fresh, Narrow, CardRecords
<1> QED BY <1>3, <1>4, <1>5 DEF SdInv, Types, InCalm, Trying

LEMMA IfCondStep == ASSUME Patient, SdInv, sd_send_if_cond PROVE SdInv'
<1>1. PICK ok \in BOOLEAN :
        /\ Exchange("CMD8", ok, card')
        /\ sd' = [sd EXCEPT !.version = IF ok THEN "sd2" ELSE @,
                            !.at = "CMD55", !.retries = Retries, !.silent = 0, !.rca = 0]
  BY DEF sd_send_if_cond
<1>2. sd.at = "CMD8"
  BY DEF sd_send_if_cond
<1>3. /\ card' \in CardRecords /\ card'.kind = card.kind /\ Present(card')
      /\ trial' \in TrialRecords
      /\ trial'.calm => trial.calm /\ ok = Legal("CMD8")
                        /\ card' = IF ok THEN Obeyed("CMD8") ELSE card
  BY <1>1, ExchangeIs, SdFacts
<1>4. /\ Retries \in Nat /\ Retries \in -1..Retries /\ 0 \in 0..SilentMax /\ Retries >= 0
  BY SdConstants
<1>5. /\ sd' \in SdRecords /\ sd'.at = "CMD55" /\ sd'.retries = Retries
      /\ sd'.rca = 0 /\ sd'.width = sd.width
      /\ ok => sd'.version = "sd2"
  BY <1>1, <1>4, SdFacts DEF SdRecords, Places
<1>6. trial'.calm => Expected(sd', card')
  <2> SUFFICES ASSUME trial'.calm PROVE Expected(sd', card')
    OBVIOUS
  <2>1. Fresh(sd, card) /\ card.busy = MaxBusy /\ card.kind # "none" /\ card.state # "none"
    BY <1>2, <1>3, SdFacts DEF Expected
  <2>2. ok <=> card.kind # "sd1"
    BY <1>3, <2>1, LegalIs DEF Fresh
  <2>3. card' = card \/ card' = Heard("CMD8")
    BY <1>3, ObeyedDoes
  <2>4. /\ Fresh(sd, card') /\ card'.busy = MaxBusy /\ card'.kind # "none"
        /\ card'.state # "none"
    BY <2>1, <2>3, SdFacts DEF Fresh, Narrow, Heard, CardRecords
  <2>5. Understood(sd', card')
    BY <1>3, <1>5, <2>2 DEF Understood, HighCapacity
  <2>6. Retries > card'.busy
    BY <2>4 DEF Patient
  <2> QED BY <1>5, <2>4, <2>5, <2>6 DEF Expected, Polling, Fresh, Narrow
<1> QED BY <1>3, <1>4, <1>5, <1>6 DEF SdInv, Types, InCalm, Trying

(* A try that is followed by another one. *)
LEMMA NextTryIs ==
  ASSUME NEW s \in SdRecords, s.retries >= 0
  PROVE  /\ NextTry(s) \in SdRecords /\ NextTry(s).at \in {"CMD55", "CMD1"}
         /\ NextTry(s).at = "CMD55" <=> s.retries > 0
         /\ NextTry(s).retries = s.retries - 1
         /\ NextTry(s).rca = s.rca /\ NextTry(s).width = s.width
         /\ NextTry(s).version = s.version
<1>1. s.retries \in -1..Retries /\ Retries \in Nat
  BY SdConstants DEF SdRecords
<1>2. s.retries - 1 \in -1..Retries
  BY <1>1
<1>3. CASE s.retries > 0
  BY <1>2, <1>3 DEF NextTry, SdRecords, Places
<1>4. CASE ~(s.retries > 0)
  BY <1>2, <1>4 DEF NextTry, SdRecords, Places
<1> QED BY <1>3, <1>4

LEMMA AppStep == ASSUME SdInv, op_cond_app_cmd PROVE SdInv'
<1> DEFINE asks    == [sd EXCEPT !.at = "ACMD41", !.silent = 0]
           gives   == [sd EXCEPT !.at = "CMD1"]
           quieter == [sd EXCEPT !.silent = sd.silent + 1]
<1>1. PICK ok \in BOOLEAN :
        /\ Exchange("CMD55", ok, card')
        /\ sd' = IF ok THEN asks ELSE IF sd.silent + 1 >= SilentMax THEN gives
                                     ELSE NextTry(quieter)
  BY DEF op_cond_app_cmd
<1>2. sd.at = "CMD55" /\ sd.retries >= 0
  BY SdFacts DEF op_cond_app_cmd, Trying
<1>3. /\ card' \in CardRecords /\ card'.kind = card.kind /\ Present(card')
      /\ trial' \in TrialRecords
      /\ trial'.calm => trial.calm /\ ok = Legal("CMD55")
                        /\ card' = IF ok THEN Obeyed("CMD55") ELSE card
  BY <1>1, ExchangeIs, SdFacts
<1>4. sd' \in SdRecords /\ Trying(sd') /\ sd'.at # "up"
  <2>1. 0 \in 0..SilentMax /\ SilentMax \in Nat
    BY SdConstants
  <2>2. asks \in SdRecords /\ asks.retries >= 0 /\ asks.at = "ACMD41"
    BY <1>2, <2>1, SdFacts DEF SdRecords, Places
  <2>3. gives \in SdRecords /\ gives.at = "CMD1"
    BY SdFacts DEF SdRecords, Places
  <2>4. ASSUME ~(sd.silent + 1 >= SilentMax)
        PROVE  NextTry(quieter) \in SdRecords /\ Trying(NextTry(quieter))
               /\ NextTry(quieter).at # "up"
    <3>1. sd.silent + 1 \in 0..SilentMax
      BY <2>1, <2>4, SdFacts
    <3>2. quieter \in SdRecords /\ quieter.retries = sd.retries
      BY <3>1, SdFacts DEF SdRecords
    <3> HIDE DEF quieter
    <3>3. quieter.retries > 0 => quieter.retries - 1 >= 0
      BY <3>2, SdFacts
    <3> QED BY <1>2, <3>2, <3>3, NextTryIs DEF Trying
  <2> HIDE DEF asks, gives, quieter
  <2> QED BY <1>1, <2>2, <2>3, <2>4 DEF Trying
<1>5. trial'.calm => Expected(sd', card')
  <2> SUFFICES ASSUME trial'.calm PROVE Expected(sd', card')
    OBVIOUS
  <2>1. Polling(sd, card) /\ card.kind # "none"
    BY <1>2, <1>3, SdFacts DEF Expected
  <2>2. ok
    BY <1>3, <2>1, LegalIs DEF Polling, Fresh
  <2>3. sd' = asks /\ card' = Heard("CMD55")
    BY <1>1, <1>3, <2>2, ObeyedDoes
  <2>4. /\ card'.state = card.state /\ card'.rca = card.rca /\ card'.width = card.width
        /\ card'.busy = card.busy /\ card'.app
    BY <2>3, SdFacts DEF Heard, CardRecords
  <2>5. /\ sd'.at = "ACMD41" /\ sd'.retries = sd.retries /\ sd'.rca = sd.rca
        /\ sd'.width = sd.width /\ sd'.version = sd.version
    BY <2>3, SdFacts DEF SdRecords
  <2>6. Polling(sd', card') /\ card'.state = "idle"
    BY <1>3, <2>1, <2>4, <2>5 DEF Polling, Fresh, Narrow, Understood, HighCapacity
  <2> QED BY <1>3, <2>1, <2>4, <2>5, <2>6 DEF Expected
<1> QED BY <1>3, <1>4, <1>5 DEF SdInv, Types, InCalm

LEMMA OutOfLoopIs ==
  ASSUME NEW s \in SdRecords, NEW h \in BOOLEAN
  PROVE  /\ OutOfLoop(s, h) \in SdRecords /\ OutOfLoop(s, h).at \in {"CMD1", "CMD2"}
         /\ s.retries > 0 => /\ OutOfLoop(s, h).at = "CMD2" /\ OutOfLoop(s, h).hc = h
                             /\ OutOfLoop(s, h).width = s.width
<1> DEFINE version == IF s.version = "sd2" THEN s.version ELSE "sd1"
           out     == [s EXCEPT !.at = "CMD2", !.hc = h, !.rca = 0, !.version = version]
<1>1. version \in {"none", "sd1", "sd2"}
  BY DEF SdRecords
<1>2. s.retries \in Int
  BY SdConstants DEF SdRecords
<1> HIDE DEF version
<1>3. out \in SdRecords /\ out.at = "CMD2" /\ out.hc = h /\ out.width = s.width
  BY <1>1 DEF SdRecords, Places
<1>4. CASE s.retries <= 0
  BY <1>2, <1>4 DEF OutOfLoop, SdRecords, Places
<1>5. CASE ~(s.retries <= 0)
  <2>1. OutOfLoop(s, h) = out
    BY <1>5 DEF OutOfLoop, version
  <2> HIDE DEF out
  <2> QED BY <1>3, <2>1
<1> QED BY <1>4, <1>5

LEMMA OpCondStep == ASSUME SdInv, sd_send_op_cond PROVE SdInv'
<1>1. PICK ok \in BOOLEAN :
        /\ Exchange("ACMD41", ok, card')
        /\ sd' = CASE ~ok -> OutOfLoop(sd, FALSE)
                   [] ok /\ card'.state = "ready" -> OutOfLoop(sd, HighCapacity(card'))
                   [] OTHER -> NextTry(sd)
  BY DEF sd_send_op_cond
<1>2. sd.at = "ACMD41" /\ sd.retries >= 0
  BY SdFacts DEF sd_send_op_cond, Trying
<1>3. /\ card' \in CardRecords /\ card'.kind = card.kind /\ Present(card')
      /\ trial' \in TrialRecords
      /\ trial'.calm => trial.calm /\ ok = Legal("ACMD41")
                        /\ card' = IF ok THEN Obeyed("ACMD41") ELSE card
  BY <1>1, ExchangeIs, SdFacts
<1>4. /\ ok /\ card'.state = "ready" => sd' = OutOfLoop(sd, HighCapacity(card'))
      /\ ok /\ card'.state # "ready" => sd' = NextTry(sd)
      /\ sd' \in {NextTry(sd), OutOfLoop(sd, FALSE), OutOfLoop(sd, TRUE)}
  <2> HIDE DEF NextTry, OutOfLoop
  <2>1. HighCapacity(card') \in BOOLEAN
    BY DEF HighCapacity
  <2> QED BY Zenon, <1>1, <2>1
<1>5. \A h \in BOOLEAN :
        /\ OutOfLoop(sd, h) \in SdRecords /\ OutOfLoop(sd, h).at \in {"CMD1", "CMD2"}
        /\ sd.retries > 0 => /\ OutOfLoop(sd, h).at = "CMD2" /\ OutOfLoop(sd, h).hc = h
                             /\ OutOfLoop(sd, h).width = sd.width
  BY SdFacts, OutOfLoopIs
<1>6. /\ NextTry(sd) \in SdRecords /\ NextTry(sd).at # "up" /\ Trying(NextTry(sd))
  <2>1. sd.retries > 0 => sd.retries - 1 >= 0
    BY SdFacts
  <2>2. NextTry(sd).at # "ACMD41" /\ NextTry(sd).at # "up"
    BY <1>2, SdFacts, NextTryIs
  <2> QED BY <1>2, <2>1, <2>2, SdFacts, NextTryIs DEF Trying
<1>7. sd' \in SdRecords /\ sd'.at # "up" /\ Trying(sd')
  <2>1. \A h \in BOOLEAN : Trying(OutOfLoop(sd, h)) /\ OutOfLoop(sd, h).at # "up"
    BY <1>5 DEF Trying
  <2> HIDE DEF NextTry, OutOfLoop, Trying
  <2> QED BY Zenon, <1>4, <1>5, <1>6, <2>1
<1>8. trial'.calm => Expected(sd', card')
  <2> SUFFICES ASSUME trial'.calm PROVE Expected(sd', card')
    OBVIOUS
  <2>1. Polling(sd, card) /\ card.app /\ card.kind # "none" /\ card.state # "none"
    BY <1>2, <1>3, SdFacts DEF Expected
  <2>2. ok
    BY <1>3, <2>1, LegalIs DEF Polling, Fresh
  <2>3. card' = [OpCond EXCEPT !.app = FALSE]
    BY <1>3, <2>2, ObeyedDoes
  <2>4. /\ OpCond \in CardRecords /\ OpCond.kind = card.kind /\ OpCond.width = card.width
        /\ OpCond.rca = card.rca /\ OpCond.state \in {card.state, "ready"}
        /\ OpCond.state # "ready" => OpCond.busy < card.busy /\ OpCond.state = card.state
    BY <2>1, SdFacts, OpCondIs DEF Polling
  <2>5. /\ card'.width = card.width /\ card'.rca = card.rca
        /\ card'.state \in {"idle", "ready"}
        /\ card'.state # "ready" => card'.busy < card.busy /\ card'.state = "idle"
    <3> HIDE DEF OpCond
    <3> QED BY <2>1, <2>3, <2>4 DEF CardRecords, Polling, Fresh
  <2>6. card.busy \in Nat /\ card'.busy \in Nat
    BY <1>3, SdFacts, KindsAre DEF CardRecords
  <2>7. sd.retries > card.busy /\ sd.retries > 0
    BY <2>1, <2>6, SdFacts DEF Polling
  <2>8. CASE card'.state = "ready"
    <3>1. sd'.at = "CMD2" /\ sd'.hc = HighCapacity(card') /\ sd'.width = sd.width
      <4>1. HighCapacity(card') \in BOOLEAN
        BY DEF HighCapacity
      <4> QED BY <1>4, <1>5, <2>2, <2>7, <2>8, <4>1
    <3>2. Narrow(sd', card')
      BY <2>1, <2>5, <3>1 DEF Narrow, Polling, Fresh
    <3> QED BY <1>3, <2>1, <2>8, <3>1, <3>2 DEF Expected
  <2>9. CASE card'.state # "ready"
    <3>1. /\ sd'.at = "CMD55" /\ sd'.retries = sd.retries - 1 /\ sd'.rca = sd.rca
          /\ sd'.width = sd.width /\ sd'.version = sd.version
      BY <1>2, <1>4, <2>2, <2>7, <2>9, SdFacts, NextTryIs
    <3>2. sd'.retries > card'.busy
      BY <2>5, <2>6, <2>7, <2>9, <3>1, SdFacts
    <3>3. Polling(sd', card')
      BY <1>3, <2>1, <2>5, <2>9, <3>1, <3>2 DEF Polling, Fresh, Narrow, Understood, HighCapacity
    <3> QED BY <1>3, <2>1, <2>5, <2>9, <3>1, <3>3 DEF Expected
  <2> QED BY <2>8, <2>9
<1> QED BY <1>3, <1>7, <1>8 DEF SdInv, Types, InCalm

LEMMA MmcStep == ASSUME SdInv, mmc_send_op_cond PROVE SdInv'
<1>1. /\ sd.at = "CMD1" /\ sd' = [sd EXCEPT !.at = "off", !.status = "noinit"]
      /\ trial' = trial /\ card' = IF card = NoCard THEN card ELSE Idle(card.kind)
  BY DEF mmc_send_op_cond, DetectFails
<1>2. ~trial.calm
  BY <1>1, SdFacts DEF Expected
<1>3. sd' \in SdRecords /\ sd'.at = "off"
  BY <1>1, SdFacts DEF SdRecords, Places
<1>4. card' \in CardRecords /\ Present(card')
  <2>1. card.kind \in Kinds \cup {"none"}
    BY SdFacts DEF CardRecords
  <2>2. card # NoCard => Present(Idle(card.kind))
    BY <2>1, IdleIs, SdFacts DEF Present
  <2> QED BY <1>1, <2>1, <2>2, IdleIs, SdFacts
<1> QED BY <1>1, <1>2, <1>3, <1>4, SdFacts DEF SdInv, Types, InCalm, Trying

(* A command that ends the detect when it goes unanswered. *)
LEMMA CommandStep ==
  ASSUME SdInv, NEW cmd, NEW ok \in BOOLEAN, Exchange(cmd, ok, card'), NEW done \in SdRecords,
         sd' = IF ok THEN done ELSE DetectFails(sd),
         done.at \notin {"CMD55", "ACMD41"}, done.at = "up" => done.status = "ok",
         trial.calm => Legal(cmd) /\ Expected(done, Obeyed(cmd))
  PROVE  SdInv'
<1>1. /\ card' \in CardRecords /\ Present(card') /\ trial' \in TrialRecords
      /\ trial'.calm => trial.calm /\ ok = Legal(cmd)
                        /\ card' = IF ok THEN Obeyed(cmd) ELSE card
  BY ExchangeIs, SdFacts
<1>2. DetectFails(sd) \in SdRecords /\ DetectFails(sd).at = "off"
  BY SdFacts DEF DetectFails, SdRecords, Places
<1>3. sd' \in SdRecords /\ Trying(sd') /\ (sd'.at = "up" => sd'.status = "ok")
  BY <1>2 DEF Trying
<1>4. trial'.calm => sd' = done /\ card' = Obeyed(cmd)
  BY <1>1
<1>5. trial'.calm => Expected(sd', card')
  BY <1>1, <1>4
<1> QED BY <1>1, <1>3, <1>5 DEF SdInv, Types, InCalm

(* Where the commands after the loop leave the card. *)
LEMMA ObeyedFields ==
  ASSUME card \in CardRecords
  PROVE  /\ \A cmd \in {"CMD2", "CMD3", "CMD9", "CMD7", "CMD13", "CMD55", "CMD16"} :
              Obeyed(cmd).width = card.width
         /\ Obeyed("ACMD6").width = 4
         /\ \A cmd \in {"CMD2", "CMD9", "CMD7", "CMD13", "CMD55", "ACMD6", "CMD16"} :
              Obeyed(cmd).rca = card.rca
         /\ Obeyed("CMD3").rca = 1
         /\ \A cmd \in {"CMD9", "CMD13", "CMD55", "ACMD6", "CMD16"} : Obeyed(cmd).state = card.state
         /\ Obeyed("CMD2").state = "ident" /\ Obeyed("CMD3").state = "stby"
         /\ Obeyed("CMD7").state = "tran"
         /\ Obeyed("CMD55").app
<1>1. \A cmd : /\ Heard(cmd) \in CardRecords /\ Heard(cmd).width = card.width
               /\ Heard(cmd).rca = card.rca /\ Heard(cmd).state = card.state
  BY DEF Heard, CardRecords
<1>2. Heard("CMD55").app
  BY DEF Heard, CardRecords
<1>3. /\ \A cmd \in {"CMD9", "CMD13", "CMD55", "CMD16"} : Obeyed(cmd) = Heard(cmd)
      /\ Obeyed("CMD2") = [Heard("CMD2") EXCEPT !.state = "ident"]
      /\ Obeyed("CMD3") = [Heard("CMD3") EXCEPT !.state = "stby", !.rca = 1]
      /\ Obeyed("CMD7") = [Heard("CMD7") EXCEPT !.state = "tran"]
      /\ Obeyed("ACMD6") = [Heard("ACMD6") EXCEPT !.width = 4]
  BY ObeyedDoes
<1> HIDE DEF Heard, Obeyed
<1>4. /\ Obeyed("CMD2").state = "ident" /\ Obeyed("CMD2").width = card.width
      /\ Obeyed("CMD2").rca = card.rca
  BY <1>1, <1>3 DEF CardRecords
<1>5. /\ Obeyed("CMD3").state = "stby" /\ Obeyed("CMD3").width = card.width
      /\ Obeyed("CMD3").rca = 1
  <2> DEFINE h == Heard("CMD3")
  <2>1. h \in CardRecords /\ h.width = card.width
    BY <1>1
  <2> HIDE DEF h
  <2>2. LET c == [h EXCEPT !.state = "stby", !.rca = 1]
        IN  c.state = "stby" /\ c.width = card.width /\ c.rca = 1
    BY <2>1 DEF CardRecords
  <2> QED BY <1>3, <2>2 DEF h
<1>6. /\ Obeyed("CMD7").state = "tran" /\ Obeyed("CMD7").width = card.width
      /\ Obeyed("CMD7").rca = card.rca
  BY <1>1, <1>3 DEF CardRecords
<1>7. /\ Obeyed("ACMD6").state = card.state /\ Obeyed("ACMD6").width = 4
      /\ Obeyed("ACMD6").rca = card.rca
  BY <1>1, <1>3 DEF CardRecords
<1> QED BY <1>1, <1>2, <1>3, <1>4, <1>5, <1>6, <1>7

LEMMA IdentifyStep == ASSUME SdInv, Identify PROVE SdInv'
<1> HIDE DEF Heard, Obeyed, Legal
<1>1. CASE DetectStep("CMD2", "CMD2", LAMBDA s : To(s, "CMD3"))
  <2> DEFINE done == To(sd, "CMD3")
  <2>1. PICK ok \in BOOLEAN : Exchange("CMD2", ok, card') /\ sd' = IF ok THEN done ELSE DetectFails(sd)
    BY <1>1 DEF DetectStep, To, Widened, Up
  <2>2. done \in SdRecords /\ done.at = "CMD3" /\ done.width = sd.width /\ done.rca = sd.rca /\ done.hc = sd.hc
    BY SdFacts DEF To, SdRecords, Places
  <2>3. sd.at = "CMD2"
    BY <1>1 DEF DetectStep
  <2> HIDE DEF done
  <2>4. trial.calm => Expected(sd, card) /\ card.kind # "none" /\ Legal("CMD2")
    BY <2>3, SdFacts, LegalIs DEF Expected, Chosen
  <2>5. trial.calm => Expected(done, Obeyed("CMD2"))
    BY <2>2, <2>3, <2>4, SdFacts, ObeyedFields, ObeyedIs DEF Expected, Narrow, Chosen, HighCapacity
  <2> QED BY <2>1, <2>2, <2>4, <2>5, CommandStep
<1>2. CASE DetectStep("CMD3", "CMD3", LAMBDA s : [To(s, "CMD9") EXCEPT !.rca = 1])
  <2> DEFINE done == [To(sd, "CMD9") EXCEPT !.rca = 1]
  <2>1. PICK ok \in BOOLEAN : Exchange("CMD3", ok, card') /\ sd' = IF ok THEN done ELSE DetectFails(sd)
    BY <1>2 DEF DetectStep, To, Widened, Up
  <2>2. done \in SdRecords /\ done.at = "CMD9" /\ done.width = sd.width /\ done.hc = sd.hc /\ done.rca = 1
    BY SdFacts DEF To, SdRecords, Places
  <2>3. sd.at = "CMD3"
    BY <1>2 DEF DetectStep
  <2> HIDE DEF done
  <2>4. trial.calm => Expected(sd, card) /\ card.kind # "none" /\ Legal("CMD3")
    BY <2>3, SdFacts, LegalIs DEF Expected, Chosen
  <2>5. trial.calm => Expected(done, Obeyed("CMD3"))
    BY <2>2, <2>3, <2>4, SdFacts, ObeyedFields, ObeyedIs DEF Expected, Narrow, Chosen, HighCapacity
  <2> QED BY <2>1, <2>2, <2>4, <2>5, CommandStep
<1>3. CASE DetectStep("CMD9", "CMD9", LAMBDA s : To(s, "CMD7"))
  <2> DEFINE done == To(sd, "CMD7")
  <2>1. PICK ok \in BOOLEAN : Exchange("CMD9", ok, card') /\ sd' = IF ok THEN done ELSE DetectFails(sd)
    BY <1>3 DEF DetectStep, To, Widened, Up
  <2>2. done \in SdRecords /\ done.at = "CMD7" /\ done.width = sd.width /\ done.rca = sd.rca /\ done.hc = sd.hc
    BY SdFacts DEF To, SdRecords, Places
  <2>3. sd.at = "CMD9"
    BY <1>3 DEF DetectStep
  <2> HIDE DEF done
  <2>4. trial.calm => Expected(sd, card) /\ card.kind # "none" /\ Legal("CMD9")
    BY <2>3, SdFacts, LegalIs DEF Expected, Chosen
  <2>5. trial.calm => Expected(done, Obeyed("CMD9"))
    BY <2>2, <2>3, <2>4, SdFacts, ObeyedFields, ObeyedIs DEF Expected, Narrow, Chosen, HighCapacity
  <2> QED BY <2>1, <2>2, <2>4, <2>5, CommandStep
<1>4. CASE DetectStep("CMD7", "CMD7", LAMBDA s : To(s, "CMD13"))
  <2> DEFINE done == To(sd, "CMD13")
  <2>1. PICK ok \in BOOLEAN : Exchange("CMD7", ok, card') /\ sd' = IF ok THEN done ELSE DetectFails(sd)
    BY <1>4 DEF DetectStep, To, Widened, Up
  <2>2. done \in SdRecords /\ done.at = "CMD13" /\ done.width = sd.width /\ done.rca = sd.rca /\ done.hc = sd.hc
    BY SdFacts DEF To, SdRecords, Places
  <2>3. sd.at = "CMD7"
    BY <1>4 DEF DetectStep
  <2> HIDE DEF done
  <2>4. trial.calm => Expected(sd, card) /\ card.kind # "none" /\ Legal("CMD7")
    BY <2>3, SdFacts, LegalIs DEF Expected, Chosen
  <2>5. trial.calm => Expected(done, Obeyed("CMD7"))
    BY <2>2, <2>3, <2>4, SdFacts, ObeyedFields, ObeyedIs DEF Expected, Narrow, Chosen, HighCapacity
  <2> QED BY <2>1, <2>2, <2>4, <2>5, CommandStep
<1> QED BY <1>1, <1>2, <1>3, <1>4 DEF Identify

LEMMA ConfigureStep == ASSUME SdInv, Configure PROVE SdInv'
<1> HIDE DEF Heard, Obeyed, Legal
<1>1. CASE DetectStep("CMD13", "CMD13", LAMBDA s : To(s, "APP6"))
  <2> DEFINE done == To(sd, "APP6")
  <2>1. PICK ok \in BOOLEAN : Exchange("CMD13", ok, card') /\ sd' = IF ok THEN done ELSE DetectFails(sd)
    BY <1>1 DEF DetectStep, To, Widened, Up
  <2>2. done \in SdRecords /\ done.at = "APP6" /\ done.width = sd.width /\ done.rca = sd.rca /\ done.hc = sd.hc
    BY SdFacts DEF To, SdRecords, Places
  <2>3. sd.at = "CMD13"
    BY <1>1 DEF DetectStep
  <2> HIDE DEF done
  <2>4. trial.calm => Expected(sd, card) /\ card.kind # "none" /\ Legal("CMD13")
    BY <2>3, SdFacts, LegalIs DEF Expected, Chosen
  <2>5. trial.calm => Expected(done, Obeyed("CMD13"))
    BY <2>2, <2>3, <2>4, SdFacts, ObeyedFields, ObeyedIs DEF Expected, Narrow, Chosen, HighCapacity
  <2> QED BY <2>1, <2>2, <2>4, <2>5, CommandStep
<1>2. CASE DetectStep("APP6", "CMD55", LAMBDA s : To(s, "ACMD6"))
  <2> DEFINE done == To(sd, "ACMD6")
  <2>1. PICK ok \in BOOLEAN : Exchange("CMD55", ok, card') /\ sd' = IF ok THEN done ELSE DetectFails(sd)
    BY <1>2 DEF DetectStep, To, Widened, Up
  <2>2. done \in SdRecords /\ done.at = "ACMD6" /\ done.width = sd.width /\ done.rca = sd.rca /\ done.hc = sd.hc
    BY SdFacts DEF To, SdRecords, Places
  <2>3. sd.at = "APP6"
    BY <1>2 DEF DetectStep
  <2> HIDE DEF done
  <2>4. trial.calm => Expected(sd, card) /\ card.kind # "none" /\ Legal("CMD55")
    BY <2>3, SdFacts, LegalIs DEF Expected, Chosen
  <2>5. trial.calm => Expected(done, Obeyed("CMD55"))
    BY <2>2, <2>3, <2>4, SdFacts, ObeyedFields, ObeyedIs DEF Expected, Narrow, Chosen, HighCapacity
  <2> QED BY <2>1, <2>2, <2>4, <2>5, CommandStep
<1>3. CASE DetectStep("ACMD6", "ACMD6", Widened)
  <2> DEFINE done == [To(sd, "CMD16") EXCEPT !.width = 4]
  <2>1. PICK ok \in BOOLEAN : Exchange("ACMD6", ok, card') /\ sd' = IF ok THEN done ELSE DetectFails(sd)
    BY <1>3 DEF DetectStep, To, Widened, Up
  <2>2. done \in SdRecords /\ done.at = "CMD16" /\ done.rca = sd.rca /\ done.hc = sd.hc /\ done.width = 4
    BY SdFacts DEF To, SdRecords, Places
  <2>3. sd.at = "ACMD6"
    BY <1>3 DEF DetectStep
  <2> HIDE DEF done
  <2>4. trial.calm => Expected(sd, card) /\ card.kind # "none" /\ Legal("ACMD6")
    BY <2>3, SdFacts, LegalIs DEF Expected, Chosen
  <2>5. trial.calm => Expected(done, Obeyed("ACMD6"))
    BY <2>2, <2>3, <2>4, SdFacts, ObeyedFields, ObeyedIs DEF Expected, Narrow, Chosen, HighCapacity
  <2> QED BY <2>1, <2>2, <2>4, <2>5, CommandStep
<1>4. CASE DetectStep("CMD16", "CMD16", Up)
  <2> DEFINE done == [sd EXCEPT !.at = "up", !.status = "ok"]
  <2>1. PICK ok \in BOOLEAN : Exchange("CMD16", ok, card') /\ sd' = IF ok THEN done ELSE DetectFails(sd)
    BY <1>4 DEF DetectStep, To, Widened, Up
  <2>2. done \in SdRecords /\ done.at = "up" /\ done.width = sd.width /\ done.rca = sd.rca /\ done.hc = sd.hc /\ done.status = "ok"
    BY SdFacts DEF To, SdRecords, Places
  <2>3. sd.at = "CMD16"
    BY <1>4 DEF DetectStep
  <2> HIDE DEF done
  <2>4. trial.calm => Expected(sd, card) /\ card.kind # "none" /\ Legal("CMD16")
    BY <2>3, SdFacts, LegalIs DEF Expected, Chosen
  <2>5. trial.calm => Expected(done, Obeyed("CMD16"))
    BY <2>2, <2>3, <2>4, SdFacts, ObeyedFields, ObeyedIs DEF Expected, Narrow, Chosen, HighCapacity
  <2> QED BY <2>1, <2>2, <2>4, <2>5, CommandStep
<1> QED BY <1>1, <1>2, <1>3, <1>4 DEF Configure

LEMMA TransferStep == ASSUME SdInv, NEW dir \in {"read", "write"}, Transfer(dir) PROVE SdInv'
<1>1. sd.at = "up" /\ sd' = sd
  BY DEF Transfer
<1>2. /\ card' \in CardRecords /\ Present(card') /\ trial' \in TrialRecords
      /\ trial'.calm => trial.calm
      /\ card' = card \/ card' = Obeyed(dir)
  <2>1. ASSUME Exchange(dir, FALSE, card')
        PROVE  /\ card' \in CardRecords /\ Present(card') /\ trial' \in TrialRecords
               /\ trial'.calm => trial.calm
               /\ card' = card \/ card' = Obeyed(dir)
    <3>1. card' = card \/ card' = Obeyed(dir)
      BY Zenon, <2>1 DEF Exchange
    <3> QED BY <2>1, <3>1, ExchangeIs, SdFacts
  <2>2. ASSUME trial' = [trial EXCEPT !.touched = Touched], card' = card
        PROVE  /\ card' \in CardRecords /\ Present(card') /\ trial' \in TrialRecords
               /\ trial'.calm => trial.calm
    <3>1. Touched \in {"asked", "elsewhere"}
      BY DEF Touched
    <3> QED BY <2>2, <3>1, SdFacts DEF TrialRecords
  <2>3. ASSUME trial' = [trial EXCEPT !.losses = @ + (IF sd.width = card.width THEN 1 ELSE 0)],
               card' \in {card, Obeyed(dir)}, Legal(dir)
        PROVE  /\ card' \in CardRecords /\ Present(card') /\ trial' \in TrialRecords
               /\ trial'.calm => trial.calm
    <3>1. trial.losses \in Nat
      BY SdFacts DEF TrialRecords
    <3>2. trial.losses + (IF sd.width = card.width THEN 1 ELSE 0) \in Nat
      BY <3>1
    <3>3. trial' \in TrialRecords /\ trial'.calm = trial.calm
      BY <2>3, <3>2, SdFacts DEF TrialRecords
    <3>4. card.kind # "none" /\ card.state # "none"
      BY <2>3, LegalNeedsCard, SdFacts DEF Present, NoCard
    <3>5. card' \in CardRecords /\ card'.kind = card.kind /\ card'.state # "none"
      BY <2>3, <3>4, SdFacts, ObeyedIs
    <3> QED BY <3>3, <3>4, <3>5 DEF Present
  <2>4. \/ Exchange(dir, FALSE, card')
        \/ trial' = [trial EXCEPT !.touched = Touched] /\ card' = card
        \/ /\ trial' = [trial EXCEPT !.losses = @ + (IF sd.width = card.width THEN 1 ELSE 0)]
           /\ card' \in {card, Obeyed(dir)} /\ Legal(dir)
    BY Zenon DEF Transfer
  <2> QED BY Zenon, <2>1, <2>2, <2>3, <2>4, SdFacts
<1>3. trial'.calm => Expected(sd', card')
  <2>1. card' = card => (trial'.calm => Expected(sd', card'))
    BY <1>1, <1>2, SdFacts
  <2>2. ASSUME trial'.calm, card' = Obeyed(dir) PROVE Expected(sd', card')
    <3>1. card' = [Heard(dir) EXCEPT !.state = IF dir = "read" THEN "data" ELSE "rcv"]
      BY <2>2, ObeyedDoes
    <3>2. /\ card'.state \in {"data", "rcv"} /\ card'.width = card.width
          /\ card'.rca = card.rca /\ card'.kind = card.kind
      BY <3>1, SdFacts DEF Heard, CardRecords
    <3> QED BY <1>1, <1>2, <2>2, <3>2, SdFacts DEF Expected, Chosen, HighCapacity
  <2> QED BY <1>2, <2>1, <2>2
<1> QED BY <1>1, <1>2, <1>3 DEF SdInv, Types, InCalm, Trying

LEMMA PulledStep == ASSUME SdInv, CardPulled PROVE SdInv'
<1>1. card' = NoCard /\ trial' = [trial EXCEPT !.calm = FALSE] /\ sd' = sd
  BY DEF CardPulled
<1>2. trial' \in TrialRecords /\ ~trial'.calm
  BY <1>1, SdFacts DEF TrialRecords
<1>3. card' \in CardRecords /\ Present(card')
  BY <1>1, KindsAre DEF NoCard, CardRecords, Present
<1> QED BY <1>1, <1>2, <1>3 DEF SdInv, Types, InCalm, Trying

LEMMA InsertedStep == ASSUME SdInv, NEW kind \in Kinds, CardInserted(kind) PROVE SdInv'
<1>1. card' = Idle(kind) /\ trial' = [trial EXCEPT !.swaps = @ + 1, !.calm = FALSE] /\ sd' = sd
  BY DEF CardInserted
<1>2. trial.swaps + 1 \in Nat
  BY SdFacts DEF TrialRecords
<1>3. trial' \in TrialRecords /\ ~trial'.calm
  BY <1>1, <1>2, SdFacts DEF TrialRecords
<1>4. card' \in CardRecords /\ Present(card')
  BY <1>1, IdleIs, KindsAre DEF Present
<1> QED BY <1>1, <1>3, <1>4 DEF SdInv, Types, InCalm, Trying

LEMMA SdStep == ASSUME Patient, SdInv, [SdNext]_sdVars PROVE SdInv'
<1>1. CASE UNCHANGED sdVars
  BY <1>1 DEF sdVars, SdInv, Types, InCalm, Trying, Present
<1>2. CASE disk_initialize \/ go_idle_state \/ sd_send_if_cond
  BY <1>2, BeginStep, IdleStep, IfCondStep
<1>3. CASE op_cond_app_cmd \/ sd_send_op_cond \/ mmc_send_op_cond
  BY <1>3, AppStep, OpCondStep, MmcStep
<1>4. CASE Identify \/ Configure
  BY <1>4, IdentifyStep, ConfigureStep
<1>5. CASE \E dir \in {"read", "write"} : Transfer(dir)
  BY <1>5, TransferStep
<1>6. CASE CardPulled \/ \E kind \in Kinds : CardInserted(kind)
  BY <1>6, PulledStep, InsertedStep
<1> QED BY <1>1, <1>2, <1>3, <1>4, <1>5, <1>6 DEF SdNext

(* No step in peace gives a detect up: the command that went unanswered would have been        *)
(* legal, and a card that was there is still there.                                            *)
LEMMA NoneGivesUp ==
  ASSUME Patient, SdInv, SdNext, trial'.calm, sd.at # "off"
  PROVE  sd'.at # "off"
<1> HIDE DEF Obeyed, Legal
<1>1. SdInv' /\ (sd'.at = "off" => card'.kind = "none")
  BY SdStep, SdFacts DEF SdInv, InCalm, Expected, NoCard
<1>2. ASSUME NEW cmd, NEW ok \in BOOLEAN, Exchange(cmd, ok, card') PROVE sd'.at # "off"
  BY <1>1, <1>2, ExchangeIs, SdFacts DEF Expected
<1>3. CASE disk_initialize
  <2>1. sd' = [sd EXCEPT !.at = "CMD0", !.width = 1]
    BY <1>3 DEF disk_initialize, BeginDetect
  <2> QED BY <2>1, SdFacts DEF SdRecords
<1>4. CASE go_idle_state \/ sd_send_if_cond
  <2>1. go_idle_state => \E ok \in BOOLEAN : Exchange("CMD0", ok, card')
    BY Zenon DEF go_idle_state
  <2>2. sd_send_if_cond => \E ok \in BOOLEAN : Exchange("CMD8", ok, card')
    BY Zenon DEF sd_send_if_cond
  <2> QED BY <1>2, <1>4, <2>1, <2>2
<1>5. CASE op_cond_app_cmd
  BY <1>2, <1>5 DEF op_cond_app_cmd
<1>6. CASE sd_send_op_cond
  BY <1>2, <1>6 DEF sd_send_op_cond
<1>7. CASE mmc_send_op_cond
  BY <1>7, SdFacts DEF mmc_send_op_cond, Expected
<1>8. CASE Identify
  BY <1>2, <1>8 DEF Identify, DetectStep
<1>9. CASE Configure
  BY <1>2, <1>9 DEF Configure, DetectStep
<1>10. CASE \E dir \in {"read", "write"} : Transfer(dir)
  BY <1>10 DEF Transfer
<1>11. CASE CardPulled \/ \E kind \in Kinds : CardInserted(kind)
  BY <1>11 DEF CardPulled, CardInserted
<1> QED BY <1>3, <1>4, <1>5, <1>6, <1>7, <1>8, <1>9, <1>10, <1>11 DEF SdNext

-----------------------------------------------------------------------------

(* sdcard_detect keeps its books with the card for as long as nothing is lost and the card     *)
(* stays, whatever the card, the driver and the bus width were before it began.  The driver    *)
(* asks at least once more than the card is busy (1000 tries of ACMD41 in the code).           *)
THEOREM SdInvariant == Patient => (SdSpec => []SdInv)
<1> SUFFICES ASSUME Patient PROVE SdSpec => []SdInv
  OBVIOUS
<1>1. SdInv /\ [SdNext]_sdVars => SdInv'
  BY SdStep
<1> QED BY <1>1, SdInitInv, PTL DEF SdSpec

(* A card that sdcard_detect found in peace is selected, and the two sides agree on the width  *)
(* of the bus, on the card's address and on whether sectors or bytes are counted.              *)
THEOREM DetectedCardAgrees == Patient => (SdSpec => []DetectedAgrees)
<1>1. SdInv => DetectedAgrees
  BY SdFacts DEF DetectedAgrees, Expected, Chosen
<1> QED BY <1>1, SdInvariant, PTL

(* sdcard_detect fails only when an exchange was lost or the card was touched while it ran.    *)
THEOREM DetectSucceeds == Patient => (SdSpec => RedetectRecovers)
<1> SUFFICES ASSUME Patient PROVE SdSpec => RedetectRecovers
  OBVIOUS
<1>1. SdInv /\ [SdNext]_sdVars =>
        [sd.at # "off" /\ sd'.at = "off" => ~trial'.calm]_sdVars
  BY Zenon, NoneGivesUp
<1>2. SdSpec => []SdInv
  BY SdInvariant
<1> QED BY <1>1, <1>2, PTL DEF SdSpec, RedetectRecovers
=============================================================================

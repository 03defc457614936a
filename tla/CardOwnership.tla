--------------------------- MODULE CardOwnership ---------------------------
(***************************************************************************)
(* What the recorder promises about the SD card, whatever its state        *)
(* machine does to keep the promise: at any time the card belongs to       *)
(* nobody, to the firmware's file system, or to a USB host; a clip is open *)
(* only while the firmware owns the card; and a host that was given the    *)
(* card keeps it until the board is powered off.                           *)
(***************************************************************************)

VARIABLES
  owner,    \* who may issue card commands that depend on the file system
  writing   \* a clip file is open for writing

vars == <<owner, writing>>

Owners == {"nobody", "firmware", "host"}

TypeOK ==
  /\ owner \in Owners
  /\ writing \in BOOLEAN

Init ==
  /\ owner = "nobody"
  /\ writing = FALSE

Mount ==
  /\ owner = "nobody"
  /\ owner' = "firmware"
  /\ writing' = writing

Open ==
  /\ owner = "firmware"
  /\ writing' = TRUE
  /\ UNCHANGED owner

Close ==
  /\ writing
  /\ writing' = FALSE
  /\ UNCHANGED owner

\* A dying card: the clip is closed and the card given up in one step.
GiveUp ==
  /\ owner = "firmware"
  /\ owner' = "nobody"
  /\ writing' = FALSE

\* The host appears: the clip is closed, the file system detached and the
\* card released to the host in one step.
Release ==
  /\ owner # "host"
  /\ owner' = "host"
  /\ writing' = FALSE

Next == Mount \/ Open \/ Close \/ GiveUp \/ Release

Spec == Init /\ [][Next]_vars
=============================================================================

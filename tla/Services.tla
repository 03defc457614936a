------------------------------- MODULE Services -------------------------------
(***************************************************************************)
(* The firmware's services side by side: the firmware update, the debug    *)
(* log, the card layer and the flight controller's link.                   *)
(* They share no variable, so an interleaving of two of them reaches       *)
(* nothing that each does not reach alone: a service runs while the others *)
(* are as they booted, and each is explored completely.                    *)
(***************************************************************************)
EXTENDS UsbUpdate, Dlog, SdCard, RunCam

services == <<updateVars, dlogVars, sdVars, runCamVars>>

Init == UpdateInit /\ DlogInit /\ SdInit /\ FramerInit

UpdateRuns ==
  /\ DlogInit /\ SdInit /\ FramerInit
  /\ UpdateNext
  /\ UNCHANGED <<dlogVars, sdVars, runCamVars>>

DlogRuns ==
  /\ UpdateInit /\ SdInit /\ FramerInit
  /\ DlogNext
  /\ UNCHANGED <<updateVars, sdVars, runCamVars>>

SdRuns ==
  /\ UpdateInit /\ DlogInit /\ FramerInit
  /\ SdNext
  /\ UNCHANGED <<updateVars, dlogVars, runCamVars>>

RunCamRuns ==
  /\ UpdateInit /\ DlogInit /\ SdInit
  /\ RunCamNext
  /\ UNCHANGED <<updateVars, dlogVars, sdVars>>

Next == UpdateRuns \/ DlogRuns \/ SdRuns \/ RunCamRuns

Spec == Init /\ [][Next]_services /\ UpdateFairness

(* The types of the four, with what their variables owe each other. *)
ServicesTypeOK ==
  UpdateTypeOK /\ DlogTypeOK /\ SdTypeOK /\ FramerTypeOK
=============================================================================

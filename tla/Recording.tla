------------------------------ MODULE Recording ------------------------------
(***************************************************************************)
(* The two ends of a recording side by side: the capture ring its pictures *)
(* come from and the files of the card they go to.  They share no          *)
(* variable, so an interleaving of the two reaches nothing that each does  *)
(* not reach alone: one runs while the other is as it booted.              *)
(***************************************************************************)
EXTENDS CardFiles, Capture

recordingVars == <<vars, captureVars>>

RecordingInit == Init /\ CaptureInit

FilesRun   == CaptureInit /\ Next /\ UNCHANGED captureVars
CaptureRuns == Init /\ CaptureNext /\ UNCHANGED vars

RecordingNext == FilesRun \/ CaptureRuns

RecordingSpec == RecordingInit /\ [][RecordingNext]_recordingVars
=============================================================================

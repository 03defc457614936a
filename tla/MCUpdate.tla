------------------------------- MODULE MCUpdate -------------------------------
(* The firmware update with two images, one of which fills the slot. *)
EXTENDS UsbUpdate

CONSTANTS a, b, z

MCImages   == {a, b}
MCBlocksOf == [m \in {a, b, z} |-> IF m = b THEN 3 ELSE 2]
=============================================================================

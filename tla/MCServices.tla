------------------------------ MODULE MCServices ------------------------------
(* The services on a small instance, the update's being MCUpdate. *)
EXTENDS Services, MCUpdate
=============================================================================

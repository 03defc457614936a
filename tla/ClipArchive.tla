---------------------------- MODULE ClipArchive -----------------------------
(***************************************************************************)
(* What a recorder promises of its card, apart from how it does it: clips  *)
(* are added under new names, a clip's readable part only grows, and only  *)
(* the user takes a clip away.                                             *)
(***************************************************************************)
EXTENDS Naturals

CONSTANTS Names
VARIABLES kept     \* the clips on the card, each with its readable frames

Empty == [n \in {} |-> 0]

Add(n) ==
  /\ n \in Names \ DOMAIN kept
  /\ kept' = [m \in DOMAIN kept \cup {n} |-> IF m = n THEN 0 ELSE kept[m]]

Grow(n) ==
  /\ DOMAIN kept' = DOMAIN kept
  /\ kept'[n] >= kept[n]
  /\ kept' = [kept EXCEPT ![n] = kept'[n]]

Delete(S) == kept' = [n \in DOMAIN kept \ S |-> kept[n]]

Next ==
  \/ \E n \in Names : Add(n)
  \/ \E n \in DOMAIN kept : Grow(n)
  \/ \E S \in SUBSET DOMAIN kept : Delete(S)

Spec == kept = Empty /\ [][Next]_kept
=============================================================================

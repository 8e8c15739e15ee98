------------------------------- MODULE MCAir --------------------------------
(* An instance of Air for TLC. *)
EXTENDS Air

(* Power-up, the registers as the same program leaves them, and with only  *)
(* the work left over.                                                     *)
Leavings == {[r \in 0..1 |-> 0],
             [r \in 0..1 |-> IF r = 0 THEN 1 ELSE Work],
             [r \in 0..1 |-> IF r = 0 THEN 0 ELSE Work]}
=============================================================================

------------------------------- MODULE MCBoot -------------------------------
(* Instances of Boot for TLC. *)
EXTENDS Boot

CONSTANTS c1, c2, junk
=============================================================================

-------------------------- MODULE MCMpbVisibility ---------------------------
(* Instances of MpbVisibility for TLC. *)
EXTENDS MpbVisibility

CONSTANTS c1, c2, r, junk
=============================================================================

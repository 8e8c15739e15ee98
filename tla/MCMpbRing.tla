----------------------------- MODULE MCMpbRing ------------------------------
(* Instances of MpbRing for TLC. *)
EXTENDS MpbRing

CONSTANTS c1, c2, junk

(* The fair behaviours in which the caller of cpy_mpb_to_mem never asks    *)
(* for more than has been published: FairSpec /\ []~overread.              *)
CarefulNext ==
  \/ \E w \in Cores : (\E n \in Sizes : Send(w, n)) \/ Locking(w) \/ Writing(w)
  \/ (\E n \in ReadSizes : n <= Used(start, end) /\ ReadCall(n)) \/ Reading
  \/ Finished

CarefulSpec == Init /\ [][CarefulNext]_vars /\ Fairness
=============================================================================

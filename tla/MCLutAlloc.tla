----------------------------- MODULE MCLutAlloc -----------------------------
(* Instances of LutAlloc for TLC. *)
EXTENDS LutAlloc

(* Fresh memory, and the leavings of an earlier run that says it is free. *)
TwoGarbage == {[free |-> FALSE, size |-> 0], [free |-> TRUE, size |-> 2]}

(* Right behind the local pages, and further on. *)
TwoBases == {Local + LocalPages * PageSize, Local + LocalPages * PageSize + 2}
=============================================================================

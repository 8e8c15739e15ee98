------------------------------ MODULE Regions -------------------------------
(***************************************************************************)
(* What the memory allocators of this code promise to their callers:       *)
(* disjoint runs of consecutive units, and a refusal only when no run of   *)
(* the length asked for is free anywhere.  The units are the pages behind  *)
(* the remote LUT entries, the blocks of the heap in shared memory or the  *)
(* bytes of the off-chip memory.                                           *)
(***************************************************************************)
EXTENDS Integers

CONSTANT Units      \* what there is to hand out: a set of integers

VARIABLES
  held,    \* the runs handed out and not returned, each as a set of units
  asked,   \* the length that a call under way asks for, 0 without a call
  broken   \* the promise no longer stands

vars == <<held, asked, broken>>

Run(s, n) == s..(s + n - 1)

(* The n units from s on exist and are free. *)
Fits(s, n) ==
  /\ Run(s, n) \subseteq Units
  /\ \A r \in held : r \cap Run(s, n) = {}

Init ==
  /\ held = {}
  /\ asked = 0
  /\ broken = FALSE

Ask ==
  /\ asked = 0 /\ asked' \in Nat \ {0}
  /\ ~broken'
  /\ UNCHANGED held

Grant ==
  /\ asked # 0 /\ asked' = 0
  /\ ~broken'
  /\ \E s \in Units : Fits(s, asked) /\ held' = held \cup {Run(s, asked)}

Refuse ==
  /\ asked # 0 /\ asked' = 0
  /\ ~broken'
  /\ \A s \in Units : ~Fits(s, asked)
  /\ UNCHANGED held

Return ==
  /\ asked = 0 /\ asked' = 0
  /\ ~broken'
  /\ \E r \in held : held' = held \ {r}

Broken == broken'

Next == Ask \/ Grant \/ Refuse \/ Return \/ Broken

Spec == Init /\ [][Next]_vars
=============================================================================

------------------------------ MODULE MCMailbox -----------------------------
(* Instances of Mailbox for TLC. *)
EXTENDS Mailbox

(* Rings before they are reset: with a word that nobody has read; with     *)
(* START past END, as a second reader leaves it; full.                     *)
Leavings ==
  {[start |-> 0, end |-> 2, locked |-> TRUE], [start |-> 4, end |-> 2, locked |-> FALSE],
   [start |-> 0, end |-> 7, locked |-> TRUE]}

(* Just the first of these. *)
Unread == {[start |-> 0, end |-> 2, locked |-> TRUE]}
=============================================================================

------------------------------ MODULE ByteFifo ------------------------------
(***************************************************************************)
(* What the message buffer of an SCC core promises to the programs on both *)
(* sides of it: a bounded, lossless, order-preserving stream of bytes.     *)
(*                                                                         *)
(* `stream' is everything ever put into the buffer, `delivered' everything *)
(* ever handed to a reader.  The promise is made to callers who ask only   *)
(* for bytes that have been published: the copy routines of scc.h do not   *)
(* check it.  Once a caller asks for more (`broken'), anything may happen. *)
(***************************************************************************)
EXTENDS Naturals, Sequences

CONSTANTS
  Byte,      \* what a writer may put into the buffer
  Capacity   \* how many bytes fit into it

VARIABLES stream, delivered, broken

vars == <<stream, delivered, broken>>

(* s is a prefix of t. *)
IsPrefixOf(s, t) ==
  /\ Len(s) <= Len(t)
  /\ \A i \in 1..Len(s) : s[i] = t[i]

Init ==
  /\ stream = << >>
  /\ delivered = << >>
  /\ broken = FALSE

(* A writer adds bytes at the end; those not yet delivered must fit. *)
Put ==
  /\ ~broken /\ ~broken'
  /\ stream' \in Seq(Byte)
  /\ Len(stream) < Len(stream')
  /\ IsPrefixOf(stream, stream')
  /\ Len(stream') - Len(delivered) <= Capacity
  /\ UNCHANGED delivered

(* The reader gets the next bytes of the stream, and only those. *)
Take ==
  /\ ~broken /\ ~broken'
  /\ Len(delivered) < Len(delivered')
  /\ IsPrefixOf(delivered, delivered')
  /\ IsPrefixOf(delivered', stream)
  /\ UNCHANGED stream

(* A caller breaks, or has broken, its side of the contract. *)
Broken == broken'

Next == Put \/ Take \/ Broken

Spec == Init /\ [][Next]_vars
=============================================================================

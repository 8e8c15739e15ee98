-------------------------------- MODULE Boot --------------------------------
(***************************************************************************)
(* The start-up of the node that owns a message ring, against cores that   *)
(* are up already and send to it: the last part of SccInit in scc.c, with  *)
(* the ring of module MpbRing.                                             *)
(*                                                                         *)
(* The message buffer and the lock register keep what the last program     *)
(* left in them, and SccInit takes no lock while it resets the header of   *)
(* the ring.  The owner, which is the one that reads, may be started again *)
(* at any time; cores that send know nothing of it.                        *)
(***************************************************************************)
EXTENDS MpbRing

CONSTANT MaxRestarts   \* bound: how often the owner is started again

ASSUME BootAssumption == MaxRestarts \in Nat

VARIABLES
  owner,     \* where the owner is: the reset of "start", "end", "writing",
             \* the "unlock", or "up"
  restarts,  \* how often it was started again
  \* history, of the time since the owner was started last
  taken,     \* the lock was taken, by no core that runs, when SccInit began
  raced,     \* a core was sending when it began, or took the lock before
             \* SccInit released it
  gone       \* the cores that had exited before

boot     == <<owner, restarts, taken, raced, gone>>
bootVars == <<vars, boot>>

(* Core w is on its way through cpy_mem_to_mpb, or has the lock. *)
Sending(w) == pc[w] # "exited" /\ (Holding(w) \/ Inside(w))

-----------------------------------------------------------------------------
(***************************************************************************)
(* The program before left the header, the lock and the payload (Junk) as  *)
(* they were when it ended.                                                *)
(***************************************************************************)
BootInit ==
  /\ start \in 0..(BSize - 1) /\ end \in 0..(BSize - 1)
  /\ writing \in BOOLEAN /\ locked \in BOOLEAN
  /\ buf = [i \in 0..(BSize - 1) |-> Junk]
  /\ pc = [w \in Cores |-> "idle"]
  /\ msg = [w \in Cores |-> 0] /\ left = [w \in Cores |-> 0]
  /\ wend = [w \in Cores |-> 0] /\ free = [w \in Cores |-> 0]
  /\ rpc = "idle" /\ rstart = 0 /\ rend = 0 /\ rleft = 0 /\ rdst = << >>
  /\ stream = << >> /\ delivered = << >> /\ overread = FALSE /\ split = {}
  /\ owner = "start" /\ restarts = 0
  /\ taken = locked /\ raced = FALSE /\ gone = {}

OwnerGoto(label) == owner' = label /\ UNCHANGED <<restarts, taken, raced, gone>>

ResetStart ==
  /\ owner = "start" /\ OwnerGoto("end")
  /\ start' = 0
  /\ UNCHANGED <<end, writing, buf, locked, writers, reader, history>>

(* Slip: what is published stays published. *)
KeepEnd ==
  /\ owner = "end" /\ OwnerGoto("writing")
  /\ UNCHANGED vars

ResetEnd ==
  /\ owner = "end" /\ OwnerGoto("writing")
  /\ end' = 0
  /\ UNCHANGED <<start, writing, buf, locked, writers, reader, history>>

(* Slip: WRITING stays as it was. *)
KeepWriting ==
  /\ owner = "writing" /\ OwnerGoto("unlock")
  /\ UNCHANGED vars

(* Slip: the lock is released before the header is in order. *)
UnlockEarly ==
  /\ owner = "writing" /\ OwnerGoto("unlock")
  /\ writing' = FALSE /\ locked' = FALSE
  /\ UNCHANGED <<start, end, buf, writers, reader, history>>

ResetWriting ==
  /\ owner = "writing" /\ OwnerGoto("unlock")
  /\ writing' = FALSE
  /\ UNCHANGED <<start, end, buf, locked, writers, reader, history>>

(* Whoever has the lock, it is free from now on. *)
Unlock ==
  /\ owner = "unlock" /\ OwnerGoto("up")
  /\ locked' = FALSE
  /\ UNCHANGED <<mpb, writers, reader, history>>

SccInit == ResetStart \/ ResetEnd \/ ResetWriting \/ Unlock

(* The owner's program is started again.  The copies that it had of START  *)
(* and END are lost, what lies in the chip is not.                         *)
Restart ==
  /\ restarts < MaxRestarts
  /\ restarts' = restarts + 1
  /\ owner' = "start"
  /\ taken' = (locked /\ \A w \in Cores : ~Sending(w))
  /\ raced' = \E w \in Cores : Sending(w)
  /\ gone' = {w \in Cores : pc[w] = "exited"}
  /\ rpc' = "idle" /\ rstart' = 0 /\ rend' = 0 /\ rleft' = 0 /\ rdst' = << >>
  /\ stream' = << >> /\ delivered' = << >> /\ overread' = FALSE /\ split' = {}
  /\ UNCHANGED <<mpb, locked, writers>>

(* A core gets the lock, perhaps while SccInit is at work. *)
LockingAnytime(w) ==
  /\ Locking(w)
  /\ raced' = (raced \/ owner # "up")
  /\ UNCHANGED <<owner, restarts, taken, gone>>

Sends(w) == ((\E n \in Sizes : Send(w, n)) \/ Writing(w)) /\ UNCHANGED boot

(* The owner reads when it is up; what comes of asking for more than there *)
(* is, is a matter of MpbRing.                                             *)
Reads ==
  /\ owner = "up"
  /\ (\E n \in ReadSizes : n <= Used(start, end) /\ ReadCall(n)) \/ Reading
  /\ UNCHANGED boot

BootNext == SccInit \/ Restart \/ (\E w \in Cores : LockingAnytime(w) \/ Sends(w)) \/ Reads

(***************************************************************************)
(* As in MpbRing; and SccInit runs to its end.  Nothing makes anyone start *)
(* the owner again.                                                        *)
(***************************************************************************)
BootFairness ==
  /\ \A w \in Cores :
       /\ WF_bootVars(Writing(w) /\ UNCHANGED boot)
       /\ SF_bootVars(Acquire(w) /\ LockingAnytime(w))
       /\ SF_bootVars(Relock(w) /\ LockingAnytime(w))
  /\ WF_bootVars(SccInit)
  /\ WF_bootVars(Reads)

BootSpec == BootInit /\ [][BootNext]_bootVars /\ BootFairness

-----------------------------------------------------------------------------
(***************************************************************************)
(* Properties.                                                             *)
(***************************************************************************)

(* Unless a core was sending while SccInit was at work, the ring starts    *)
(* afresh, whatever it held: cores that run exclude each other, no memcpy  *)
(* races another, and the reader is handed the bytes sent since, in the    *)
(* order of the ring, and none from before.                                *)
FreshUnlessRaced ==
  owner = "up" /\ ~raced =>
    /\ \A v, w \in Cores : Holding(v) /\ Holding(w) => v = w \/ {v, w} \cap gone # {}
    /\ (\E w \in Cores \ gone : Holding(w)) => locked
    /\ WindowsDisjoint
    /\ Len(delivered) <= Len(stream)
    /\ \A i \in 1..Len(delivered) : delivered[i] = stream[i]

(* A lock that was left taken protects the reset: no core gets between     *)
(* the steps of SccInit.  One that is free does not.                       *)
TakenLockProtects == taken => ~raced

(* Raced or not, nobody is led out of the ring.                            *)
StaysInRing ==
  /\ start \in 0..(BSize - 1) /\ end \in 0..(BSize - 1)
  /\ \A w \in Cores : WriterWindow(w) \subseteq 0..(BSize - 1)

(* Whatever the header and the lock were before, no sender waits for ever  *)
(* while nothing happens in the ring: not for a WRITING or a lock left     *)
(* behind by the program before, nor for the lock of a core that exited    *)
(* before the owner was started again -- only for that of one that has     *)
(* exited since.                                                           *)
SendersGetThrough ==
  []~raced =>
    \A k \in 0..MaxRead :
      (\E w \in Cores : Busy(w)) /\ Len(stream) = k
        ~> \/ Len(stream) # k
           \/ \A w \in Cores : ~Busy(w)
           \/ \E v \in Cores \ gone : pc[v] = "exited"
=============================================================================

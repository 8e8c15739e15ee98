-------------------------------- MODULE Air ---------------------------------
(***************************************************************************)
(* The atomic increment registers (AIR) of the system FPGA, as scc.c sets  *)
(* them up and uses them, under the protocol of `test1' in air.c: node 0   *)
(* does its work on register 1 and then opens a gate, register 0, on which *)
(* the other nodes spin before they look at register 1.                    *)
(*                                                                         *)
(* The protocol is taken as that of a client of scc.c.  air.c itself does  *)
(* not compile, its call of test1 is commented out, and its own atomic_inc *)
(* (air.c:21-24) touches no register: nothing here is about that program.  *)
(*                                                                         *)
(* Reading the `counter' word of a register returns its value and adds 1;  *)
(* the `init' word is the plain value.  The registers are in no core:      *)
(* they keep their values from one run of a program to the next.           *)
(***************************************************************************)
EXTENDS Naturals

CONSTANTS
  Nodes,    \* node numbers, 0 among them
  Work,     \* how often node 0 increments register 1
  Left      \* what an earlier program can have left: values of registers 0 and 1

ASSUME AirAssumption ==
  /\ 0 \in Nodes
  /\ Work \in Nat \ {0}
  /\ Left \subseteq [0..1 -> Nat]

VARIABLES
  regs,    \* the registers 0 and 1
  label,   \* where each node is
  indx,    \* node 0's loop
  seen,    \* i: what each node has read last
  early    \* history: the nodes that found the gate open before node 0
           \* had closed it

test1Vars == <<regs, label, indx, seen, early>>

Others == Nodes \ {0}

-----------------------------------------------------------------------------
Test1Init ==
  /\ regs \in Left
  /\ label = [n \in Nodes |-> "SccInit"]
  /\ indx = 0
  /\ seen = [n \in Nodes |-> 0]
  /\ early = {}

Goto(n, next) == label' = [label EXCEPT ![n] = next]

(* *reg->counter and *reg->init. *)
atomic_inc(n, r) ==
  /\ seen' = [seen EXCEPT ![n] = regs[r]]
  /\ regs' = [regs EXCEPT ![r] = @ + 1]

atomic_read(n, r) == seen' = [seen EXCEPT ![n] = regs[r]] /\ UNCHANGED regs

(* SccInit: node 0 resets the registers in turn; no node waits for that. *)
Reset ==
  \/ /\ label[0] = "SccInit"
     /\ regs' = [regs EXCEPT ![0] = 0]
     /\ Goto(0, "reset1")
     /\ UNCHANGED <<indx, seen, early>>
  \/ /\ label[0] = "reset1"
     /\ regs' = [regs EXCEPT ![1] = 0]
     /\ Goto(0, "work")
     /\ UNCHANGED <<indx, seen, early>>

Start(n) ==
  /\ n # 0 /\ label[n] = "SccInit"
  /\ Goto(n, "gate")
  /\ UNCHANGED <<regs, indx, seen, early>>

(* Node 0: the loop, and the gate. *)
DoWork ==
  /\ label[0] = "work" /\ indx < Work
  /\ atomic_inc(0, 1)
  /\ indx' = indx + 1
  /\ UNCHANGED <<label, early>>

(* Slip: the gate is opened before the last round. *)
OpenGateEarly ==
  /\ label[0] = "work" /\ indx >= Work - 1
  /\ atomic_inc(0, 0)
  /\ IF indx = Work THEN Goto(0, "done") ELSE UNCHANGED label
  /\ UNCHANGED <<indx, early>>

OpenGate ==
  /\ label[0] = "work" /\ indx = Work
  /\ atomic_inc(0, 0)
  /\ Goto(0, "done")
  /\ UNCHANGED <<indx, early>>

(* Slip: each look at the gate closes it for the next node. *)
LookClosing(n) ==
  /\ n # 0 /\ label[n] = "gate"
  /\ seen' = [seen EXCEPT ![n] = regs[0]]
  /\ regs' = [regs EXCEPT ![0] = 0]
  /\ IF regs[0] = 0 THEN UNCHANGED label ELSE Goto(n, "look")
  /\ UNCHANGED <<indx, early>>

(* The others spin until the gate is open ... *)
FindClosed(n) ==
  /\ n # 0 /\ label[n] = "gate"
  /\ atomic_read(n, 0)
  /\ regs[0] = 0
  /\ UNCHANGED <<indx, label, early>>

FindOpen(n) ==
  /\ n # 0 /\ label[n] = "gate"
  /\ atomic_read(n, 0)
  /\ regs[0] # 0
  /\ Goto(n, "look")
  /\ early' = IF label[0] = "SccInit" THEN early \cup {n} ELSE early
  /\ UNCHANGED indx

Look(n) == FindClosed(n) \/ FindOpen(n)

(* ... and read register 1. *)
Collect(n) ==
  /\ n # 0 /\ label[n] = "look"
  /\ atomic_read(n, 1)
  /\ Goto(n, "done")
  /\ UNCHANGED <<indx, early>>

Step(n) == IF n = 0 THEN Reset \/ DoWork \/ OpenGate
                    ELSE Start(n) \/ Look(n) \/ Collect(n)

AllDone == (\A n \in Nodes : label[n] = "done") /\ UNCHANGED test1Vars

Test1Next == (\E n \in Nodes : Step(n)) \/ AllDone

(* Every node is a core of its own and keeps running. *)
Test1Spec ==
  Test1Init /\ [][Test1Next]_test1Vars /\ \A n \in Nodes : WF_test1Vars(Step(n))

-----------------------------------------------------------------------------
(* "counter 1, value should be 10" (air.c:95): whoever is through the gate *)
(* sees all of node 0's work and nothing but it, whatever the registers    *)
(* held before -- but for a node that was at the gate before node 0 had    *)
(* begun, and found a value there that an earlier program had left.        *)
GateShowsWork == \A n \in Others \ early : label[n] = "done" => seen[n] = Work

(* Everybody gets through the gate. *)
AllThrough == <>(\A n \in Nodes : label[n] = "done")
=============================================================================

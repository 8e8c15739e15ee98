---------------------------- MODULE MailboxProofs ----------------------------
(***************************************************************************)
(* Proof of what the program mailbox.c comes to when nobody comes out of   *)
(* turn, for any number of nodes, any length of the rings in which their   *)
(* words have room, and any heap in which a mailbox and its string have.   *)
(***************************************************************************)
EXTENDS Mailbox, FiniteSets, FiniteSetTheorems, TLAPS

LEMMA Bounds ==
  /\ N \in Nat /\ N >= 2 /\ Size \in Nat /\ Size > 2 * N
  /\ Units \in Nat /\ Units >= 5 /\ Null \notin Int /\ Junk \notin Int
  /\ \A h \in Leftover : h.start \in Nat /\ h.end \in Nat
  BY MailboxAssumption

-----------------------------------------------------------------------------
(***************************************************************************)
(* The invariant.                                                          *)
(***************************************************************************)

Making == {"box", "takeBox", "id", "string", "takeString", "name", "greet", "put", "publish", "wait"}
Labels == {"off", "reset", "init", "get", "release", "visit", "done"} \cup Making

(* How far a node is: it has a heap; a mailbox; the ID in it; a pointer to *)
(* a string; a string; and it has sent the mailbox's offset.               *)
Alive(n)  == Up(n)
Passed(n) == pc[n] \in {"wait", "done"} \/ (n = 0 /\ pc[n] \in {"get", "release", "visit"})
Full(n)   == pc[n] \in {"put", "publish"} \/ Passed(n)
Named(n)  == pc[n] = "greet" \/ Full(n)
Tagged(n) == pc[n] \in {"string", "takeString", "name"} \/ Named(n)
Boxed(n)  == pc[n] = "id" \/ Tagged(n)

(* The one mailbox, its string, and what is in the mailbox. *)
TheBox    == nkAddr + First + 1
TheString == nkAddr + First + 3
Box(t)    == [id |-> 102, testString |-> t]

Cells == 0..(First + Units - 1)

Shape ==
  /\ pc \in [Nodes -> Labels] /\ untouched \in [Nodes -> BOOLEAN]
  /\ mem = [u \in Cells |-> mem[u]]
  /\ base = [n \in Nodes |-> base[n]] /\ mbox = [n \in Nodes |-> mbox[n]]
  /\ freeList = [n \in Nodes |-> freeList[n]] /\ prev = [n \in Nodes |-> prev[n]]
  /\ curr = [n \in Nodes |-> curr[n]] /\ addr = [n \in Nodes |-> addr[n]]
  /\ start \in [Rings -> Nat] /\ end \in [Rings -> Nat]
  /\ index \in [Nodes -> Nat] /\ free \in [Nodes -> Nat] /\ left \in [Nodes -> Nat]
  /\ buf = [r \in Rings |-> buf[r]]
  /\ \A r \in Rings : buf[r] = [i \in 0..(Size - 1) |-> buf[r][i]]

(* The shared pages: every node finds, and makes, the same there. *)
Finds(n) ==
  /\ Alive(n) => base[n] = nkAddr
  /\ mbox[n] = IF Boxed(n) THEN TheBox ELSE Null
  /\ Alive(n) => mem[First] \in {Header(First, Units), Header(First, 2)}
  /\ Boxed(n) => mem[First + 2] \in {Header(First + 2, Units - 2), Header(First + 2, 3)}
  /\ mem[First + 1] \in {nothing, Box(Junk), Box(TheString)}
  /\ Tagged(n) => mem[First + 1] # nothing
  /\ Named(n) => mem[First + 1] = Box(TheString)
  /\ Full(n) => "text" \in DOMAIN mem[First + 3]

(* Where a node allocates: in a heap as it left it, if that is untouched.  *)
Allocates(n) ==
  /\ Alive(n) /\ ~Boxed(n) =>
       freeList[n] = First /\ (untouched[n] => mem[First] = Header(First, Units))
  /\ pc[n] = "takeBox" => prev[n] = First /\ curr[n] = First
  /\ pc[n] \in {"id", "string", "takeString"} =>
       /\ freeList[n] = First + 2
       /\ untouched[n] => mem[First + 2] = Header(First + 2, Units - 2)
  /\ pc[n] = "takeString" => prev[n] = First + 2 /\ curr[n] = First + 2
  /\ pc[n] = "name" => curr[n] = First + 2

Pages   == \A n \in Nodes : Finds(n)
Cursors == \A n \in Nodes : Allocates(n)

(* What a node is sending, or has received. *)
Words ==
  \A n \in Nodes :
    /\ pc[n] \in {"put", "publish"} => left[n] = 2
    /\ pc[n] = "publish" => free[n] = 2
    /\ pc[n] \in {"release", "visit"} => addr[n] = First + 1

(* Index i of ring r holds its half of the offset that every node sends. *)
Good(r, i) == buf[r][i] = <<First + 1, i % 2>>

(* SccInit has not reset the ring of this node. *)
Unset(n) == pc[n] \in {"off", "reset"}

(* Into ring 0 goes one word; nobody gets by before it is there. *)
Ring0 ==
  /\ pc[0] = "reset" => start[0] = 0
  /\ ~Unset(0) /\ ~Passed(0) => start[0] = 0 /\ end[0] = 0
  /\ pc[0] = "publish" => index[0] = 0
  /\ Passed(0) => end[0] = 2 /\ start[0] \in {0, 2}
  /\ pc[0] = "publish" \/ Passed(0) => Good(0, 0) /\ Good(0, 1)
  /\ \A n \in Nodes \ {0} :
       /\ pc[n] \notin {"off", "reset", "init", "get"} => Passed(0)
       /\ pc[n] = "release" => index[n] = 0

(* The other nodes write into ring 1, maybe over each other, as END can go *)
(* back: it never gets further than a word for each that has sent, and     *)
(* what lies before it is good.                                            *)
Past   == {n \in Nodes \ {0} : Passed(n)}
Count  == Cardinality(Past)
Origin == IF pc[0] \in {"visit", "done"} THEN start[1] - 2 ELSE start[1]

Reached(e) ==
  /\ e % 2 = 0 /\ Origin <= e /\ e <= Origin + 2 * Count
  /\ \A i \in Origin..(e - 1) : Good(1, i)

(* Nobody has come to use it before node 1 has reset it. *)
Unused ==
  /\ Past = {} /\ pc[0] \notin {"release", "visit", "done"}
  /\ \A n \in Nodes \ {0} : pc[n] # "publish"
  /\ pc[1] = "reset" => start[1] = 0

InUse ==
  /\ Origin \in {0, 2}
  /\ Reached(end[1]) /\ (Past # {} => end[1] >= Origin + 2)
  /\ \A n \in Nodes \ {0} : pc[n] = "publish" =>
       Reached(index[n]) /\ Good(1, index[n]) /\ Good(1, index[n] + 1)
  /\ pc[0] \in {"release", "visit", "done"} => Past # {}
  /\ pc[0] = "release" => index[0] = start[1]

Ring1 == IF Unset(1) THEN Unused ELSE InUse

Turn == Shape /\ Pages /\ Cursors /\ Words /\ Ring0 /\ Ring1

Inv == outOfTurn = {} => Turn

-----------------------------------------------------------------------------
(***************************************************************************)
(* Lemmas.                                                                 *)
(***************************************************************************)

LEMMA ZeroIsNode == 0 \in Nodes /\ 1 \in Nodes /\ Nodes \ {0} = 1..(N - 1)
  BY Bounds DEF Nodes

(* The nodes that have sent into ring 1, counted. *)
LEMMA Counting ==
  ASSUME NEW S, S \subseteq Nodes \ {0}
  PROVE  /\ Cardinality(S) \in Nat /\ Cardinality(S) <= N - 1
         /\ S = {} => Cardinality(S) = 0
         /\ S # {} => Cardinality(S) >= 1
         /\ \A n \in (Nodes \ {0}) \ S :
              Cardinality(S) <= N - 2 /\ Cardinality(S \cup {n}) = Cardinality(S) + 1
  <1>1. IsFiniteSet(1..(N - 1)) /\ Cardinality(1..(N - 1)) = N - 1
    <2>1. 1 \in Int /\ N - 1 \in Int /\ ~(1 > N - 1) /\ (N - 1) - 1 + 1 = N - 1
      BY Bounds
    <2>2. QED
      BY <2>1, FS_Interval
  <1>2. IsFiniteSet(S)
    BY <1>1, ZeroIsNode, FS_Subset
  <1>3. Cardinality(S) \in Nat /\ Cardinality(S) <= N - 1
    <2> DEFINE U == 1..(N - 1)
    <2>1. IsFiniteSet(U) /\ Cardinality(U) = N - 1 /\ S \subseteq U
      BY <1>1, ZeroIsNode
    <2> HIDE DEF U
    <2>2. Cardinality(S) <= Cardinality(U)
      BY <2>1, FS_Subset
    <2>3. QED
      BY <1>2, <2>1, <2>2, FS_CardinalityType
  <1>4. (S = {} => Cardinality(S) = 0) /\ (S # {} => Cardinality(S) >= 1)
    <2>1. Cardinality(S) = 0 <=> S = {}
      BY <1>2, FS_EmptySet
    <2>2. QED
      BY <1>3, <2>1
  <1>5. ASSUME NEW n \in (Nodes \ {0}) \ S
        PROVE  Cardinality(S) <= N - 2 /\ Cardinality(S \cup {n}) = Cardinality(S) + 1
    <2>1. Cardinality(S \cup {n}) = Cardinality(S) + 1
      BY <1>2, FS_AddElement
    <2>2. S \cup {n} \subseteq 1..(N - 1)
      BY ZeroIsNode
    <2>3. Cardinality(S \cup {n}) <= N - 1
      <3> DEFINE T == S \cup {n}
                 U == 1..(N - 1)
      <3>1. IsFiniteSet(U) /\ Cardinality(U) = N - 1 /\ T \subseteq U
        BY <1>1, <2>2
      <3> HIDE DEF T, U
      <3>2. Cardinality(T) <= Cardinality(U)
        BY <3>1, FS_Subset
      <3>3. QED
        BY <3>1, <3>2 DEF T
    <2>4. QED
      BY <1>3, <2>1, <2>3, Bounds
  <1>6. QED
    BY <1>3, <1>4, <1>5

LEMMA CountIs ==
  /\ Count \in Nat /\ Count <= N - 1 /\ (Past = {} => Count = 0) /\ (Past # {} => Count >= 1)
  /\ \A n \in (Nodes \ {0}) \ Past : Count <= N - 2
  BY Counting DEF Count, Past

(* A node that goes to label l. *)
LEMMA Goes ==
  ASSUME Shape, NEW n \in Nodes, NEW l \in Labels, Goto(n, l)
  PROVE  pc' \in [Nodes -> Labels] /\ pc'[n] = l /\ \A m \in Nodes \ {n} : pc'[m] = pc[m]
  BY DEF Shape, Goto

LEMMA LabelsAre ==
  /\ "off" \in Labels /\ "reset" \in Labels /\ "init" \in Labels /\ "get" \in Labels /\ "release" \in Labels
  /\ "visit" \in Labels /\ "done" \in Labels /\ "box" \in Labels /\ "takeBox" \in Labels
  /\ "id" \in Labels /\ "string" \in Labels /\ "takeString" \in Labels /\ "name" \in Labels
  /\ "greet" \in Labels /\ "put" \in Labels /\ "publish" \in Labels /\ "wait" \in Labels
  BY DEF Labels, Making

(* The ring that a node writes, and the one it reads. *)
LEMMA RingsAre ==
  /\ MadeIn(0) = 0 /\ ReadIn(0) = 1 /\ 0 \in Rings /\ 1 \in Rings
  /\ \A n \in Nodes \ {0} : MadeIn(n) = 1 /\ ReadIn(n) = 0
  BY DEF MadeIn, ReadIn, Rings

(* The nodes that do not move are as far as they were. *)
LEMMA OthersAre ==
  ASSUME NEW m, pc'[m] = pc[m]
  PROVE  /\ Alive(m)' <=> Alive(m)
         /\ Unset(m)' <=> Unset(m)
         /\ Passed(m)' <=> Passed(m)
         /\ Full(m)' <=> Full(m)
         /\ Named(m)' <=> Named(m)
         /\ Tagged(m)' <=> Tagged(m)
         /\ Boxed(m)' <=> Boxed(m)
  BY DEF Alive, Up, Unset, Passed, Full, Named, Tagged, Boxed

(* A step that touches neither the pages nor anything about them. *)
LEMMA HeapFrame ==
  ASSUME Pages, Cursors, NEW n \in Nodes, \A m \in Nodes \ {n} : pc'[m] = pc[m],
         UNCHANGED <<base, mem, freeList, prev, curr, untouched, mbox>>,
         Alive(n)' <=> Alive(n), Boxed(n)' <=> Boxed(n), Tagged(n)' <=> Tagged(n),
         Named(n)' <=> Named(n), Full(n)' <=> Full(n),
         pc'[n] \notin {"takeBox", "id", "string", "takeString", "name"}
  PROVE  Pages' /\ Cursors'
  <1>1. \A m \in Nodes : /\ Alive(m)' <=> Alive(m)
                         /\ Boxed(m)' <=> Boxed(m)
                         /\ Tagged(m)' <=> Tagged(m)
                         /\ Named(m)' <=> Named(m)
                         /\ Full(m)' <=> Full(m)
    BY OthersAre
  <1>2. Pages'
    BY <1>1 DEF Pages, Finds
  <1>3. Cursors'
    BY <1>1 DEF Cursors, Allocates
  <1>4. QED
    BY <1>2, <1>3

(* A step that touches neither ring. *)
LEMMA RingFrame ==
  ASSUME Ring0, Ring1, NEW n \in Nodes, \A m \in Nodes \ {n} : pc'[m] = pc[m],
         UNCHANGED <<start, end, buf, index>>,
         Passed(n)' <=> Passed(n), pc'[n] \notin {"publish", "release"},
         n \in {0, 1} => ~Unset(n) /\ ~Unset(n)',
         n # 0 /\ pc[n] \in {"off", "reset", "init", "get"} => pc'[n] \in {"reset", "init", "get"},
         n = 0 => (pc'[n] \in {"visit", "done"} <=> pc[n] \in {"visit", "done"})
  PROVE  Ring0' /\ Ring1'
  <1>1. (\A m \in Nodes : Passed(m)' <=> Passed(m)) /\ (Unset(0)' <=> Unset(0)) /\ (Unset(1)' <=> Unset(1))
    BY OthersAre, ZeroIsNode
  <1>2. \A r, i : Good(r, i)' <=> Good(r, i)
    BY DEF Good
  <1>3. pc'[0] = "reset" => pc[0] = "reset"
    BY ZeroIsNode DEF Unset
  <1>4. pc'[1] = "reset" => pc[1] = "reset"
    BY ZeroIsNode DEF Unset
  <1>5. Ring0'
    BY <1>1, <1>2, <1>3, ZeroIsNode DEF Ring0
  <1>6. Past' = Past /\ Count' = Count
    BY <1>1 DEF Past, Count
  <1>7. Origin' = Origin
    BY ZeroIsNode DEF Origin
  <1>8. \A e : Reached(e)' <=> Reached(e)
    BY <1>2, <1>6, <1>7 DEF Reached
  <1>9. Unused => Unused'
    BY <1>4, <1>6, ZeroIsNode DEF Unused
  <1>10. InUse => InUse'
    BY <1>2, <1>6, <1>7, <1>8, ZeroIsNode DEF InUse
  <1>11. QED
    BY <1>1, <1>5, <1>9, <1>10 DEF Ring1

(* What the node that moves sends or has received, when it moves on. *)
LEMMA WordsFrame ==
  ASSUME Words, NEW n \in Nodes, \A m \in Nodes \ {n} : pc'[m] = pc[m],
         \A m \in Nodes \ {n} : left'[m] = left[m] /\ free'[m] = free[m] /\ addr'[m] = addr[m],
         pc'[n] \in {"put", "publish"} => left'[n] = 2,
         pc'[n] = "publish" => free'[n] = 2,
         pc'[n] \in {"release", "visit"} => addr'[n] = First + 1
  PROVE  Words'
  BY DEF Words

(* The cells of the heap that come into it. *)
LEMMA CellsAre ==
  /\ First = 2 /\ First \in Cells /\ First + 1 \in Cells /\ First + 2 \in Cells /\ First + 3 \in Cells
  /\ Units # 5 => First + 5 \in Cells
  BY Bounds DEF Cells, First

-----------------------------------------------------------------------------
(***************************************************************************)
(* The steps that leave the pages as they are.                             *)
(***************************************************************************)

(* START of the own ring is reset, ... *)
LEMMA BootStep ==
  ASSUME Turn, outOfTurn' = {}, NEW n \in Nodes, Boot(n)
  PROVE  Turn'
  <1>1. /\ pc' \in [Nodes -> Labels] /\ pc[n] = "off" /\ pc'[n] = "reset"
        /\ \A m \in Nodes \ {n} : pc'[m] = pc[m]
    BY Goes, LabelsAre DEF Turn, Boot, At
  <1>2. Shape'
    BY <1>1 DEF Boot, Turn, Shape, heap
  <1>3. Pages' /\ Cursors'
    BY <1>1, HeapFrame DEF Boot, Turn, heap, Alive, Up, Boxed, Tagged, Named, Full, Passed
  <1>4. Words'
    BY <1>1, WordsFrame DEF Boot, Turn
  <1>5. (\A m \in Nodes : Passed(m)' <=> Passed(m)) /\ Past' = Past /\ Count' = Count
    BY <1>1, OthersAre DEF Passed, Past, Count
  <1>6. (\A r, i : Good(r, i)' <=> Good(r, i)) /\ UNCHANGED <<index, buf, end>>
    BY DEF Boot, Good
  <1>7. \A m \in Nodes : Unset(m)' <=> Unset(m)
    BY <1>1 DEF Unset
  <1>8. Unused /\ (pc'[1] = "reset" => start'[1] = 0) => Unused'
    BY <1>1, <1>5, ZeroIsNode DEF Unused
  <1>9. CASE n = 0
    <2>1. start'[0] = 0 /\ start'[1] = start[1] /\ pc'[1] = pc[1]
      BY <1>1, <1>9, RingsAre, ZeroIsNode DEF Boot
    <2>2. Ring0'
      BY <1>1, <1>5, <1>6, <1>7, <1>9, <2>1 DEF Turn, Ring0, Passed, Unset
    <2>3. Origin' = Origin
      BY <1>1, <1>9, <2>1 DEF Origin
    <2>4. \A e : Reached(e)' <=> Reached(e)
      BY <1>5, <1>6, <2>3 DEF Reached
    <2>5. InUse => InUse'
      BY <1>1, <1>5, <1>6, <1>9, <2>1, <2>3, <2>4 DEF InUse
    <2>6. Unused => Unused'
      BY <1>8, <2>1 DEF Unused
    <2>7. QED
      BY <1>2, <1>3, <1>4, <1>7, <2>2, <2>5, <2>6, ZeroIsNode DEF Turn, Ring1
  <1>10. CASE n = 1
    <2>1. start'[0] = start[0] /\ start'[1] = 0 /\ pc'[0] = pc[0]
      BY <1>1, <1>10, RingsAre, ZeroIsNode DEF Boot
    <2>2. Ring0'
      BY <1>1, <1>5, <1>6, <1>7, <1>10, <2>1, ZeroIsNode DEF Turn, Ring0
    <2>3. Unset(1) /\ Unset(1)'
      BY <1>1, <1>10 DEF Unset
    <2>4. Ring1'
      BY <1>8, <2>1, <2>3 DEF Turn, Ring1
    <2>5. QED
      BY <1>2, <1>3, <1>4, <2>2, <2>4 DEF Turn
  <1>11. CASE n \notin {0, 1}
    <2>1. start' = start
      BY <1>11 DEF Boot, Turn, Shape, Rings
    <2>2. Ring0' /\ Ring1'
      BY <1>1, <1>5, <1>6, <1>11, <2>1, RingFrame DEF Turn
    <2>3. QED
      BY <1>2, <1>3, <1>4, <2>2 DEF Turn
  <1>12. QED
    BY <1>9, <1>10, <1>11

(* ... and then END: with it the ring is empty, for nobody has used it yet. *)
LEMMA ResetEndStep ==
  ASSUME Turn, outOfTurn' = {}, NEW n \in Nodes, ResetEnd(n)
  PROVE  Turn'
  <1>1. /\ pc' \in [Nodes -> Labels] /\ pc[n] = "reset" /\ pc'[n] = "init"
        /\ \A m \in Nodes \ {n} : pc'[m] = pc[m]
    BY Goes, LabelsAre DEF Turn, ResetEnd, At
  <1>2. Shape'
    BY <1>1 DEF ResetEnd, Turn, Shape, heap
  <1>3. Pages' /\ Cursors'
    BY <1>1, HeapFrame DEF ResetEnd, Turn, heap, Alive, Up, Boxed, Tagged, Named, Full, Passed
  <1>4. Words'
    BY <1>1, WordsFrame DEF ResetEnd, Turn
  <1>5. (\A m \in Nodes : Passed(m)' <=> Passed(m)) /\ Past' = Past /\ Count' = Count
    BY <1>1, OthersAre DEF Passed, Past, Count
  <1>6. (\A r, i : Good(r, i)' <=> Good(r, i)) /\ UNCHANGED <<index, buf, start>>
    BY DEF ResetEnd, Good
  <1>7. \A m \in Nodes \ {n} : Unset(m)' <=> Unset(m)
    BY <1>1 DEF Unset
  <1>8. Unset(n) /\ ~Unset(n)' /\ ~Passed(n)
    BY <1>1 DEF Unset, Passed
  <1>9. CASE n = 0
    <2>1. start'[0] = 0 /\ end'[0] = 0 /\ end'[1] = end[1] /\ pc'[1] = pc[1]
      BY <1>1, <1>9, RingsAre, ZeroIsNode DEF ResetEnd, Turn, Ring0
    <2>2. Ring0'
      BY <1>1, <1>5, <1>6, <1>8, <1>9, <2>1, ZeroIsNode DEF Turn, Ring0
    <2>3. Origin' = Origin
      BY <1>1, <1>6, <1>9 DEF Origin
    <2>4. \A e : Reached(e)' <=> Reached(e)
      BY <1>5, <1>6, <2>3 DEF Reached
    <2>5. InUse => InUse'
      BY <1>1, <1>5, <1>6, <1>9, <2>1, <2>3, <2>4 DEF InUse
    <2>6. Unused => Unused'
      BY <1>1, <1>5, <1>6, <1>9, <2>1 DEF Unused
    <2>7. Unset(1)' <=> Unset(1)
      BY <1>7, <1>9, ZeroIsNode
    <2>8. QED
      BY <1>2, <1>3, <1>4, <2>2, <2>5, <2>6, <2>7 DEF Turn, Ring1
  <1>10. CASE n = 1
    <2>1. end'[0] = end[0] /\ end'[1] = 0 /\ pc'[0] = pc[0]
      BY <1>1, <1>10, RingsAre, ZeroIsNode DEF ResetEnd
    <2>2. Ring0'
      <3>1. Unset(0)' <=> Unset(0)
        BY <1>7, <1>10, ZeroIsNode
      <3>2. QED
        BY <1>1, <1>5, <1>6, <1>10, <2>1, <3>1, ZeroIsNode DEF Turn, Ring0
    <2>3. Unused
      BY <1>8, <1>10 DEF Turn, Ring1
    <2>4. start'[1] = 0 /\ Past' = {} /\ Count' = 0 /\ pc'[0] \notin {"release", "visit", "done"}
      BY <1>1, <1>5, <1>6, <1>10, <2>1, <2>3, CountIs DEF Unused
    <2>5. Origin' = 0
      BY <2>4 DEF Origin
    <2>6. Reached(end[1])'
      BY <2>1, <2>4, <2>5 DEF Reached
    <2>7. \A m \in Nodes \ {0} : pc'[m] # "publish"
      BY <1>1, <2>3 DEF Unused
    <2>8. InUse'
      BY <2>4, <2>5, <2>6, <2>7 DEF InUse
    <2>9. QED
      BY <1>2, <1>3, <1>4, <1>8, <1>10, <2>2, <2>8 DEF Turn, Ring1
  <1>11. CASE n \notin {0, 1}
    <2>1. end' = end
      BY <1>11 DEF ResetEnd, Turn, Shape, Rings
    <2>2. Ring0' /\ Ring1'
      BY <1>1, <1>5, <1>6, <1>11, <2>1, RingFrame DEF Turn
    <2>3. QED
      BY <1>2, <1>3, <1>4, <2>2 DEF Turn
  <1>12. QED
    BY <1>9, <1>10, <1>11

LEMMA WaitStep ==
  ASSUME Turn, outOfTurn' = {}, NEW n \in Nodes, Wait(n)
  PROVE  Turn'
  <1>1. /\ pc' \in [Nodes -> Labels] /\ pc[n] = "wait" /\ pc'[n] = IF n = 0 THEN "get" ELSE "done"
        /\ \A m \in Nodes \ {n} : pc'[m] = pc[m]
    BY Goes, LabelsAre DEF Turn, Wait, At
  <1>2. Shape'
    BY <1>1 DEF Wait, Turn, Shape, heap, ring
  <1>3. Pages' /\ Cursors'
    BY <1>1, HeapFrame DEF Wait, Turn, heap, Alive, Up, Boxed, Tagged, Named, Full, Passed
  <1>4. Words'
    BY <1>1, WordsFrame DEF Wait, Turn, ring
  <1>5. Ring0' /\ Ring1'
    BY <1>1, RingFrame DEF Wait, Turn, ring, Passed, Unset
  <1>6. QED
    BY <1>2, <1>3, <1>4, <1>5 DEF Turn

-----------------------------------------------------------------------------
(***************************************************************************)
(* The steps with the rings.                                               *)
(***************************************************************************)

(* What is before END in a ring that a node is about to write, and what    *)
(* room there is after it.                                                 *)
LEMMA RoomIs ==
  ASSUME Turn, NEW n \in Nodes, pc[n] = "put", ~Unset(MadeIn(n))
  PROVE  /\ left[n] = 2 /\ ~(Room(start[MadeIn(n)], end[MadeIn(n)]) < 2)
         /\ end[MadeIn(n)] \in Nat /\ end[MadeIn(n)] + 2 < Size
         /\ end[MadeIn(n)] % 2 = 0
  <1>1. left[n] = 2
    BY DEF Turn, Words
  <1>2. CASE n = 0
    <2>1. start[0] = 0 /\ end[0] = 0
      BY <1>2, RingsAre DEF Turn, Ring0, Passed
    <2>2. QED
      BY <1>1, <1>2, <2>1, RingsAre, Bounds DEF Room
  <1>3. CASE n # 0
    <2>1. n \in (Nodes \ {0}) \ Past
      BY <1>3 DEF Past, Passed
    <2>2. Count \in Nat /\ Count <= N - 2
      BY <2>1, CountIs
    <2>3. /\ InUse /\ Reached(end[1]) /\ Origin \in {0, 2}
          /\ start[1] \in Nat /\ end[1] \in Nat
      BY <1>3, RingsAre DEF Turn, Ring1, InUse, Shape
    <2>4. start[1] <= end[1]
      <3>1. pc[0] \in {"visit", "done"} => Past # {}
        BY <2>3 DEF InUse
      <3>2. Past # {} => end[1] >= Origin + 2
        BY <2>3 DEF InUse
      <3>3. QED
        BY <2>3, <3>1, <3>2 DEF Origin, Reached
    <2>5. end[1] <= 2 * N - 2
      BY <2>2, <2>3, Bounds DEF Reached
    <2>6. end[1] % 2 = 0
      BY <2>3 DEF Reached
    <2>7. QED
      BY <1>1, <1>3, <2>3, <2>4, <2>5, <2>6, RingsAre, Bounds DEF Room
  <1>4. QED
    BY <1>2, <1>3

(* Who uses a ring in turn uses one that its owner has reset. *)
LEMMA InTimeIs ==
  ASSUME outOfTurn' = {}, NEW n \in Nodes, NEW r, InTime(n, r)
  PROVE  ~Unset(r)
  <1>1. n \notin outOfTurn'
    OBVIOUS
  <1>2. Up(r)
    BY <1>1 DEF InTime
  <1>3. QED
    BY <1>2 DEF Up, Unset

LEMMA PutStep ==
  ASSUME Turn, outOfTurn' = {}, NEW n \in Nodes, Put(n)
  PROVE  Turn'
  <1> DEFINE r == MadeIn(n)
             e == end[r]
  <1>1. /\ pc' \in [Nodes -> Labels] /\ pc[n] = "put" /\ pc'[n] = "publish"
        /\ \A m \in Nodes \ {n} : pc'[m] = pc[m]
    BY Goes, LabelsAre DEF Turn, Put, At
  <1>2. /\ left[n] = 2 /\ ~(Room(start[r], e) < 2) /\ r \in Rings
        /\ e \in Nat /\ e + 2 < Size /\ e % 2 = 0
    <2>1. ~Unset(MadeIn(n))
      BY InTimeIs DEF Put
    <2>2. QED
      BY <1>1, <2>1, RoomIs, RingsAre
  <1>3. mbox[n] = TheBox /\ base[n] = nkAddr
    BY <1>1 DEF Turn, Pages, Finds, Boxed, Tagged, Named, Full, Alive, Up
  <1>4. get_ptr(n, mbox[n]) = First + 1
    BY <1>3 DEF get_ptr, TheBox, nkAddr, First
  <1>5. /\ index' = [index EXCEPT ![n] = e]
        /\ free' = [free EXCEPT ![n] = 2]
        /\ buf' = [buf EXCEPT ![r] = [i \in 0..(Size - 1) |->
                     IF i \in e..(e + 2 - 1) THEN <<First + 1, i - e + 2 - 2>> ELSE buf[r][i]]]
        /\ UNCHANGED <<base, mem, heap, mbox, start, end, locked, left, addr>>
    BY <1>2, <1>4 DEF Put
  <1> HIDE DEF r
  <1>6. Shape'
    BY <1>1, <1>2, <1>5 DEF Turn, Shape, heap
  <1>7. Pages' /\ Cursors'
    BY <1>1, <1>5, HeapFrame DEF Turn, heap, Alive, Up, Boxed, Tagged, Named, Full, Passed
  <1>8. Words'
    <2>1. left'[n] = 2 /\ free'[n] = 2
      BY <1>2, <1>5 DEF Turn, Shape
    <2>2. \A m \in Nodes \ {n} : left'[m] = left[m] /\ free'[m] = free[m] /\ addr'[m] = addr[m]
      BY <1>5 DEF Turn, Shape
    <2>3. QED
      BY <1>1, <2>1, <2>2, WordsFrame DEF Turn
  <1>9. /\ Good(r, e)' /\ Good(r, e + 1)'
        /\ \A q \in Rings, i \in 0..(Size - 1) : Good(q, i) => Good(q, i)'
    <2>1. e % 2 = 0 /\ (e + 1) % 2 = 1 /\ e \in 0..(Size - 1) /\ e + 1 \in 0..(Size - 1)
      BY <1>2, Bounds
    <2>2. /\ \A q \in Rings \ {r} : buf'[q] = buf[q]
          /\ buf'[r] = [i \in 0..(Size - 1) |->
                         IF i \in e..(e + 2 - 1) THEN <<First + 1, i - e + 2 - 2>> ELSE buf[r][i]]
      BY <1>2, <1>5 DEF Turn, Shape
    <2>3. \A i \in 0..(Size - 1) : i \notin {e, e + 1} => buf'[r][i] = buf[r][i]
      BY <1>2, <2>2
    <2>4. e \in e..(e + 2 - 1) /\ e + 1 \in e..(e + 2 - 1) /\ e - e + 2 - 2 = 0 /\ (e + 1) - e + 2 - 2 = 1
      BY <1>2
    <2>5. buf'[r][e] = <<First + 1, 0>> /\ buf'[r][e + 1] = <<First + 1, 1>>
      <3> DEFINE f == [i \in 0..(Size - 1) |->
                         IF i \in e..(e + 2 - 1) THEN <<First + 1, i - e + 2 - 2>> ELSE buf[r][i]]
      <3>1. f[e] = <<First + 1, e - e + 2 - 2>> /\ f[e + 1] = <<First + 1, (e + 1) - e + 2 - 2>>
        BY <2>1, <2>4
      <3>2. buf'[r] = f
        BY <2>2
      <3> HIDE DEF f
      <3>3. QED
        BY <3>1, <3>2, <2>4
    <2>6. UNCHANGED e
      BY <1>5 DEF r, MadeIn
    <2>7. Good(r, e)' /\ Good(r, e + 1)'
      BY <2>1, <2>5, <2>6 DEF Good, r, MadeIn
    <2>8. ASSUME NEW q \in Rings, NEW i \in 0..(Size - 1), Good(q, i)
          PROVE  Good(q, i)'
      <3>1. CASE q = r /\ i \in {e, e + 1}
        BY <3>1, <2>1, <2>5 DEF Good
      <3>2. CASE ~(q = r /\ i \in {e, e + 1})
        BY <3>2, <2>2, <2>3, <2>8 DEF Good
      <3>3. QED
        BY <3>1, <3>2
    <2>9. QED
      BY <2>7, <2>8
  <1>10. (\A m \in Nodes : Passed(m)' <=> Passed(m)) /\ Past' = Past /\ Count' = Count
    BY <1>1, OthersAre DEF Passed, Past, Count
  <1>11. index'[n] = e /\ \A m \in Nodes \ {n} : index'[m] = index[m]
    BY <1>5 DEF Turn, Shape
  <1>12. Origin' = Origin
    BY <1>1, <1>5, ZeroIsNode DEF Origin
  <1>13. Ring0'
    <2>1. CASE n = 0
      <3>1. r = 0 /\ start[0] = 0 /\ e = 0 /\ ~Passed(0)
        BY <1>1, <2>1, RingsAre DEF r, Turn, Ring0, Passed, Unset
      <3>2. start'[0] = 0 /\ end'[0] = 0 /\ index'[0] = 0 /\ Good(0, 0)' /\ Good(0, 1)'
        BY <1>5, <1>9, <1>11, <2>1, <3>1
      <3>3. QED
        BY <1>1, <1>10, <1>11, <2>1, <3>1, <3>2, ZeroIsNode DEF Turn, Ring0, Unset
    <2>2. CASE n # 0
      <3>1. r = 1
        BY <2>2, RingsAre DEF r
      <3>2. buf'[0] = buf[0] /\ UNCHANGED <<start, end>>
        BY <1>5, <3>1, RingsAre DEF Turn, Shape
      <3>3. \A i : Good(0, i)' <=> Good(0, i)
        BY <3>2 DEF Good
      <3>4. QED
        BY <1>1, <1>10, <1>11, <2>2, <3>2, <3>3, ZeroIsNode DEF Turn, Ring0, Unset
    <2>3. QED
      BY <2>1, <2>2
  <1>14. ASSUME InUse, NEW x \in Nat, Reached(x)
         PROVE  Reached(x)'
    <2>1. Count \in Nat /\ Count <= N - 1 /\ Origin \in {0, 2}
      BY <1>14, CountIs DEF InUse
    <2>2. \A i \in Origin..(x - 1) : i \in 0..(Size - 1)
      BY <1>14, <2>1, Bounds DEF Reached
    <2>3. \A i \in Origin..(x - 1) : Good(1, i)'
      BY <1>9, <1>14, <2>2, RingsAre DEF Reached
    <2>4. QED
      BY <1>10, <1>12, <1>14, <2>3 DEF Reached
  <1>15. ASSUME InUse, NEW m \in Nodes \ {0}, pc'[m] = "publish"
         PROVE  Reached(index[m])' /\ Good(1, index[m])' /\ Good(1, index[m] + 1)'
    <2>1. CASE m = n
      <3>1. r = 1 /\ index'[m] = e
        BY <1>11, <2>1, RingsAre DEF r
      <3>2. e' = e
        BY <1>5 DEF r, MadeIn
      <3>3. Reached(e)'
        <4>1. Reached(e)
          BY <1>15, <3>1 DEF InUse
        <4>2. QED
          BY <1>2, <1>14, <1>15, <3>2, <4>1 DEF Reached
      <3>4. QED
        BY <1>9, <3>1, <3>2, <3>3 DEF Reached, Good
    <2>2. CASE m # n
      <3>1. pc[m] = "publish" /\ index'[m] = index[m] /\ index[m] \in Nat
        BY <1>1, <1>11, <1>15, <2>2 DEF Turn, Shape
      <3>2. Reached(index[m]) /\ Good(1, index[m]) /\ Good(1, index[m] + 1)
        BY <1>15, <3>1 DEF InUse
      <3>3. m \in (Nodes \ {0}) \ Past
        BY <3>1 DEF Past, Passed
      <3>4. Count \in Nat /\ Count <= N - 2 /\ Origin \in {0, 2}
        BY <1>15, <3>3, CountIs DEF InUse
      <3>5. index[m] \in 0..(Size - 1) /\ index[m] + 1 \in 0..(Size - 1)
        BY <3>1, <3>2, <3>4, Bounds DEF Reached
      <3>6. Good(1, index[m])' /\ Good(1, index[m] + 1)'
        <4> DEFINE x == index[m]
        <4>1. x' = x /\ Good(1, x) /\ Good(1, x + 1) /\ x \in 0..(Size - 1) /\ x + 1 \in 0..(Size - 1)
          BY <3>1, <3>2, <3>5
        <4>2. QED
          BY <1>9, <4>1, RingsAre DEF Good
      <3>7. Reached(index[m])'
        BY <1>14, <1>15, <3>1, <3>2 DEF Reached
      <3>8. QED
        BY <3>6, <3>7
    <2>3. QED
      BY <2>1, <2>2
  <1>16. ASSUME InUse
         PROVE  InUse'
    <2>1. end' = end /\ start' = start /\ end[1] \in Nat
      BY <1>5, RingsAre DEF Turn, Shape
    <2>2. Reached(end[1])'
      BY <1>14, <1>16, <2>1 DEF InUse, Reached
    <2>3. pc'[0] \in {"release", "visit", "done"} => pc'[0] = pc[0] /\ index'[0] = index[0]
      BY <1>1, <1>11, ZeroIsNode
    <2>4. QED
      BY <1>10, <1>12, <1>15, <1>16, <2>1, <2>2, <2>3 DEF InUse
  <1>17. ASSUME Unset(1)
         PROVE  Unused => Unused'
    <2>1. n = 0
      <3>1. n # 0 => r = 1
        BY RingsAre DEF r
      <3>2. ~Unset(MadeIn(n))
        BY InTimeIs DEF Put
      <3>3. QED
        BY <1>17, <3>1, <3>2 DEF r
    <2>2. QED
      BY <1>1, <1>5, <1>10, <2>1, ZeroIsNode DEF Unused
  <1>18. Unset(1)' <=> Unset(1)
    BY <1>1, ZeroIsNode DEF Unset
  <1>19. QED
    BY <1>6, <1>7, <1>8, <1>13, <1>16, <1>17, <1>18 DEF Turn, Ring1

(* Nobody finds a ring full, so nobody lets go of a lock in vain. *)
LEMMA NoYield ==
  ASSUME Turn, outOfTurn' = {}, NEW n \in Nodes
  PROVE  ~Yield(n) /\ ~Relock(n)
  <1>1. ASSUME Yield(n)
        PROVE  FALSE
    <2>1. ~Unset(MadeIn(n))
      BY <1>1, InTimeIs DEF Yield
    <2>2. QED
      BY <1>1, <2>1, RoomIs DEF Yield, At
  <1>2. ~Relock(n)
    BY DEF Relock, At, Turn, Shape, Labels, Making
  <1>3. QED
    BY <1>1, <1>2

LEMMA PublishStep ==
  ASSUME Turn, outOfTurn' = {}, NEW n \in Nodes, Publish(n)
  PROVE  Turn'
  <1>1. pc[n] = "publish" /\ left[n] = 2 /\ free[n] = 2 /\ pc \in [Nodes -> Labels]
    BY DEF Turn, Words, Publish, At, Shape
  <1>2. /\ pc' \in [Nodes -> Labels] /\ pc'[n] = "wait"
        /\ \A m \in Nodes \ {n} : pc'[m] = pc[m]
    BY <1>1, Goes, LabelsAre DEF Turn, Publish
  <1>0. n # 0 => InUse /\ ~Unset(1)
    BY <1>1, ZeroIsNode DEF Turn, Ring1, Unused
  <1> DEFINE x == index[n]
  <1>3. x \in Nat /\ x + 2 < Size /\ x % 2 = 0 /\ (n = 0 => x = 0)
    <2>1. x \in Nat
      BY DEF Turn, Shape
    <2>2. CASE n = 0
      BY <1>1, <2>2, Bounds DEF Turn, Ring0
    <2>3. CASE n # 0
      <3>1. n \in (Nodes \ {0}) \ Past
        BY <1>1, <2>3 DEF Past, Passed
      <3>2. Count \in Nat /\ Count <= N - 2 /\ Origin \in {0, 2} /\ Reached(x)
        BY <1>0, <1>1, <2>3, <3>1, CountIs DEF InUse
      <3>3. QED
        BY <2>1, <2>3, <3>2, Bounds DEF Reached
    <2>4. QED
      BY <2>2, <2>3
  <1>4. (x + 2) % Size = x + 2
    BY <1>3, Bounds
  <1>5. /\ end' = [end EXCEPT ![MadeIn(n)] = x + 2]
        /\ left' = [left EXCEPT ![n] = @ - free[n]]
        /\ UNCHANGED <<base, mem, heap, mbox, start, locked, buf, index, free, addr>>
    BY <1>1, <1>4 DEF Publish
  <1>6. left'[n] = 0 /\ left' \in [Nodes -> Nat]
    BY <1>1, <1>5 DEF Turn, Shape
  <1> HIDE DEF x
  <1>7. Shape'
    <2>1. MadeIn(n) \in Rings /\ x + 2 \in Nat
      BY <1>3, RingsAre
    <2>2. end' \in [Rings -> Nat]
      BY <1>5, <2>1 DEF Turn, Shape
    <2>3. QED
      BY <1>2, <1>5, <1>6, <2>2 DEF Turn, Shape, heap
  <1>8. Pages' /\ Cursors'
    BY <1>1, <1>2, <1>5, HeapFrame DEF Turn, heap, Alive, Up, Boxed, Tagged, Named, Full, Passed
  <1>9. Words'
    <2>1. \A m \in Nodes \ {n} : left'[m] = left[m] /\ free'[m] = free[m] /\ addr'[m] = addr[m]
      BY <1>5 DEF Turn, Shape
    <2>2. QED
      BY <1>2, <2>1, WordsFrame DEF Turn
  <1>10. \A r, i : Good(r, i)' <=> Good(r, i)
    BY <1>5 DEF Good
  <1>11. \A m \in Nodes \ {n} : Passed(m)' <=> Passed(m)
    BY <1>2, OthersAre
  <1>12. Passed(n)' /\ ~Passed(n)
    BY <1>1, <1>2 DEF Passed
  <1>13. CASE n = 0
    <2>1. end'[0] = 2 /\ end'[1] = end[1] /\ start' = start /\ index' = index /\ start[0] = 0
      BY <1>1, <1>3, <1>5, <1>12, <1>13, RingsAre DEF Turn, Shape, Ring0, Unset
    <2>2. Ring0'
      BY <1>1, <1>2, <1>10, <1>11, <1>12, <1>13, <2>1, ZeroIsNode DEF Turn, Ring0, Unset
    <2>3. Past' = Past /\ Count' = Count /\ Origin' = Origin
      BY <1>1, <1>2, <1>11, <1>13, <2>1 DEF Past, Count, Origin
    <2>4. \A e : Reached(e)' <=> Reached(e)
      BY <1>10, <2>3 DEF Reached
    <2>5. InUse => InUse'
      BY <1>2, <1>10, <1>13, <2>1, <2>3, <2>4 DEF InUse
    <2>6. Unused => Unused'
      BY <1>1, <1>2, <1>13, <2>1, <2>3, ZeroIsNode DEF Unused
    <2>7. Unset(1)' <=> Unset(1)
      BY <1>2, <1>13, ZeroIsNode DEF Unset
    <2>8. QED
      BY <1>7, <1>8, <1>9, <2>2, <2>5, <2>6, <2>7 DEF Turn, Ring1
  <1>14. CASE n # 0
    <2>1. end'[1] = x + 2 /\ end'[0] = end[0] /\ start' = start /\ index' = index /\ pc'[0] = pc[0]
      BY <1>2, <1>5, <1>14, RingsAre, ZeroIsNode DEF Turn, Shape
    <2>2. Ring0'
      BY <1>1, <1>2, <1>10, <1>11, <1>14, <2>1, ZeroIsNode DEF Turn, Ring0, Unset
    <2>3. Past' = Past \cup {n} /\ n \in (Nodes \ {0}) \ Past /\ Past \subseteq Nodes \ {0}
      BY <1>11, <1>12, <1>14 DEF Past
    <2>4. Count' = Count + 1 /\ Count \in Nat
      BY <2>3, Counting DEF Count
    <2>5. Origin' = Origin /\ Origin \in {0, 2}
      BY <1>0, <1>14, <2>1 DEF Origin, InUse
    <2>6. \A e \in Int : Reached(e) => Reached(e)'
      BY <1>10, <2>4, <2>5 DEF Reached
    <2>7. Reached(x) /\ Good(1, x) /\ Good(1, x + 1)
      BY <1>0, <1>1, <1>14 DEF x, InUse
    <2>8. Reached(end[1])'
      <3>1. /\ (x + 2) % 2 = 0 /\ Origin <= x /\ x + 2 <= Origin + 2 * (Count + 1)
        BY <1>3, <2>4, <2>5, <2>7 DEF Reached
      <3>2. \A i \in Origin..(x + 2 - 1) : Good(1, i)
        <4>1. \A i \in Origin..(x + 2 - 1) : i \in Origin..(x - 1) \/ i = x \/ i = x + 1
          BY <1>3, <2>5
        <4>2. QED
          BY <2>7, <4>1 DEF Reached
      <3>3. QED
        BY <1>10, <2>1, <2>4, <2>5, <3>1, <3>2, <1>3 DEF Reached
    <2>9. end'[1] >= Origin' + 2
      BY <1>3, <2>1, <2>5, <2>7 DEF Reached
    <2>10. ASSUME NEW m \in Nodes \ {0}, pc'[m] = "publish"
           PROVE  Reached(index[m])' /\ Good(1, index[m])' /\ Good(1, index[m] + 1)'
      <3>1. pc[m] = "publish" /\ index'[m] = index[m] /\ index[m] \in Int
        BY <1>2, <2>1, <2>10 DEF Turn, Shape
      <3>2. Reached(index[m]) /\ Good(1, index[m]) /\ Good(1, index[m] + 1)
        BY <1>0, <1>14, <3>1 DEF InUse
      <3>3. Reached(index[m])'
        BY <2>6, <3>1, <3>2 DEF Reached
      <3>4. Good(1, index[m])' /\ Good(1, index[m] + 1)'
        BY <1>10, <3>1, <3>2 DEF Good
      <3>5. QED
        BY <3>3, <3>4
    <2>11. InUse'
      BY <1>0, <1>14, <2>1, <2>3, <2>5, <2>8, <2>9, <2>10 DEF InUse
    <2>12. ~Unset(1)'
      BY <1>0, <1>2, <1>14, ZeroIsNode DEF Unset
    <2>13. QED
      BY <1>7, <1>8, <1>9, <2>2, <2>11, <2>12 DEF Turn, Ring1
  <1>15. QED
    BY <1>13, <1>14

LEMMA GetStep ==
  ASSUME Turn, outOfTurn' = {}, NEW n \in Nodes, Get(n)
  PROVE  Turn'
  <1> DEFINE r == ReadIn(n)
             s == start[r]
  <1>1. /\ pc' \in [Nodes -> Labels] /\ pc[n] = "get" /\ pc'[n] = "release"
        /\ \A m \in Nodes \ {n} : pc'[m] = pc[m]
    BY Goes, LabelsAre DEF Turn, Get, At
  <1>2. /\ index' = [index EXCEPT ![n] = s]
        /\ UNCHANGED <<base, mem, heap, mbox, start, end, locked, buf, free, left>>
    BY DEF Get
  <1>3. ~(Used(s, end[r]) < 2) /\ s \in Nat /\ end[r] \in Nat
    <2>1. r \in Rings
      BY RingsAre
    <2>2. s \in Nat /\ end[r] \in Nat
      BY <2>1 DEF Turn, Shape
    <2>3. ~(Used(s, end[r]) < 2)
      <3>1. IF Used(s, end[r]) < 2 THEN outOfTurn' = outOfTurn \cup {n} ELSE InTime(n, r)
        BY DEF Get
      <3>2. n \notin outOfTurn'
        OBVIOUS
      <3> HIDE DEF r, s
      <3>3. QED
        BY <3>1, <3>2
    <2>4. QED
      BY <2>2, <2>3
  <1>0. ~Unset(r)
    <2>1. InTime(n, r)
      BY <1>3 DEF Get
    <2>2. QED
      BY <2>1, InTimeIs
  <1>4. Good(r, s) /\ Good(r, s + 1) /\ s % 2 = 0 /\ (n # 0 => s = 0 /\ Passed(0)) /\ (n = 0 => Past # {})
    <2>1. CASE n = 0
      <3>1. Origin = s /\ Origin \in {0, 2} /\ Reached(end[r]) /\ r = 1
        BY <1>0, <1>1, <2>1, RingsAre DEF Turn, Ring1, InUse, Origin
      <3>2. s + 2 <= end[r]
        BY <1>3, <3>1 DEF Reached, Used
      <3>3. s \in Origin..(end[r] - 1) /\ s + 1 \in Origin..(end[r] - 1)
        BY <1>3, <3>1, <3>2
      <3>4. Good(1, s) /\ Good(1, s + 1)
        BY <3>1, <3>3 DEF Reached
      <3>5. Past # {}
        BY <1>3, <3>1, <3>2, CountIs DEF Reached
      <3>6. QED
        BY <2>1, <3>1, <3>4, <3>5
    <2>2. CASE n # 0
      <3>1. r = 0
        BY <2>2, RingsAre
      <3>2. Passed(0) \/ start[0] = end[0]
        BY <1>0, <3>1 DEF Turn, Ring0
      <3>3. Passed(0)
        BY <1>3, <3>1, <3>2 DEF Used
      <3>4. end[0] = 2 /\ start[0] \in {0, 2} /\ Good(0, 0) /\ Good(0, 1)
        BY <3>3 DEF Turn, Ring0
      <3>5. s = 0
        BY <1>3, <3>1, <3>4 DEF Used
      <3>6. QED
        BY <2>2, <3>1, <3>3, <3>4, <3>5
    <2>3. QED
      BY <2>1, <2>2
  <1>22. s + 1 < Size
    <2>1. CASE n = 0
      <3>1. s \in {0, 2}
        BY <1>0, <1>1, <2>1, RingsAre DEF Turn, Ring1, InUse, Origin
      <3>2. QED
        BY <3>1, Bounds
    <2>2. CASE n # 0
      BY <1>4, <2>2, Bounds
    <2>3. QED
      BY <2>1, <2>2
  <1>5. buf[r][s] = <<First + 1, 0>> /\ buf[r][s + 1] = <<First + 1, 1>>
    BY <1>3, <1>4 DEF Good
  <1>6. addr' = [addr EXCEPT ![n] = First + 1]
    <2> DEFINE a == buf[r][s]
               b == CASE s + 1 < Size               -> buf[r][s + 1]
                      [] s + 1 = Size /\ end[r] < s -> buf[r][0]
                      [] OTHER                      -> <<Junk, 1>>
    <2>1. addr' = [addr EXCEPT ![n] = IF a[1] = b[1] /\ a[2] < b[2] THEN a[1] ELSE Junk]
      BY DEF Get
    <2>2. ~(s + 1 = Size)
      BY <1>3, <1>22, Bounds
    <2>3. b = buf[r][s + 1]
      <3> HIDE DEF r, s
      <3>1. QED
        BY <1>22, <2>2
    <2>4. a = <<First + 1, 0>> /\ b = <<First + 1, 1>>
      BY <1>5, <2>3
    <2> HIDE DEF a, b
    <2>5. a[1] = First + 1 /\ b[1] = First + 1 /\ a[2] < b[2]
      BY <2>4
    <2>6. QED
      BY <2>1, <2>5
  <1>7. r = ReadIn(n)
    OBVIOUS
  <1> HIDE DEF r
  <1>8. Shape'
    BY <1>1, <1>2, <1>3, <1>6 DEF Turn, Shape, heap
  <1>9. Pages' /\ Cursors'
    BY <1>1, <1>2, HeapFrame DEF Turn, heap, Alive, Up, Boxed, Tagged, Named, Full, Passed
  <1>10. Words'
    <2>1. addr'[n] = First + 1
      BY <1>6 DEF Turn, Shape
    <2>2. \A m \in Nodes \ {n} : left'[m] = left[m] /\ free'[m] = free[m] /\ addr'[m] = addr[m]
      BY <1>2, <1>6 DEF Turn, Shape
    <2>3. QED
      BY <1>1, <2>1, <2>2, WordsFrame DEF Turn
  <1>11. index'[n] = s /\ \A m \in Nodes \ {n} : index'[m] = index[m]
    BY <1>2 DEF Turn, Shape
  <1>12. \A q, i : Good(q, i)' <=> Good(q, i)
    BY <1>2 DEF Good
  <1>13. (\A m \in Nodes : Passed(m)' <=> Passed(m)) /\ Past' = Past /\ Count' = Count
    BY <1>1, OthersAre DEF Passed, Past, Count
  <1>14. Ring0'
    BY <1>1, <1>2, <1>4, <1>11, <1>12, <1>13, ZeroIsNode DEF Turn, Ring0, Unset
  <1>15. Origin' = Origin
    BY <1>1, <1>2, ZeroIsNode DEF Origin
  <1>16. \A e : Reached(e)' <=> Reached(e)
    BY <1>12, <1>13, <1>15 DEF Reached
  <1>17. InUse => (pc'[0] = "release" => index'[0] = start'[1])
    <2>1. CASE n = 0
      BY <1>2, <1>7, <1>11, <2>1, RingsAre
    <2>2. CASE n # 0
      BY <1>1, <1>2, <1>11, <2>2, ZeroIsNode DEF InUse
    <2>3. QED
      BY <2>1, <2>2
  <1>18. InUse => (pc'[0] \in {"release", "visit", "done"} => Past # {})
    BY <1>1, <1>4, ZeroIsNode DEF InUse
  <1>19. \A m \in Nodes : pc'[m] = "publish" => pc[m] = "publish" /\ index'[m] = index[m]
    BY <1>1, <1>11
  <1>20. InUse => InUse'
    BY <1>2, <1>12, <1>13, <1>15, <1>16, <1>17, <1>18, <1>19 DEF InUse
  <1>23. Unset(1) => n # 0
    BY <1>0, <1>7, RingsAre
  <1>24. Unset(1) /\ Unused => Unused'
    BY <1>1, <1>2, <1>13, <1>19, <1>23, ZeroIsNode DEF Unused
  <1>25. Unset(1)' <=> Unset(1)
    BY <1>1, ZeroIsNode DEF Unset
  <1>21. QED
    BY <1>8, <1>9, <1>10, <1>14, <1>20, <1>24, <1>25 DEF Turn, Ring1

LEMMA ReleaseStep ==
  ASSUME Turn, outOfTurn' = {}, NEW n \in Nodes, Release(n)
  PROVE  Turn'
  <1>1. /\ pc' \in [Nodes -> Labels] /\ pc[n] = "release" /\ pc'[n] = "visit"
        /\ \A m \in Nodes \ {n} : pc'[m] = pc[m]
    BY Goes, LabelsAre DEF Turn, Release, At
  <1>0. (n = 0 => InUse) /\ (Unset(1)' <=> Unset(1))
    BY <1>1, ZeroIsNode DEF Turn, Ring1, Unused, Unset
  <1>2. index[n] \in {0, 2} /\ (n # 0 => index[n] = 0) /\ (n = 0 => index[n] = start[1] /\ Origin = start[1])
    BY <1>0, <1>1 DEF Turn, Ring0, InUse, Origin
  <1>3. (index[n] + 2) % Size = index[n] + 2
    BY <1>2, Bounds
  <1>4. /\ start' = [start EXCEPT ![ReadIn(n)] = index[n] + 2]
        /\ UNCHANGED <<base, mem, heap, mbox, end, locked, buf, index, free, left, addr>>
    BY <1>3 DEF Release
  <1>5. Shape'
    <2>1. ReadIn(n) \in Rings /\ index[n] + 2 \in Nat
      BY <1>2, RingsAre
    <2>2. start' \in [Rings -> Nat]
      BY <1>4, <2>1 DEF Turn, Shape
    <2>3. QED
      BY <1>1, <1>4, <2>2 DEF Turn, Shape, heap
  <1>6. Pages' /\ Cursors'
    BY <1>1, <1>4, HeapFrame DEF Turn, heap, Alive, Up, Boxed, Tagged, Named, Full, Passed
  <1>7. Words'
    <2>1. addr'[n] = First + 1
      BY <1>1, <1>4 DEF Turn, Words
    <2>2. QED
      BY <1>1, <1>4, <2>1, WordsFrame DEF Turn
  <1>8. \A q, i : Good(q, i)' <=> Good(q, i)
    BY <1>4 DEF Good
  <1>9. (\A m \in Nodes : Passed(m)' <=> Passed(m)) /\ Past' = Past /\ Count' = Count
    BY <1>1, OthersAre DEF Passed, Past, Count
  <1>10. CASE n = 0
    <2>1. start'[0] = start[0] /\ start'[1] = start[1] + 2 /\ start[1] \in Nat
      BY <1>2, <1>4, <1>10, RingsAre DEF Turn, Shape
    <2>2. Ring0'
      BY <1>1, <1>4, <1>8, <1>9, <1>10, <2>1, ZeroIsNode DEF Turn, Ring0, Unset
    <2>3. Origin' = Origin
      BY <1>1, <1>2, <1>10, <2>1 DEF Origin
    <2>4. \A e : Reached(e)' <=> Reached(e)
      BY <1>8, <1>9, <2>3 DEF Reached
    <2>5. InUse'
      BY <1>0, <1>1, <1>4, <1>8, <1>9, <1>10, <2>3, <2>4 DEF InUse
    <2>6. ~Unset(1)
      BY <1>1, <1>10 DEF Turn, Ring1, Unused
    <2>7. QED
      BY <1>0, <1>5, <1>6, <1>7, <2>2, <2>5, <2>6 DEF Turn, Ring1
  <1>11. CASE n # 0
    <2>1. start'[0] = 2 /\ start'[1] = start[1] /\ pc'[0] = pc[0] /\ Passed(0)
      <3>1. start'[0] = 2 /\ start'[1] = start[1]
        BY <1>2, <1>4, <1>11, RingsAre DEF Turn, Shape
      <3>2. Passed(0)
        BY <1>1, <1>11 DEF Turn, Ring0
      <3>3. QED
        BY <1>1, <1>11, <3>1, <3>2, ZeroIsNode
    <2>2. Ring0'
      BY <1>1, <1>4, <1>8, <1>9, <1>11, <2>1, ZeroIsNode DEF Turn, Ring0, Passed, Unset
    <2>3. Origin' = Origin
      BY <2>1 DEF Origin
    <2>4. \A e : Reached(e)' <=> Reached(e)
      BY <1>8, <1>9, <2>3 DEF Reached
    <2>5. InUse => InUse'
      BY <1>1, <1>4, <1>8, <1>9, <1>11, <2>1, <2>3, <2>4 DEF InUse
    <2>6. Unused => Unused'
      BY <1>1, <1>4, <1>9, <1>11, <2>1, ZeroIsNode DEF Unused
    <2>7. QED
      BY <1>0, <1>5, <1>6, <1>7, <2>2, <2>5, <2>6 DEF Turn, Ring1
  <1>12. QED
    BY <1>10, <1>11

-----------------------------------------------------------------------------
(***************************************************************************)
(* The steps in the shared pages.                                          *)
(***************************************************************************)

(* What another node does there leaves a node what it has. *)
LEMMA Elsewhere ==
  ASSUME NEW m \in Nodes, Finds(m), Allocates(m), pc'[m] = pc[m],
         base'[m] = base[m], mbox'[m] = mbox[m], freeList'[m] = freeList[m],
         prev'[m] = prev[m], curr'[m] = curr[m],
         mem'[First] \in {mem[First], Header(First, Units), Header(First, 2)},
         mem'[First + 2] \in {mem[First + 2], Header(First + 2, Units - 2), Header(First + 2, 3)},
         \/ mem'[First + 1] \in {mem[First + 1], Box(TheString)}
         \/ mem[First + 1] = nothing /\ mem'[First + 1] = Box(Junk),
         mem'[First + 1] # nothing \/ mem'[First + 1] = mem[First + 1],
         "text" \in DOMAIN mem[First + 3] => "text" \in DOMAIN mem'[First + 3],
         untouched'[m] => /\ untouched[m]
                          /\ mem'[First] \in {mem[First], Header(First, Units)}
                          /\ mem'[First + 2] = mem[First + 2]
  PROVE  Finds(m)' /\ Allocates(m)'
  <1>1. /\ Alive(m)' <=> Alive(m)
        /\ Full(m)' <=> Full(m)
        /\ Named(m)' <=> Named(m)
        /\ Tagged(m)' <=> Tagged(m)
        /\ Boxed(m)' <=> Boxed(m)
    BY OthersAre
  <1>2. (Named(m) => Tagged(m)) /\ (Tagged(m) => Boxed(m))
    BY DEF Tagged, Boxed
  <1>3. Finds(m)'
    BY <1>1, <1>2 DEF Finds
  <1>4. Allocates(m)'
    BY <1>1 DEF Allocates
  <1>5. QED
    BY <1>3, <1>4

(* What the kinds of records are told apart by. *)
LEMMA RecordsAre ==
  /\ "testString" \notin DOMAIN nothing
  /\ \A t : "testString" \in DOMAIN Box(t) /\ Box(t).testString = t /\ Box(t) # nothing
  /\ \A t : "text" \in DOMAIN [text |-> t]
  /\ \A x, k : Header(x, k).next = x /\ Header(x, k).size = k
  BY DEF nothing, Box, Header

LEMMA PointersAre ==
  /\ TheBox \in Int /\ TheString \in Int /\ nkAddr \in Int
  /\ TheBox \notin {Null, Junk} /\ TheString \notin {Null, Junk}
  /\ Nunits(8) = 2 /\ Nunits(10) = 3
  /\ \A n : base[n] = nkAddr =>
       get_ptr(n, TheBox) = First + 1 /\ get_ptr(n, TheString) = First + 3
       /\ get_addr(n, First + 1) = TheBox
  BY Bounds DEF TheBox, TheString, nkAddr, First, get_ptr, get_addr, Nunits

LEMMA SCCInitStep ==
  ASSUME Turn, outOfTurn' = {}, NEW n \in Nodes, SCCInit(n)
  PROVE  Turn'
  <1>1. /\ pc' \in [Nodes -> Labels] /\ pc[n] = "init" /\ pc'[n] = IF n = 0 THEN "box" ELSE "get"
        /\ \A m \in Nodes \ {n} : pc'[m] = pc[m]
    BY Goes, LabelsAre DEF Turn, SCCInit, At
  <1>2. /\ base' = [base EXCEPT ![n] = nkAddr]
        /\ freeList' = [freeList EXCEPT ![n] = First]
        /\ mem' = [mem EXCEPT ![First] = Header(First, Units)]
        /\ untouched' = [untouched EXCEPT ![n] = TRUE]
        /\ UNCHANGED <<prev, curr, mbox, start, end, buf, index, free, left, addr>>
    BY DEF SCCInit, local
  <1>3. Shape'
    BY <1>1, <1>2 DEF Turn, Shape
  <1>4. /\ mem'[First] = Header(First, Units) /\ mem'[First + 1] = mem[First + 1]
        /\ mem'[First + 2] = mem[First + 2] /\ mem'[First + 3] = mem[First + 3]
    BY <1>2, CellsAre DEF Turn, Shape
  <1>5. ASSUME NEW m \in Nodes
        PROVE  Finds(m)' /\ Allocates(m)'
    <2>1. Finds(m) /\ Allocates(m)
      BY DEF Turn, Pages, Cursors
    <2>2. CASE m = n
      <3>1. base'[n] = nkAddr /\ freeList'[n] = First /\ mbox'[n] = mbox[n]
        BY <1>2 DEF Turn, Shape
      <3>2. ~Boxed(n) /\ ~Boxed(n)' /\ ~Tagged(n)' /\ ~Named(n)' /\ ~Full(n)' /\ ~Passed(n)'
        BY <1>1 DEF Boxed, Tagged, Named, Full, Passed
      <3>3. Finds(n)'
        BY <1>4, <2>1, <2>2, <3>1, <3>2 DEF Finds
      <3>4. Allocates(n)'
        BY <1>1, <1>4, <3>1 DEF Allocates
      <3>5. QED
        BY <2>2, <3>3, <3>4
    <2>3. CASE m # n
      <3>1. /\ base'[m] = base[m] /\ mbox'[m] = mbox[m] /\ freeList'[m] = freeList[m]
            /\ prev'[m] = prev[m] /\ curr'[m] = curr[m] /\ untouched'[m] = untouched[m]
        BY <1>2, <2>3 DEF Turn, Shape
      <3>2. QED
        BY <1>1, <1>4, <2>1, <2>3, <3>1, Elsewhere
    <2>4. QED
      BY <2>2, <2>3
  <1>6. Words'
    BY <1>1, <1>2, WordsFrame DEF Turn
  <1>7. Ring0' /\ Ring1'
    BY <1>1, <1>2, RingFrame DEF Turn, Passed, Unset
  <1>8. QED
    BY <1>3, <1>5, <1>6, <1>7 DEF Turn, Pages, Cursors

(* A node finds the list as it left it, and steps onto its only block. *)
LEMMA LookStep ==
  ASSUME Turn, outOfTurn' = {}, NEW n \in Nodes, NEW from, NEW to,
         <<from, to>> \in {<<"box", "takeBox">>, <<"string", "takeString">>}, Look(n, from, to)
  PROVE  Turn'
  <1> DEFINE b == IF from = "box" THEN First ELSE First + 2
  <1>1. Finds(n) /\ Allocates(n) /\ pc[n] = from /\ b \in Int
        /\ ((from = "box" /\ to = "takeBox") \/ (from = "string" /\ to = "takeString"))
    <2>1. Finds(n) /\ Allocates(n)
      BY DEF Turn, Pages, Cursors
    <2>2. pc[n] = from
      BY DEF Look, At
    <2>3. QED
      BY <2>1, <2>2, CellsAre
  <1>2. freeList[n] = b /\ mem[b].next = b
    <2>1. CASE from = "box"
      <3>1. Alive(n) /\ ~Boxed(n)
        BY <1>1, <2>1 DEF Alive, Up, Boxed, Tagged, Named, Full, Passed
      <3>2. freeList[n] = First /\ mem[First] \in {Header(First, Units), Header(First, 2)}
        BY <1>1, <3>1 DEF Finds, Allocates
      <3>3. QED
        BY <2>1, <3>2, RecordsAre
    <2>2. CASE from = "string"
      <3>1. Boxed(n)
        BY <1>1, <2>2 DEF Boxed, Tagged
      <3>2. /\ freeList[n] = First + 2
            /\ mem[First + 2] \in {Header(First + 2, Units - 2), Header(First + 2, 3)}
        BY <1>1, <2>2, <3>1 DEF Finds, Allocates
      <3>3. QED
        BY <2>2, <3>2, RecordsAre
    <2>3. QED
      BY <1>1, <2>1, <2>2
  <1>3. freeList[n] # Null
    BY <1>1, <1>2, Bounds
  <1>4. Goto(n, to) /\ prev' = [prev EXCEPT ![n] = b] /\ curr' = [curr EXCEPT ![n] = b]
        /\ UNCHANGED <<base, mem, freeList, untouched, mbox, ring, addr>>
    BY <1>2, <1>3 DEF Look
  <1>5. pc' \in [Nodes -> Labels] /\ pc'[n] = to /\ \A m \in Nodes \ {n} : pc'[m] = pc[m]
    BY <1>1, <1>4, Goes, LabelsAre DEF Turn
  <1>6. prev'[n] = b /\ curr'[n] = b
    BY <1>4 DEF Turn, Shape
  <1>7. Shape'
    BY <1>4, <1>5 DEF Turn, Shape, ring
  <1>8. ASSUME NEW m \in Nodes
        PROVE  Finds(m)' /\ Allocates(m)'
    <2>1. CASE m = n
      <3>1. /\ Alive(n)' <=> Alive(n)
            /\ Full(n)' <=> Full(n)
            /\ Named(n)' <=> Named(n)
            /\ Tagged(n)' <=> Tagged(n)
            /\ Boxed(n)' <=> Boxed(n)
        BY <1>1, <1>5 DEF Alive, Up, Boxed, Tagged, Named, Full, Passed
      <3>2. Finds(n)'
        BY <1>1, <1>4, <3>1 DEF Finds
      <3>3. Allocates(n)'
        BY <1>1, <1>4, <1>5, <1>6, <3>1 DEF Allocates
      <3>4. QED
        BY <2>1, <3>2, <3>3
    <2>2. CASE m # n
      <3>1. Finds(m) /\ Allocates(m) /\ prev'[m] = prev[m] /\ curr'[m] = curr[m]
        BY <1>4, <2>2 DEF Turn, Shape, Pages, Cursors
      <3>2. QED
        BY <1>4, <1>5, <2>2, <3>1, Elsewhere
    <2>3. QED
      BY <2>1, <2>2
  <1>9. Words'
    BY <1>1, <1>4, <1>5, WordsFrame DEF Turn, ring
  <1>10. Ring0' /\ Ring1'
    BY <1>1, <1>4, <1>5, RingFrame DEF Turn, ring, Passed, Unset
  <1>11. QED
    BY <1>7, <1>8, <1>9, <1>10 DEF Turn, Pages, Cursors

(* SCCMallocPtr in a heap as the node left it: it cuts u units off the     *)
(* front of the only block, or takes it whole.                             *)
LEMMA TakeIs ==
  ASSUME Shape, outOfTurn' = {}, NEW n \in Nodes, NEW u \in Nat \ {0}, NEW c \in Cells, NEW k,
         untouched[n] => mem[c] = Header(c, k), c + u \in Cells \/ k = u,
         prev[n] = c, curr[n] = c, Take(n, u)
  PROVE  /\ mem[c] = Header(c, k)
         /\ untouched'[n] /\ untouched' \in [Nodes -> BOOLEAN]
         /\ \A m \in Nodes \ {n} : ~untouched'[m]
         /\ freeList' = [freeList EXCEPT ![n] = IF k = u THEN Null ELSE c + u]
         /\ k = u => mem' = mem
         /\ k # u => mem' = [mem EXCEPT ![c + u] = Header(c + u, k - u), ![c] = Header(c, u)]
  <1>1. untouched[n]
    <2>1. outOfTurn' = IF untouched[n] THEN outOfTurn ELSE outOfTurn \cup {n}
      BY DEF Take
    <2>2. QED
      BY <2>1
  <1>2. mem[c] = Header(c, k) /\ mem[c].next = c /\ mem[c].size = k
    BY <1>1, RecordsAre
  <1>3. untouched' = [m \in Nodes |-> untouched[m] /\ m = n]
    BY DEF Take
  <1>4. untouched'[n] /\ untouched' \in [Nodes -> BOOLEAN] /\ \A m \in Nodes \ {n} : ~untouched'[m]
    BY <1>1, <1>3 DEF Shape
  <1>5. CASE k = u
    <2>1. freeList' = [freeList EXCEPT ![n] = Null] /\ mem' = mem
      BY <1>2, <1>5 DEF Take
    <2>2. QED
      BY <1>2, <1>4, <1>5, <2>1
  <1>6. CASE k # u
    <2>1. c \in Int /\ c + u \in Cells /\ c + u # c
      BY <1>6 DEF Cells
    <2>2. freeList' = [freeList EXCEPT ![n] = c + u]
      BY <1>2, <1>6 DEF Take
    <2>3. mem' = [mem EXCEPT ![c + u] = Header(c + u, k - u), ![c].size = u, ![c + u].next = c + u]
      BY <1>2, <1>6 DEF Take
    <2>4. [Header(c, k) EXCEPT !.size = u] = Header(c, u)
          /\ [Header(c + u, k - u) EXCEPT !.next = c + u] = Header(c + u, k - u)
      BY DEF Header
    <2>5. DOMAIN mem' = Cells /\ DOMAIN mem = Cells
      BY <2>3 DEF Shape
    <2>6. /\ mem'[c] = Header(c, u) /\ mem'[c + u] = Header(c + u, k - u)
          /\ \A x \in Cells \ {c, c + u} : mem'[x] = mem[x]
      <3>1. mem'[c] = [mem[c] EXCEPT !.size = u]
        BY <2>1, <2>3, <2>5
      <3>2. mem'[c + u] = [Header(c + u, k - u) EXCEPT !.next = c + u]
        BY <2>1, <2>3, <2>5
      <3>3. \A x \in Cells \ {c, c + u} : mem'[x] = mem[x]
        BY <2>3, <2>5
      <3>4. QED
        BY <1>2, <2>4, <3>1, <3>2, <3>3
    <2>7. mem' = [mem EXCEPT ![c + u] = Header(c + u, k - u), ![c] = Header(c, u)]
      <3> DEFINE g == [mem EXCEPT ![c + u] = Header(c + u, k - u), ![c] = Header(c, u)]
      <3>1. mem' = [x \in Cells |-> mem'[x]]
        BY <2>3, <2>5 DEF Shape
      <3>2. g = [x \in Cells |-> g[x]]
        BY <2>5 DEF Shape
      <3>3. \A x \in Cells : mem'[x] = g[x]
        BY <2>1, <2>5, <2>6
      <3> HIDE DEF g
      <3>4. mem' = g
        BY <3>1, <3>2, <3>3
      <3>5. QED
        BY <3>4 DEF g
    <2>8. QED
      BY <1>2, <1>4, <1>6, <2>2, <2>7
  <1>7. QED
    BY <1>5, <1>6

LEMMA TakeBoxStep ==
  ASSUME Turn, outOfTurn' = {}, NEW n \in Nodes, TakeBox(n)
  PROVE  Turn'
  <1>1. /\ pc' \in [Nodes -> Labels] /\ pc[n] = "takeBox" /\ pc'[n] = "id"
        /\ \A m \in Nodes \ {n} : pc'[m] = pc[m]
    BY Goes, LabelsAre DEF Turn, TakeBox, At
  <1>2. Finds(n) /\ Allocates(n) /\ Alive(n) /\ ~Boxed(n)
    BY <1>1 DEF Turn, Pages, Cursors, Alive, Up, Boxed, Tagged, Named, Full, Passed
  <1>3. base[n] = nkAddr /\ prev[n] = First /\ curr[n] = First /\ (untouched[n] => mem[First] = Header(First, Units))
    BY <1>1, <1>2 DEF Finds, Allocates
  <1>4. Take(n, 2) /\ mbox' = [mbox EXCEPT ![n] = Granted(n)]
        /\ UNCHANGED <<base, prev, curr, ring, addr>>
    BY PointersAre DEF TakeBox, Take
  <1>5. Units # 2 /\ First \in Cells /\ First + 2 \in Cells /\ Shape
    BY CellsAre, Bounds DEF Turn
  <1>6. /\ untouched'[n] /\ untouched' \in [Nodes -> BOOLEAN]
        /\ \A m \in Nodes \ {n} : ~untouched'[m]
        /\ freeList' = [freeList EXCEPT ![n] = First + 2]
        /\ mem' = [mem EXCEPT ![First + 2] = Header(First + 2, Units - 2), ![First] = Header(First, 2)]
    BY <1>3, <1>4, <1>5, TakeIs
  <1>7. Granted(n) = TheBox
    BY <1>3 DEF Granted, TheBox
  <1>8. Shape'
    BY <1>1, <1>4, <1>6 DEF Turn, Shape, ring
  <1>9. /\ mem'[First] = Header(First, 2) /\ mem'[First + 2] = Header(First + 2, Units - 2)
        /\ mem'[First + 1] = mem[First + 1] /\ mem'[First + 3] = mem[First + 3]
    BY <1>6, CellsAre DEF Turn, Shape
  <1>10. ASSUME NEW m \in Nodes
         PROVE  Finds(m)' /\ Allocates(m)'
    <2>1. CASE m = n
      <3>1. base'[n] = nkAddr /\ freeList'[n] = First + 2 /\ mbox'[n] = TheBox
        BY <1>3, <1>4, <1>6, <1>7 DEF Turn, Shape
      <3>2. Boxed(n)' /\ ~Tagged(n)' /\ ~Named(n)' /\ ~Full(n)'
        BY <1>1 DEF Boxed, Tagged, Named, Full, Passed
      <3>3. Finds(n)'
        BY <1>2, <1>9, <2>1, <3>1, <3>2 DEF Finds
      <3>4. Allocates(n)'
        BY <1>1, <1>9, <3>1, <3>2 DEF Allocates
      <3>5. QED
        BY <2>1, <3>3, <3>4
    <2>2. CASE m # n
      <3>1. /\ base'[m] = base[m] /\ mbox'[m] = mbox[m] /\ freeList'[m] = freeList[m]
            /\ prev'[m] = prev[m] /\ curr'[m] = curr[m] /\ Finds(m) /\ Allocates(m)
        BY <1>4, <1>6, <2>2 DEF Turn, Shape, Pages, Cursors
      <3>2. QED
        BY <1>1, <1>6, <1>9, <2>2, <3>1, Elsewhere
    <2>3. QED
      BY <2>1, <2>2
  <1>11. Words'
    BY <1>1, <1>4, WordsFrame DEF Turn, ring
  <1>12. Ring0' /\ Ring1'
    BY <1>1, <1>4, RingFrame DEF Turn, ring, Passed, Unset
  <1>13. QED
    BY <1>8, <1>10, <1>11, <1>12 DEF Turn, Pages, Cursors

LEMMA TakeStringStep ==
  ASSUME Turn, outOfTurn' = {}, NEW n \in Nodes, TakeString(n)
  PROVE  Turn'
  <1> DEFINE c == First + 2
             k == Units - 2
  <1>1. /\ pc' \in [Nodes -> Labels] /\ pc[n] = "takeString" /\ pc'[n] = "name"
        /\ \A m \in Nodes \ {n} : pc'[m] = pc[m]
    BY Goes, LabelsAre DEF Turn, TakeString, At
  <1>2. Finds(n) /\ Allocates(n)
    BY DEF Turn, Pages, Cursors
  <1>3. prev[n] = c /\ curr[n] = c /\ (untouched[n] => mem[c] = Header(c, k))
    BY <1>1, <1>2 DEF Allocates
  <1>4. Take(n, 3) /\ UNCHANGED <<base, mbox, prev, curr, ring, addr>>
    BY PointersAre DEF TakeString, Take
  <1>5. c \in Cells /\ (c + 3 \in Cells \/ k = 3) /\ Shape
    BY CellsAre, Bounds DEF Turn
  <1>6. c + 3 = First + 5
    BY CellsAre
  <1>7. /\ mem[c] = Header(c, k)
        /\ untouched'[n] /\ untouched' \in [Nodes -> BOOLEAN]
        /\ \A m \in Nodes \ {n} : ~untouched'[m]
        /\ freeList' = [freeList EXCEPT ![n] = IF k = 3 THEN Null ELSE c + 3]
        /\ k = 3 => mem' = mem
        /\ k # 3 => mem' = [mem EXCEPT ![c + 3] = Header(c + 3, k - 3), ![c] = Header(c, 3)]
    <2> HIDE DEF c, k
    <2>1. QED
      BY <1>3, <1>4, <1>5, TakeIs
  <1>8. Shape'
    BY <1>1, <1>4, <1>7 DEF Turn, Shape, ring
  <1>9. /\ mem'[First] = mem[First] /\ mem'[First + 2] = Header(First + 2, 3)
        /\ mem'[First + 1] = mem[First + 1] /\ mem'[First + 3] = mem[First + 3]
    <2>1. CASE k = 3
      BY <1>7, <2>1
    <2>2. CASE k # 3
      <3>1. c # c + 3 /\ \A x \in {First, First + 1, First + 3} : x \in Cells /\ x # c /\ x # c + 3
        BY CellsAre
      <3>2. mem' = [mem EXCEPT ![c + 3] = Header(c + 3, k - 3), ![c] = Header(c, 3)] /\ DOMAIN mem = Cells
        BY <1>7, <2>2 DEF Turn, Shape
      <3> HIDE DEF c, k
      <3>3. mem'[c] = Header(c, 3) /\ \A x \in {First, First + 1, First + 3} : mem'[x] = mem[x]
        BY <1>5, <3>1, <3>2
      <3>4. QED
        BY <3>3 DEF c
    <2>3. QED
      BY <2>1, <2>2
  <1>10. ASSUME NEW m \in Nodes
         PROVE  Finds(m)' /\ Allocates(m)'
    <2>1. CASE m = n
      <3>1. /\ Alive(n)' <=> Alive(n)
            /\ Full(n)' <=> Full(n)
            /\ Named(n)' <=> Named(n)
            /\ Tagged(n)' <=> Tagged(n)
            /\ Boxed(n)' <=> Boxed(n)
            /\ Boxed(n)
        BY <1>1 DEF Alive, Up, Boxed, Tagged, Named, Full, Passed
      <3>2. Finds(n)'
        BY <1>2, <1>4, <1>9, <3>1 DEF Finds
      <3>3. Allocates(n)'
        BY <1>1, <1>3, <1>4, <3>1 DEF Allocates
      <3>4. QED
        BY <2>1, <3>2, <3>3
    <2>2. CASE m # n
      <3>1. /\ base'[m] = base[m] /\ mbox'[m] = mbox[m] /\ freeList'[m] = freeList[m]
            /\ prev'[m] = prev[m] /\ curr'[m] = curr[m] /\ Finds(m) /\ Allocates(m)
        BY <1>4, <1>7, <2>2 DEF Turn, Shape, Pages, Cursors
      <3>2. QED
        BY <1>1, <1>7, <1>9, <2>2, <3>1, Elsewhere
    <2>3. QED
      BY <2>1, <2>2
  <1>11. Words'
    BY <1>1, <1>4, WordsFrame DEF Turn, ring
  <1>12. Ring0' /\ Ring1'
    BY <1>1, <1>4, RingFrame DEF Turn, ring, Passed, Unset
  <1>13. QED
    BY <1>8, <1>10, <1>11, <1>12 DEF Turn, Pages, Cursors

LEMMA SetIDStep ==
  ASSUME Turn, outOfTurn' = {}, NEW n \in Nodes, SetID(n)
  PROVE  Turn'
  <1> DEFINE old == mem[First + 1]
             t   == IF "testString" \in DOMAIN old THEN old.testString ELSE Junk
  <1>1. /\ pc' \in [Nodes -> Labels] /\ pc[n] = "id" /\ pc'[n] = "string"
        /\ \A m \in Nodes \ {n} : pc'[m] = pc[m]
    BY Goes, LabelsAre DEF Turn, SetID, At
  <1>2. Finds(n) /\ Allocates(n) /\ Alive(n) /\ Boxed(n)
    BY <1>1 DEF Turn, Pages, Cursors, Alive, Up, Boxed
  <1>3. base[n] = nkAddr /\ mbox[n] = TheBox /\ get_ptr(n, mbox[n]) = First + 1
    <2>1. base[n] = nkAddr /\ mbox[n] = TheBox
      BY <1>2 DEF Finds
    <2>2. QED
      BY <2>1, PointersAre
  <1>4. mem' = [mem EXCEPT ![First + 1] = Box(t)] /\ UNCHANGED <<base, heap, mbox, ring, addr>>
    BY <1>3, CellsAre DEF SetID, Box, Turn, Shape
  <1>5. \/ old = nothing /\ Box(t) = Box(Junk)
        \/ old = Box(Junk) /\ Box(t) = old
        \/ old = Box(TheString) /\ Box(t) = old
    <2>1. old \in {nothing, Box(Junk), Box(TheString)}
      BY <1>2 DEF Finds
    <2>2. (old = nothing => t = Junk) /\ \A x : old = Box(x) => t = x
      BY RecordsAre
    <2> HIDE DEF old, t
    <2>3. QED
      BY <2>1, <2>2
  <1>6. Shape'
    BY <1>1, <1>4 DEF Turn, Shape, heap, ring
  <1>7. /\ mem'[First] = mem[First] /\ mem'[First + 1] = Box(t)
        /\ mem'[First + 2] = mem[First + 2] /\ mem'[First + 3] = mem[First + 3]
    <2> HIDE DEF t
    <2>1. QED
      BY <1>4, CellsAre DEF Turn, Shape
  <1>8. Box(t) # nothing
    BY RecordsAre
  <1> HIDE DEF t
  <1>9. ASSUME NEW m \in Nodes
        PROVE  Finds(m)' /\ Allocates(m)'
    <2>1. CASE m = n
      <3>1. Boxed(n)' /\ Tagged(n)' /\ ~Named(n)' /\ ~Full(n)'
        BY <1>1 DEF Boxed, Tagged, Named, Full, Passed
      <3>2. Finds(n)'
        BY <1>2, <1>3, <1>4, <1>5, <1>7, <1>8, <3>1 DEF Finds
      <3>3. Allocates(n)'
        BY <1>1, <1>2, <1>4, <1>7, <3>1 DEF Allocates, heap
      <3>4. QED
        BY <2>1, <3>2, <3>3
    <2>2. CASE m # n
      <3>1. Finds(m) /\ Allocates(m)
        BY DEF Turn, Pages, Cursors
      <3>2. \/ mem'[First + 1] \in {mem[First + 1], Box(TheString)}
            \/ mem[First + 1] = nothing /\ mem'[First + 1] = Box(Junk)
        BY <1>5, <1>7
      <3>3. QED
        BY <1>1, <1>4, <1>7, <1>8, <2>2, <3>1, <3>2, Elsewhere DEF heap
    <2>3. QED
      BY <2>1, <2>2
  <1>10. Words'
    BY <1>1, <1>4, WordsFrame DEF Turn, ring
  <1>11. Ring0' /\ Ring1'
    BY <1>1, <1>4, RingFrame DEF Turn, ring, Passed, Unset
  <1>12. QED
    BY <1>6, <1>9, <1>10, <1>11 DEF Turn, Pages, Cursors

LEMMA SetStringStep ==
  ASSUME Turn, outOfTurn' = {}, NEW n \in Nodes, SetString(n)
  PROVE  Turn'
  <1>1. /\ pc' \in [Nodes -> Labels] /\ pc[n] = "name" /\ pc'[n] = "greet"
        /\ \A m \in Nodes \ {n} : pc'[m] = pc[m]
    BY Goes, LabelsAre DEF Turn, SetString, At
  <1>2. Finds(n) /\ Allocates(n) /\ Alive(n) /\ Boxed(n) /\ Tagged(n)
    BY <1>1 DEF Turn, Pages, Cursors, Alive, Up, Boxed, Tagged
  <1>3. base[n] = nkAddr /\ mbox[n] = TheBox /\ get_ptr(n, mbox[n]) = First + 1 /\ Granted(n) = TheString
    <2>1. base[n] = nkAddr /\ mbox[n] = TheBox /\ curr[n] = First + 2
      BY <1>1, <1>2 DEF Finds, Allocates
    <2>2. nkAddr + (First + 2) + 1 = TheString
      BY CellsAre DEF TheString, nkAddr
    <2>3. QED
      BY <2>1, <2>2, PointersAre DEF Granted
  <1>4. UNCHANGED <<base, heap, mbox, ring, addr>>
    BY DEF SetString
  <1>5. mem' = [mem EXCEPT ![First + 1].testString = TheString]
    BY <1>3 DEF SetString
  <1>6. mem[First + 1] \in {Box(Junk), Box(TheString)}
    BY <1>2 DEF Finds
  <1>7. mem'[First + 1] = Box(TheString)
    <2>1. mem'[First + 1] = [mem[First + 1] EXCEPT !.testString = TheString]
      BY <1>5, CellsAre DEF Turn, Shape
    <2>2. \A x : [Box(x) EXCEPT !.testString = TheString] = Box(TheString)
      BY DEF Box
    <2>3. QED
      BY <1>6, <2>1, <2>2
  <1>8. mem'[First] = mem[First] /\ mem'[First + 2] = mem[First + 2] /\ mem'[First + 3] = mem[First + 3]
    BY <1>5, CellsAre DEF Turn, Shape
  <1>9. Shape'
    BY <1>1, <1>4, <1>5 DEF Turn, Shape, heap, ring
  <1>10. Box(TheString) # nothing
    BY RecordsAre
  <1>11. ASSUME NEW m \in Nodes
         PROVE  Finds(m)' /\ Allocates(m)'
    <2>1. CASE m = n
      <3>1. Boxed(n)' /\ Tagged(n)' /\ Named(n)' /\ ~Full(n)'
        BY <1>1 DEF Boxed, Tagged, Named, Full, Passed
      <3>2. Finds(n)'
        BY <1>2, <1>3, <1>4, <1>7, <1>8, <1>10, <3>1 DEF Finds
      <3>3. Allocates(n)'
        BY <1>1, <3>1 DEF Allocates
      <3>4. QED
        BY <2>1, <3>2, <3>3
    <2>2. CASE m # n
      <3>1. Finds(m) /\ Allocates(m)
        BY DEF Turn, Pages, Cursors
      <3>2. QED
        BY <1>1, <1>4, <1>7, <1>8, <1>10, <2>2, <3>1, Elsewhere DEF heap
    <2>3. QED
      BY <2>1, <2>2
  <1>12. Words'
    BY <1>1, <1>4, WordsFrame DEF Turn, ring
  <1>13. Ring0' /\ Ring1'
    BY <1>1, <1>4, RingFrame DEF Turn, ring, Passed, Unset
  <1>14. QED
    BY <1>9, <1>11, <1>12, <1>13 DEF Turn, Pages, Cursors

(* Whose string is written, through a pointer to the mailbox: everyone's.  *)
LEMMA WriteIs ==
  ASSUME Shape, NEW n \in Nodes, base[n] = nkAddr, mem[First + 1] = Box(TheString),
         NEW text, WriteString(n, TheBox, text)
  PROVE  mem' = [mem EXCEPT ![First + 3] = [text |-> text]]
  <1>1. get_ptr(n, TheBox) = First + 1 /\ get_ptr(n, TheString) = First + 3 /\ TheString # Junk
    BY PointersAre
  <1>2. mem[First + 1].testString = TheString
    BY RecordsAre
  <1>3. First + 3 \in DOMAIN mem
    BY CellsAre DEF Shape
  <1>4. QED
    BY <1>1, <1>2, <1>3 DEF WriteString

(* A string is written where there may have been none. *)
LEMMA Written ==
  ASSUME Turn, NEW n \in Nodes, NEW text, \A m \in Nodes \ {n} : pc'[m] = pc[m],
         mem[First + 1] = Box(TheString),
         mem' = [mem EXCEPT ![First + 3] = [text |-> text]],
         UNCHANGED <<base, heap, mbox>>,
         Alive(n)' <=> Alive(n), Boxed(n)' <=> Boxed(n), Tagged(n)' => Tagged(n) \/ Full(n),
         pc'[n] \notin {"takeBox", "id", "string", "takeString", "name"}
  PROVE  Pages' /\ Cursors'
  <1>1. /\ mem'[First] = mem[First] /\ mem'[First + 1] = mem[First + 1]
        /\ mem'[First + 2] = mem[First + 2] /\ mem'[First + 3] = [text |-> text]
    BY CellsAre DEF Turn, Shape
  <1>2. "text" \in DOMAIN mem'[First + 3] /\ Box(TheString) # nothing
    BY <1>1, RecordsAre
  <1>3. ASSUME NEW m \in Nodes
        PROVE  Finds(m)' /\ Allocates(m)'
    <2>1. Finds(m) /\ Allocates(m)
      BY DEF Turn, Pages, Cursors
    <2>2. CASE m = n
      <3>1. Finds(n)'
        BY <1>1, <1>2, <2>1, <2>2 DEF Finds
      <3>2. Allocates(n)'
        BY <1>1, <2>1, <2>2 DEF Allocates, heap
      <3>3. QED
        BY <2>2, <3>1, <3>2
    <2>3. CASE m # n
      BY <1>1, <1>2, <2>1, <2>3, Elsewhere DEF heap
    <2>4. QED
      BY <2>2, <2>3
  <1>4. QED
    BY <1>3 DEF Pages, Cursors

LEMMA GreetStep ==
  ASSUME Turn, outOfTurn' = {}, NEW n \in Nodes, Greet(n)
  PROVE  Turn'
  <1>1. /\ pc' \in [Nodes -> Labels] /\ pc[n] = "greet" /\ pc'[n] = "put"
        /\ \A m \in Nodes \ {n} : pc'[m] = pc[m]
    BY Goes, LabelsAre DEF Turn, Greet, At
  <1>2. Finds(n) /\ Alive(n) /\ Boxed(n) /\ Tagged(n) /\ Named(n)
    BY <1>1 DEF Turn, Pages, Alive, Up, Boxed, Tagged, Named
  <1>3. base[n] = nkAddr /\ mbox[n] = TheBox /\ mem[First + 1] = Box(TheString)
    BY <1>2 DEF Finds
  <1>4. /\ left' = [left EXCEPT ![n] = 2] /\ WriteString(n, TheBox, Greeting(n))
        /\ UNCHANGED <<base, heap, mbox, start, end, locked, buf, index, free, addr>>
    BY <1>3 DEF Greet
  <1>5. mem' = [mem EXCEPT ![First + 3] = [text |-> Greeting(n)]]
    BY <1>3, <1>4, WriteIs DEF Turn
  <1>6. Shape'
    BY <1>1, <1>4, <1>5 DEF Turn, Shape, heap
  <1>7. Pages' /\ Cursors'
    <2>1. (Alive(n)' <=> Alive(n)) /\ (Boxed(n)' <=> Boxed(n))
      BY <1>1 DEF Alive, Up, Boxed, Tagged, Named, Full
    <2>2. QED
      BY <1>1, <1>2, <1>3, <1>4, <1>5, <2>1, Written
  <1>8. Words'
    <2>1. left'[n] = 2 /\ \A m \in Nodes \ {n} : left'[m] = left[m]
      BY <1>4 DEF Turn, Shape
    <2>2. QED
      BY <1>1, <1>4, <2>1, WordsFrame DEF Turn
  <1>9. Ring0' /\ Ring1'
    BY <1>1, <1>4, RingFrame DEF Turn, Passed, Unset
  <1>10. QED
    BY <1>6, <1>7, <1>8, <1>9 DEF Turn

(* Who visits finds a mailbox with a string, as node 0 has made one. *)
LEMMA VisitStep ==
  ASSUME Turn, outOfTurn' = {}, NEW n \in Nodes, Visit(n)
  PROVE  Turn'
  <1>1. pc[n] = "visit"
    BY DEF Visit, At
  <1>2. Passed(0) /\ Full(0) /\ Named(0)
    <2>1. CASE n = 0
      BY <1>1, <2>1 DEF Passed, Full, Named
    <2>2. CASE n # 0
      BY <1>1, <2>2 DEF Turn, Ring0, Full, Named
    <2>3. QED
      BY <2>1, <2>2
  <1>3. mem[First + 1] = Box(TheString) /\ "text" \in DOMAIN mem[First + 3]
    <2>1. Finds(0)
      BY ZeroIsNode DEF Turn, Pages
    <2>2. QED
      BY <1>2, <2>1 DEF Finds
  <1>4. base[n] = nkAddr /\ addr[n] = First + 1
    <2>1. Finds(n) /\ Alive(n)
      BY <1>1 DEF Turn, Pages, Alive, Up
    <2>2. QED
      BY <1>1, <2>1 DEF Finds, Turn, Words
  <1>5. /\ get_addr(n, addr[n]) = TheBox /\ addr[n] # Junk
        /\ get_ptr(n, TheBox) = First + 1 /\ get_ptr(n, TheString) = First + 3
    BY <1>4, PointersAre, CellsAre, Bounds
  <1>6. Leads(n, TheBox, "testString") /\ Leads(n, TheString, "text") /\ mem[First + 1].testString = TheString
    BY <1>3, <1>5, PointersAre, RecordsAre, CellsAre DEF Leads, Turn, Shape
  <1>7. /\ Goto(n, IF n = 0 THEN "done" ELSE "box") /\ WriteString(n, TheBox, Answer(n))
        /\ UNCHANGED <<base, heap, mbox, ring, addr>>
    BY <1>5, <1>6 DEF Visit
  <1>8. /\ pc' \in [Nodes -> Labels] /\ pc'[n] = IF n = 0 THEN "done" ELSE "box"
        /\ \A m \in Nodes \ {n} : pc'[m] = pc[m]
    BY <1>7, Goes, LabelsAre DEF Turn
  <1>9. mem' = [mem EXCEPT ![First + 3] = [text |-> Answer(n)]]
    BY <1>3, <1>4, <1>7, WriteIs DEF Turn
  <1>10. Shape'
    BY <1>7, <1>8, <1>9 DEF Turn, Shape, heap, ring
  <1>11. Pages' /\ Cursors'
    <2>1. /\ Alive(n)' <=> Alive(n)
          /\ Boxed(n)' <=> Boxed(n)
          /\ Tagged(n)' => Tagged(n) \/ Full(n)
      BY <1>1, <1>8 DEF Alive, Up, Boxed, Tagged, Named, Full, Passed
    <2>2. QED
      BY <1>3, <1>7, <1>8, <1>9, <2>1, Written
  <1>12. Words'
    BY <1>7, <1>8, WordsFrame DEF Turn, ring
  <1>13. Ring0' /\ Ring1'
    BY <1>1, <1>7, <1>8, RingFrame DEF Turn, ring, Passed, Unset
  <1>14. QED
    BY <1>10, <1>11, <1>12, <1>13 DEF Turn

-----------------------------------------------------------------------------
(***************************************************************************)
(* The invariant holds, and what it says to the reader.                    *)
(***************************************************************************)

(* Who has once come out of turn stays one who has. *)
LEMMA TurnsStay ==
  ASSUME [Next]_vars
  PROVE  outOfTurn \subseteq outOfTurn'
  <1>1. ASSUME NEW n \in Nodes, Boot(n) \/ Main(n) \/ Wait(n) \/ Miss(n)
        PROVE  outOfTurn \subseteq outOfTurn'
    BY <1>1 DEF Boot, Main, Make, Reply, ResetEnd, SCCInit, Look, TakeBox, TakeString, Take, SetID,
                SetString, Greet, Put, Publish, Yield, Relock, Wait, Miss, Get, Release, Visit, InTime
  <1>2. QED
    BY <1>1 DEF Next, vars

LEMMA InitTurn == Init => Turn
  <1> SUFFICES ASSUME Init PROVE Turn
    OBVIOUS
  <1>1. \A n \in Nodes : pc[n] = "off" /\ mbox[n] = Null
    BY DEF Init
  <1>2. \A n \in Nodes : ~Alive(n) /\ ~Passed(n) /\ ~Full(n) /\ ~Named(n) /\ ~Tagged(n) /\ ~Boxed(n)
    BY <1>1 DEF Alive, Up, Passed, Full, Named, Tagged, Boxed
  <1>3. Shape
    <2>1. PICK h \in [Rings -> Leftover] :
            start = [r \in Rings |-> h[r].start] /\ end = [r \in Rings |-> h[r].end]
      BY DEF Init
    <2>2. start \in [Rings -> Nat] /\ end \in [Rings -> Nat]
      BY <2>1, Bounds
    <2>3. PICK found \in {<<Fresh, Junk>>, <<LastRun, First + 1>>} :
            /\ mem = found[1]
            /\ buf = [r \in Rings |-> [i \in 0..(Size - 1) |-> <<found[2], i % 2>>]]
      BY DEF Init
    <2>4. mem = [u \in Cells |-> mem[u]]
      <3>1. mem = Fresh \/ mem = LastRun
        BY <2>3
      <3>2. Fresh = [u \in Cells |-> Fresh[u]]
        BY DEF Fresh, Cells
      <3>3. LastRun = [u \in Cells |-> LastRun[u]]
        BY DEF LastRun, Cells
      <3>4. QED
        BY <3>1, <3>2, <3>3
    <2>5. buf = [r \in Rings |-> buf[r]] /\ \A r \in Rings : buf[r] = [i \in 0..(Size - 1) |-> buf[r][i]]
      BY <2>3
    <2>6. QED
      BY <2>2, <2>4, <2>5, LabelsAre DEF Init, Shape
  <1>4. mem[First + 1] \in {nothing, Box(TheString)}
    <2>1. mem = Fresh \/ mem = LastRun
      BY DEF Init
    <2>2. Fresh[First + 1] = nothing
      BY CellsAre DEF Fresh, Cells
    <2>3. First + 1 # First
      BY CellsAre
    <2>4. LastRun[First + 1] = Box(TheString)
      BY <2>3, CellsAre DEF LastRun, Cells, Box, TheString
    <2>5. QED
      BY <2>1, <2>2, <2>4
  <1>5. Pages /\ Cursors
    BY <1>1, <1>2, <1>4 DEF Pages, Cursors, Finds, Allocates
  <1>6. Words
    BY <1>1 DEF Words
  <1>7. Ring0
    BY <1>1, <1>2, ZeroIsNode DEF Ring0, Unset
  <1>8. Ring1
    <2>1. Past = {}
      BY <1>2 DEF Past
    <2>2. QED
      BY <1>1, <2>1, ZeroIsNode DEF Ring1, Unused, Unset
  <1>9. QED
    BY <1>3, <1>5, <1>6, <1>7, <1>8 DEF Turn

LEMMA Stutter ==
  ASSUME Turn, UNCHANGED vars
  PROVE  Turn'
  <1>1. /\ UNCHANGED <<pc, base, mem, mbox, addr>>
        /\ UNCHANGED <<freeList, prev, curr, untouched>>
        /\ UNCHANGED <<start, end, buf, index, free, left>>
    BY DEF vars, heap, ring
  <1>2. Shape'
    BY <1>1 DEF Turn, Shape
  <1>3. \A n : /\ Alive(n)' <=> Alive(n)
               /\ Passed(n)' <=> Passed(n)
               /\ Full(n)' <=> Full(n)
               /\ Named(n)' <=> Named(n)
               /\ Tagged(n)' <=> Tagged(n)
               /\ Boxed(n)' <=> Boxed(n)
    BY <1>1 DEF Alive, Up, Passed, Full, Named, Tagged, Boxed
  <1>4. Pages' /\ Cursors'
    BY <1>1, <1>3 DEF Turn, Pages, Cursors, Finds, Allocates
  <1>5. Words'
    BY <1>1 DEF Turn, Words
  <1>6. (\A r, i : Good(r, i)' <=> Good(r, i)) /\ Past' = Past /\ Count' = Count /\ Origin' = Origin
    BY <1>1, <1>3 DEF Good, Past, Count, Origin
  <1>7. \A e : Reached(e)' <=> Reached(e)
    BY <1>6 DEF Reached
  <1>8. Ring0'
    BY <1>1, <1>3, <1>6 DEF Turn, Ring0, Unset
  <1>9. (Unused => Unused') /\ (InUse => InUse') /\ (Unset(1)' <=> Unset(1))
    BY <1>1, <1>6, <1>7 DEF Unused, InUse, Unset
  <1>10. QED
    BY <1>2, <1>4, <1>5, <1>8, <1>9 DEF Turn, Ring1

LEMMA Inductive == Inv /\ [Next]_vars => Inv'
  <1> SUFFICES ASSUME Inv, [Next]_vars, outOfTurn' = {} PROVE Turn'
    BY DEF Inv
  <1>1. Turn
    BY TurnsStay DEF Inv
  <1>2. CASE UNCHANGED vars
    BY <1>1, <1>2, Stutter
  <1>3. ASSUME NEW n \in Nodes, Boot(n) \/ Main(n) \/ Wait(n) \/ Miss(n)
        PROVE  Turn'
    <2>1. CASE Boot(n)
      BY <1>1, <2>1, BootStep
    <2>2. CASE SCCInit(n)
      BY <1>1, <2>2, SCCInitStep
    <2>3. CASE Look(n, "box", "takeBox") \/ Look(n, "string", "takeString")
      BY <1>1, <2>3, LookStep
    <2>4. CASE TakeBox(n)
      BY <1>1, <2>4, TakeBoxStep
    <2>5. CASE SetID(n)
      BY <1>1, <2>5, SetIDStep
    <2>6. CASE TakeString(n)
      BY <1>1, <2>6, TakeStringStep
    <2>7. CASE SetString(n)
      BY <1>1, <2>7, SetStringStep
    <2>8. CASE Greet(n)
      BY <1>1, <2>8, GreetStep
    <2>9. CASE Put(n)
      BY <1>1, <2>9, PutStep
    <2>10. CASE Publish(n)
      BY <1>1, <2>10, PublishStep
    <2>11. CASE Yield(n) \/ Relock(n)
      BY <1>1, <2>11, NoYield
    <2>12. CASE Wait(n)
      BY <1>1, <2>12, WaitStep
    <2>13. CASE Get(n)
      BY <1>1, <2>13, GetStep
    <2>14. CASE Release(n)
      BY <1>1, <2>14, ReleaseStep
    <2>15. CASE Visit(n)
      BY <1>1, <2>15, VisitStep
    <2>16. CASE ResetEnd(n)
      BY <1>1, <2>16, ResetEndStep
    <2>17. CASE Miss(n)
      BY <2>17 DEF Miss
    <2>18. QED
      BY <1>3, <2>1, <2>2, <2>3, <2>4, <2>5, <2>6, <2>7, <2>8, <2>9, <2>10, <2>11, <2>12, <2>13,
         <2>14, <2>15, <2>16, <2>17 DEF Main, Make, Reply
  <1>4. QED
    BY <1>2, <1>3 DEF Next

LEMMA Always == Spec => []Inv
  <1>1. Init => Inv
    BY InitTurn DEF Inv
  <1>2. QED
    BY <1>1, Inductive, PTL DEF Spec

(* However many nodes run mailbox.c, in whatever order, and whatever the   *)
(* rings and the pages hold at first: unless one uses a ring that is not   *)
(* yet reset or reads one with nothing in it, allocates in a heap that is  *)
(* not as its SCCInit left it, or misses what another has written to the   *)
(* shared pages, no process follows a null or a wild pointer, none waits   *)
(* for room in a ring, and all the mailboxes that LpelMailboxCreate has    *)
(* returned are one and the same.                                          *)
THEOREM OneMailboxForAll == Spec => []InTurnAllShareOneMailbox
  <1>1. Inv => InTurnAllShareOneMailbox
    <2> SUFFICES ASSUME Turn
                 PROVE  /\ \A n \in Nodes : pc[n] \notin {"astray", "relock"}
                        /\ \A m, n \in Nodes : mbox[m] # Null /\ mbox[n] # Null => mbox[m] = mbox[n]
      BY DEF Inv, InTurnAllShareOneMailbox
    <2>1. \A n \in Nodes : pc[n] \notin {"astray", "relock"}
      BY DEF Turn, Shape, Labels, Making
    <2>2. \A n \in Nodes : mbox[n] \in {TheBox, Null}
      BY DEF Turn, Pages, Finds
    <2>3. QED
      BY <2>1, <2>2
  <1>2. QED
    BY <1>1, Always, PTL

(* Under the same condition nobody overtakes the first word: a node other  *)
(* than 0 that has got past its read has read what node 0 has sent in this *)
(* run, and node 0 has answered only where another had sent.               *)
THEOREM NobodyAnswersFirst ==
  Spec => [](outOfTurn = {} =>
    /\ \A n \in Nodes \ {0} : Up(n) /\ pc[n] # "get" => Passed(0)
    /\ pc[0] \in {"release", "visit", "done"} => \E n \in Nodes \ {0} : Passed(n))
  <1>1. Inv => (outOfTurn = {} =>
                 /\ \A n \in Nodes \ {0} : Up(n) /\ pc[n] # "get" => Passed(0)
                 /\ pc[0] \in {"release", "visit", "done"} => \E n \in Nodes \ {0} : Passed(n))
    BY DEF Inv, Turn, Ring0, Ring1, Unused, InUse, Past, Up
  <1>2. QED
    BY <1>1, Always, PTL
=============================================================================

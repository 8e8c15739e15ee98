------------------------ MODULE MpbVisibilityProofs -------------------------
(***************************************************************************)
(* Proof that the ring behaves in the presence of caches and buffers as it *)
(* does in coherent memory, for every ring size, every length of a line of *)
(* memory, every set of cores and all message and read sizes.              *)
(***************************************************************************)
EXTENDS MpbVisibility, TLAPS

(* What is proved of the ring in coherent memory. *)
Coherent == INSTANCE MpbRingProofs WITH
  start     <- mem[START],
  end       <- mem[END],
  writing   <- RingWriting,
  buf       <- RingBuf,
  pc        <- RingPc,
  left      <- RingLeft,
  rpc       <- RingRpc,
  rdst      <- RingRdst,
  stream    <- RingStream,
  delivered <- RingDelivered,
  overread  <- FALSE

LEMMA RingAssumed == Coherent!RingAssumption
  BY VisibilityAssumption DEF Coherent!RingAssumption

LEMMA ReaderApart == Reader \notin Cores
  BY VisibilityAssumption

LEMMA RingSize == BSize \in Nat /\ BSize >= 2
  BY VisibilityAssumption

-----------------------------------------------------------------------------
(***************************************************************************)
(* The invariant: what the caches and buffers hold.                        *)
(***************************************************************************)

(* The labels at which a core has the lock. *)
Held == {"test", "enter", "up", "load", "copy", "publish", "down", "fool", "exited"}

Labels == Held \cup {"idle", "lock", "relock"}

Cells == Header \cup Payload
All   == Cores \cup {Reader}

(* Memory and buffers are functions on cells. *)
Shape ==
  /\ mem = [k \in Cells |-> mem[k]] /\ mem[WRITING] \in BOOLEAN
  /\ wcb = [c \in All |-> wcb[c]] /\ l1 = [c \in All |-> l1[c]]
  /\ \A c \in All : wcb[c] = [k \in DOMAIN wcb[c] |-> wcb[c][k]]
  /\ \A w \in Cores : l1[w] = [k \in DOMAIN l1[w] |-> l1[w][k]]
  /\ pc \in [Cores -> Labels] /\ rpc \in {"idle", "copy", "fool"}
  /\ left \in [Cores -> Nat] /\ free \in [Cores -> Nat] /\ wend \in [Cores -> Nat]

(* The bytes that core w has copied, and the END that goes with them. *)
Window(w) == wend[w]..(wend[w] + free[w] - 1)
NewEnd(w) == (wend[w] + free[w]) % BSize

(* Core c's write of x to cell k is in its buffer, or has been drained. *)
Written(c, k, x) ==
  IF k \in DOMAIN wcb[c] THEN wcb[c][k] = x ELSE mem[k] = x

(* What a core's buffer can hold, by where the core is. *)
Pending(w) ==
  CASE pc[w] = "up"      -> {WRITING}
    [] pc[w] = "publish" -> Window(w)
    [] pc[w] = "down"    -> {END}
    [] pc[w] = "fool"    -> {END, WRITING}
    [] OTHER             -> {}

WriterHolds(w) ==
  /\ DOMAIN wcb[w] \subseteq Pending(w)
  /\ pc[w] = "up" => left[w] < BSize /\ Written(w, WRITING, TRUE)
  /\ pc[w] = "copy" => DOMAIN l1[w] \subseteq Header
  /\ pc[w] = "down" => l1[w] = Nothing
  /\ pc[w] \in {"down", "fool"} => Written(w, END, NewEnd(w))
  /\ pc[w] = "fool" => Written(w, WRITING, FALSE)
  /\ pc[w] \in {"copy", "publish", "down", "fool"} =>
       free[w] \in 1..left[w] /\ wend[w] + free[w] <= BSize

ReaderHolds ==
  /\ DOMAIN wcb[Reader] \subseteq IF rpc = "fool" THEN {START} ELSE {}
  /\ rpc = "fool" => rleft = 0 /\ Written(Reader, START, rstart)

VInv == Shape /\ (\A w \in Cores : WriterHolds(w)) /\ ReaderHolds

(* The lock, in terms of this module. *)
Excluded ==
  /\ locked <=> \E w \in Cores : pc[w] \in Held
  /\ \A v, w \in Cores : pc[v] \in Held /\ pc[w] \in Held => v = w

LEMMA Exclusion ==
  ASSUME VInv, Coherent!IInv
  PROVE  Excluded
  <1>1. \A w \in Cores : Coherent!Holding(w) <=> pc[w] \in Held
    BY DEF VInv, Shape, Coherent!Holding, RingPc, Published, Labels, Held
  <1>2. Coherent!MutualExclusion
    BY DEF Coherent!IInv
  <1>3. QED
    BY <1>1, <1>2 DEF Coherent!MutualExclusion, Excluded

(* Nobody but w has anything in its buffer, or has moved END. *)
Alone(w) ==
  \A v \in Cores \ {w} : wcb[v] = Nothing /\ pc[v] \notin {"up", "publish", "down", "fool"}

LEMMA Empty ==
  ASSUME NEW f, f = [k \in DOMAIN f |-> f[k]], DOMAIN f \subseteq {}
  PROVE  f = Nothing
  BY DEF Nothing

LEMMA NoCells == DOMAIN Nothing = {}
  BY DEF Nothing

LEMMA Emptied ==
  ASSUME NEW f, f = Nothing
  PROVE  f = [k \in DOMAIN f |-> f[k]]
  BY DEF Nothing

LEMMA HolderAlone ==
  ASSUME VInv, Excluded, NEW w \in Cores, pc[w] \in Held
  PROVE  Alone(w)
  <1> SUFFICES ASSUME NEW v \in Cores \ {w}
               PROVE  wcb[v] = Nothing /\ pc[v] \notin {"up", "publish", "down", "fool"}
    BY DEF Alone
  <1>1. pc[v] \notin Held
    BY DEF Excluded
  <1>2. pc[v] \notin {"up", "publish", "down", "fool"}
    BY <1>1 DEF Held
  <1>3. DOMAIN wcb[v] \subseteq {}
    BY <1>2 DEF VInv, WriterHolds, Pending
  <1>4. wcb[v] = [k \in DOMAIN wcb[v] |-> wcb[v][k]]
    BY DEF VInv, Shape, All
  <1>5. QED
    BY <1>2, <1>3, <1>4, Empty

(* With w alone, the ring is as w has made it. *)
SeenFrom(w) ==
  /\ RingWriting = (mem[WRITING] /\ ~Published(w))
  /\ RingStream = IF Published(w) THEN stream \o Chunk(w) ELSE stream
  /\ RingBuf = [i \in Payload |-> IF i \in DOMAIN wcb[w] THEN wcb[w][i] ELSE mem[i]]

LEMMA ViewNow ==
  ASSUME NEW w \in Cores
  PROVE  Alone(w) => SeenFrom(w)
  <1> SUFFICES ASSUME Alone(w)
               PROVE  SeenFrom(w)
    OBVIOUS
  <1>1. \A v \in Cores \ {w} : ~Published(v)
    BY DEF Alone, Published
  <1>2. \A v \in Cores \ {w} : DOMAIN wcb[v] = {}
    BY NoCells DEF Alone
  <1>3. RingWriting = (mem[WRITING] /\ ~Published(w))
    BY <1>1 DEF RingWriting
  <1>4. ASSUME Published(w)
        PROVE  RingStream = stream \o Chunk(w)
    <2>1. (CHOOSE v \in Cores : Published(v)) = w
      BY <1>1, <1>4
    <2>2. QED
      BY <2>1, <1>4 DEF RingStream
  <1>5. ASSUME ~Published(w)
        PROVE  RingStream = stream
    BY <1>1, <1>5 DEF RingStream
  <1>6. ASSUME NEW i \in Payload
        PROVE  RingByte(i) = IF i \in DOMAIN wcb[w] THEN wcb[w][i] ELSE mem[i]
    <2> DEFINE holders == {v \in Cores : i \in DOMAIN wcb[v]}
    <2>1. CASE i \in DOMAIN wcb[w]
      <3>1. holders = {w}
        BY <1>2, <2>1
      <3>2. (CHOOSE v \in holders : TRUE) = w
        BY <3>1
      <3>3. QED
        BY <2>1, <3>1, <3>2 DEF RingByte
    <2>2. CASE i \notin DOMAIN wcb[w]
      BY <1>2, <2>2 DEF RingByte
    <2>3. QED
      BY <2>1, <2>2
  <1>7. RingBuf = [i \in Payload |-> IF i \in DOMAIN wcb[w] THEN wcb[w][i] ELSE mem[i]]
    BY <1>6 DEF RingBuf
  <1>8. QED
    BY <1>3, <1>4, <1>5, <1>7 DEF SeenFrom

LEMMA View ==
  ASSUME NEW w \in Cores
  PROVE  (Alone(w) => SeenFrom(w)) /\ (Alone(w) => SeenFrom(w))'
  BY ViewNow, PTL

-----------------------------------------------------------------------------
(***************************************************************************)
(* What a step leaves alone.                                               *)
(***************************************************************************)

(* A step of the writer w, if of a writer at all. *)
MovesAlone(w) ==
  /\ \A v \in Cores \ {w} : UNCHANGED <<pc[v], wcb[v], l1[v], left[v], free[v], wend[v], msg[v]>>
  /\ UNCHANGED <<wcb[Reader], mem[START], rpc, rstart, rend, rleft, rdst, delivered>>

LEMMA Frame ==
  ASSUME VInv, Excluded, NEW w \in Cores, MovesAlone(w), pc[w] \in Held \/ UNCHANGED mem,
         Shape', WriterHolds(w)'
  PROVE  /\ VInv'
         /\ RingPc' = [RingPc EXCEPT ![w] = RingPc'[w]]
         /\ RingLeft' = [RingLeft EXCEPT ![w] = RingLeft'[w]]
         /\ UNCHANGED <<RingRpc, RingRdst, RingDelivered>>
         /\ Alone(w) => Alone(w)'
  <1>1. ASSUME NEW v \in Cores \ {w}
        PROVE  WriterHolds(v)'
    <2>1. WriterHolds(v)
      BY DEF VInv
    <2>2. UNCHANGED <<pc[v], wcb[v], l1[v], left[v], free[v], wend[v]>>
      BY DEF MovesAlone
    <2>3. CASE UNCHANGED mem
      BY <2>1, <2>2, <2>3 DEF WriterHolds, Written, Pending, Window, NewEnd
    <2>4. CASE pc[w] \in Held
      <3>1. pc[v] \notin {"up", "down", "fool"}
        BY <2>4 DEF Excluded, Held
      <3>2. QED
        BY <2>1, <2>2, <3>1 DEF WriterHolds, Written, Pending, Window
    <2>5. QED
      BY <2>3, <2>4
  <1>2. ReaderHolds'
    BY DEF VInv, ReaderHolds, MovesAlone, Written
  <1>3. RingPc' = [RingPc EXCEPT ![w] = RingPc'[w]]
    <2>1. \A v \in Cores \ {w} : RingPc'[v] = RingPc[v]
      BY DEF RingPc, Published, MovesAlone
    <2>2. RingPc = [v \in Cores |-> RingPc[v]] /\ RingPc' = [v \in Cores |-> RingPc'[v]]
      BY DEF RingPc
    <2>3. QED
      BY <2>1, <2>2
  <1>4. RingLeft' = [RingLeft EXCEPT ![w] = RingLeft'[w]]
    BY DEF RingLeft, Published, MovesAlone
  <1>5. UNCHANGED <<RingRpc, RingRdst, RingDelivered>>
    BY DEF RingRpc, RingRdst, RingDelivered, Released, MovesAlone
  <1>6. Alone(w) => Alone(w)'
    BY DEF Alone, MovesAlone
  <1>7. QED
    BY <1>1, <1>2, <1>3, <1>4, <1>5, <1>6 DEF VInv

(* A step of w on which no write is under way, and none is begun. *)
LEMMA Quiet ==
  ASSUME VInv, Excluded, NEW w \in Cores, MovesAlone(w), UNCHANGED <<mem, wcb, stream>>,
         pc[w] \notin {"down", "fool"}, pc'[w] \notin {"up", "publish", "down", "fool"}
  PROVE  UNCHANGED <<RingWriting, RingStream, RingBuf>>
  <1>1. \A v \in Cores : Published(v)' <=> Published(v)
    BY DEF Published, MovesAlone
  <1>2. RingWriting' = RingWriting
    BY <1>1 DEF RingWriting
  <1>3. RingBuf' = RingBuf
    BY DEF RingBuf, RingByte
  <1>4. ASSUME NEW u \in Cores, Published(u)
        PROVE  RingStream' = RingStream
    <2>1. u # w /\ pc[u] \in Held
      BY <1>4 DEF Published, Held
    <2>2. Alone(u)
      BY <2>1, HolderAlone
    <2>3. Alone(u)'
      BY <2>2 DEF Alone, MovesAlone
    <2>4. RingStream = stream \o Chunk(u) /\ RingStream' = stream' \o Chunk(u)'
      BY <1>1, <1>4, <2>2, <2>3, View DEF SeenFrom
    <2>5. Chunk(u)' = Chunk(u)
      BY <2>1 DEF Chunk, MovesAlone
    <2>6. QED
      BY <2>4, <2>5
  <1>5. ASSUME \A u \in Cores : ~Published(u)
        PROVE  RingStream' = RingStream
    BY <1>1, <1>5 DEF RingStream
  <1>6. QED
    BY <1>2, <1>3, <1>4, <1>5

(* A writer that goes to label l. *)
LEMMA GotoPc ==
  ASSUME Shape, NEW w \in Cores, NEW l \in Labels, Goto(w, l)
  PROVE  pc' \in [Cores -> Labels] /\ pc'[w] = l /\ \A v \in Cores \ {w} : pc'[v] = pc[v]
  BY DEF Shape, Goto

LEMMA LabelsAre ==
  /\ "idle" \in Labels /\ "lock" \in Labels /\ "test" \in Labels /\ "enter" \in Labels
  /\ "up" \in Labels /\ "load" \in Labels /\ "relock" \in Labels /\ "copy" \in Labels
  /\ "publish" \in Labels /\ "down" \in Labels /\ "fool" \in Labels /\ "exited" \in Labels
  BY DEF Labels, Held

LEMMA HeaderCells ==
  /\ START \in Header /\ END \in Header /\ WRITING \in Header
  /\ START # END /\ START # WRITING /\ END # WRITING
  /\ Header \cap Payload = {}
  BY RingSize DEF START, END, WRITING, Header, Payload

(* The header is a line of its own. *)
LEMMA Lines ==
  /\ \A k \in Header : Line(k) = -1
  /\ \A k \in Payload : Line(k) \in Nat
  <1>1. \A k \in Header : Line(k) = -1
    BY DEF Line, Header, START, END, WRITING
  <1>2. ASSUME NEW k \in Payload
        PROVE  Line(k) \in Nat
    <2>1. k \in Nat /\ ~(k < 0)
      BY RingSize DEF Payload
    <2>2. LineSize \in Nat /\ LineSize # 0
      BY VisibilityAssumption
    <2>3. k \div LineSize \in Nat
      BY ONLY <2>1, <2>2
    <2>4. QED
      BY <2>1, <2>3 DEF Line
  <1>3. QED
    BY <1>1, <1>2

(* What is read right after a flush is what is in memory. *)
LEMMA LoadedFresh ==
  ASSUME Shape, NEW S, S \subseteq Cells
  PROVE  /\ \A k \in S : Loaded(Nothing, S)[k] = mem[k]
         /\ Loaded(Nothing, S) = [k \in DOMAIN Loaded(Nothing, S) |-> Loaded(Nothing, S)[k]]
         /\ S \subseteq Header => DOMAIN Loaded(Nothing, S) \subseteq Header
  <1> DEFINE here == {k \in DOMAIN mem : \E j \in S : Line(k) = Line(j)}
  <1>1. DOMAIN mem = Cells
    BY DEF Shape
  <1>2. Loaded(Nothing, S) = [k \in here |-> mem[k]]
    BY NoCells DEF Loaded, Over
  <1>3. S \subseteq here
    BY <1>1
  <1>4. S \subseteq Header => here \subseteq Header
    <2>1. \A k \in Payload, j \in Header : Line(k) # Line(j)
      BY Lines
    <2>2. QED
      BY <1>1, <2>1 DEF Cells
  <1> HIDE DEF here
  <1>5. QED
    BY <1>2, <1>3, <1>4

(* What the ring's invariant says of the variables it shares. *)
LEMMA Indices ==
  ASSUME Coherent!IInv
  PROVE  /\ mem[START] \in 0..(BSize - 1) /\ mem[END] \in 0..(BSize - 1)
         /\ free \in [Cores -> 0..(BSize - 1)] /\ wend \in [Cores -> 0..(BSize - 1)]
         /\ rstart \in 0..(BSize - 1) /\ rend \in 0..(BSize - 1) /\ rleft \in Nat
  BY DEF Coherent!IInv, Coherent!TypeInv, Coherent!TypeOK

-----------------------------------------------------------------------------
(***************************************************************************)
(* The steps of a writer.                                                  *)
(***************************************************************************)
Inv == VInv /\ Coherent!IInv

LEMMA SendStep ==
  ASSUME Inv, NEW w \in Cores, NEW n \in Sizes, Send(w, n)
  PROVE  VInv' /\ Coherent!Send(w, n)
  <1>1. VInv /\ Excluded /\ Shape /\ WriterHolds(w)
    BY Exclusion DEF Inv, VInv
  <1>2. /\ pc[w] = "idle" /\ msg[w] < MaxMsgs /\ Goto(w, "lock")
        /\ msg' = [msg EXCEPT ![w] = @ + 1] /\ left' = [left EXCEPT ![w] = n]
        /\ UNCHANGED <<mem, l1, wcb, locked, wend, free, rpc, rstart, rend, rleft, rdst,
                       stream, delivered, split>>
    BY DEF Send, chip, reader, history
  <1>3. pc' \in [Cores -> Labels] /\ pc'[w] = "lock" /\ \A v \in Cores \ {w} : pc'[v] = pc[v]
    BY <1>1, <1>2, GotoPc, LabelsAre
  <1>4. MovesAlone(w)
    BY <1>1, <1>2, <1>3, HeaderCells DEF MovesAlone, Shape
  <1>5. Shape'
    BY <1>1, <1>2, <1>3, VisibilityAssumption DEF Shape
  <1>6. WriterHolds(w)'
    BY <1>1, <1>2, <1>3 DEF WriterHolds, Pending
  <1>7. /\ VInv' /\ UNCHANGED <<RingWriting, RingStream, RingBuf>>
        /\ RingPc' = [RingPc EXCEPT ![w] = RingPc'[w]]
        /\ RingLeft' = [RingLeft EXCEPT ![w] = RingLeft'[w]]
        /\ UNCHANGED <<RingRpc, RingRdst, RingDelivered>>
    BY <1>1, <1>2, <1>3, <1>4, <1>5, <1>6, Frame, Quiet
  <1>8. RingPc[w] = "idle" /\ RingPc'[w] = "lock" /\ RingLeft'[w] = n
    BY <1>1, <1>2, <1>3 DEF RingPc, RingLeft, Published, Shape
  <1>9. Coherent!Send(w, n)
    BY <1>2, <1>7, <1>8 DEF Coherent!Send, Coherent!Goto, Coherent!mpb, Coherent!reader, Coherent!history
  <1>10. QED
    BY <1>7, <1>9

LEMMA TakeLockStep ==
  ASSUME Inv, NEW w \in Cores, TakeLock(w)
  PROVE  VInv' /\ Coherent!Locking(w)
  <1>1. VInv /\ Excluded /\ Shape /\ WriterHolds(w)
    BY Exclusion DEF Inv, VInv
  <1>2. /\ ~locked /\ locked'
        /\ \/ pc[w] = "lock" /\ Goto(w, "test")
           \/ pc[w] = "relock" /\ Goto(w, "load")
        /\ UNCHANGED <<mem, l1, wcb, msg, left, wend, free, rpc, rstart, rend, rleft, rdst,
                       stream, delivered, split>>
    BY DEF TakeLock, reader, history
  <1>3. PICK l \in {"test", "load"} : Goto(w, l)
    BY <1>2
  <1>4. pc' \in [Cores -> Labels] /\ pc'[w] = l /\ \A v \in Cores \ {w} : pc'[v] = pc[v]
    BY <1>1, <1>3, GotoPc, LabelsAre
  <1>5. MovesAlone(w)
    BY <1>2, <1>4 DEF MovesAlone
  <1>6. Shape'
    BY <1>1, <1>2, <1>4 DEF Shape
  <1>7. WriterHolds(w)'
    BY <1>1, <1>2, <1>4 DEF WriterHolds, Pending
  <1>8. /\ VInv' /\ UNCHANGED <<RingWriting, RingStream, RingBuf>>
        /\ RingPc' = [RingPc EXCEPT ![w] = RingPc'[w]]
        /\ RingLeft' = [RingLeft EXCEPT ![w] = RingLeft'[w]]
        /\ UNCHANGED <<RingRpc, RingRdst, RingDelivered>>
    BY <1>1, <1>2, <1>4, <1>5, <1>6, <1>7, Frame, Quiet
  <1>9. RingPc[w] = pc[w] /\ RingPc'[w] = l /\ RingLeft'[w] = RingLeft[w]
    BY <1>1, <1>2, <1>4 DEF RingPc, RingLeft, Published, Shape
  <1>10. RingLeft' = RingLeft
    BY <1>8, <1>9 DEF RingLeft
  <1>11. CASE pc[w] = "lock" /\ Goto(w, "test")
    <2>1. l = "test"
      BY <1>1, <1>4, <1>11, GotoPc, LabelsAre
    <2>2. Coherent!Acquire(w)
      BY <1>2, <1>8, <1>9, <1>10, <1>11, <2>1
         DEF Coherent!Acquire, Coherent!Goto, Coherent!mpb, Coherent!reader, Coherent!history
    <2>3. QED
      BY <1>8, <2>2 DEF Coherent!Locking
  <1>12. CASE pc[w] = "relock" /\ Goto(w, "load")
    <2>1. l = "load"
      BY <1>1, <1>4, <1>12, GotoPc, LabelsAre
    <2>2. Coherent!Relock(w)
      BY <1>2, <1>8, <1>9, <1>10, <1>12, <2>1
         DEF Coherent!Relock, Coherent!Goto, Coherent!mpb, Coherent!reader, Coherent!history
    <2>3. QED
      BY <1>8, <2>2 DEF Coherent!Locking
  <1>13. QED
    BY <1>2, <1>11, <1>12

(* A flush and a read. *)
LEMMA LoadShape ==
  ASSUME Shape, NEW w \in Cores, NEW S, S \subseteq Header, Load(w, Flush(w), S), UNCHANGED <<mem, wcb>>
  PROVE  /\ l1' = [c \in All |-> l1'[c]]
         /\ \A v \in Cores : l1'[v] = [k \in DOMAIN l1'[v] |-> l1'[v][k]]
         /\ \A v \in Cores \ {w} : l1'[v] = l1[v]
         /\ DOMAIN l1'[w] \subseteq Header
  <1>1. l1' = [l1 EXCEPT ![w] = Loaded(Nothing, S)]
    BY DEF Load, Flush
  <1>2. Loaded(Nothing, S) = [k \in DOMAIN Loaded(Nothing, S) |-> Loaded(Nothing, S)[k]]
        /\ DOMAIN Loaded(Nothing, S) \subseteq Header
    BY LoadedFresh DEF Cells
  <1>3. w \in All /\ l1 = [c \in All |-> l1[c]]
    BY DEF Shape, All
  <1>4. l1'[w] = Loaded(Nothing, S) /\ \A v \in Cores \ {w} : l1'[v] = l1[v]
    BY <1>1, <1>3 DEF All
  <1>5. l1' = [c \in All |-> l1'[c]]
    BY <1>1, <1>3
  <1>6. QED
    BY <1>2, <1>4, <1>5 DEF Shape

LEMMA TestStep ==
  ASSUME Inv, NEW w \in Cores, Test(w)
  PROVE  VInv' /\ Coherent!Writing(w)
  <1>1. VInv /\ Excluded /\ Shape /\ WriterHolds(w)
    BY Exclusion DEF Inv, VInv
  <1>2. /\ pc[w] = "test" /\ Load(w, Flush(w), {WRITING})
        /\ UNCHANGED <<mem, wcb, msg, left, wend, free, rpc, rstart, rend, rleft, rdst,
                       stream, delivered, split>>
    BY DEF Test, reader, history
  <1>3. Loaded(Flush(w), {WRITING})[WRITING] = mem[WRITING]
    BY <1>1, LoadedFresh, HeaderCells DEF Flush, Cells
  <1>4. /\ mem[WRITING] => locked' = FALSE /\ Goto(w, "lock")
        /\ ~mem[WRITING] => locked' = locked /\ Goto(w, "enter")
    BY <1>1, <1>3 DEF Test, Shape
  <1>5. PICK l \in {"lock", "enter"} : Goto(w, l) /\ l = IF mem[WRITING] THEN "lock" ELSE "enter"
    BY <1>4
  <1>6. pc' \in [Cores -> Labels] /\ pc'[w] = l /\ \A v \in Cores \ {w} : pc'[v] = pc[v]
    BY <1>1, <1>5, GotoPc, LabelsAre
  <1>7. /\ l1' = [c \in All |-> l1'[c]]
        /\ \A v \in Cores : l1'[v] = [k \in DOMAIN l1'[v] |-> l1'[v][k]]
        /\ \A v \in Cores \ {w} : l1'[v] = l1[v]
    BY <1>1, <1>2, LoadShape, HeaderCells
  <1>8. MovesAlone(w)
    BY <1>2, <1>6, <1>7 DEF MovesAlone
  <1>9. Shape'
    BY <1>1, <1>2, <1>6, <1>7 DEF Shape
  <1>10. WriterHolds(w)'
    BY <1>1, <1>2, <1>6 DEF WriterHolds, Pending
  <1>11. /\ VInv' /\ UNCHANGED <<RingWriting, RingStream, RingBuf>>
         /\ RingPc' = [RingPc EXCEPT ![w] = RingPc'[w]]
         /\ RingLeft' = [RingLeft EXCEPT ![w] = RingLeft'[w]]
         /\ UNCHANGED <<RingRpc, RingRdst, RingDelivered>>
    BY <1>1, <1>2, <1>6, <1>8, <1>9, <1>10, Frame, Quiet
  <1>12. RingPc[w] = "test" /\ RingPc'[w] = l /\ RingLeft'[w] = RingLeft[w]
    BY <1>1, <1>2, <1>6 DEF RingPc, RingLeft, Published, Shape
  <1>13. RingLeft' = RingLeft
    BY <1>11, <1>12 DEF RingLeft
  <1>14. RingWriting = mem[WRITING]
    <2>1. Alone(w) /\ ~Published(w)
      BY <1>1, <1>2, HolderAlone DEF Held, Published
    <2>2. QED
      BY <1>1, <2>1, View DEF SeenFrom, Shape
  <1>15. CASE mem[WRITING]
    <2>1. Coherent!BackOff(w)
      BY <1>2, <1>4, <1>5, <1>11, <1>12, <1>13, <1>14, <1>15
         DEF Coherent!BackOff, Coherent!Goto, Coherent!mpb, Coherent!reader, Coherent!history
    <2>2. QED
      BY <1>11, <2>1 DEF Coherent!Writing
  <1>16. CASE ~mem[WRITING]
    <2>1. Coherent!Admit(w)
      BY <1>2, <1>4, <1>5, <1>11, <1>12, <1>13, <1>14, <1>16
         DEF Coherent!Admit, Coherent!Goto, Coherent!mpb, Coherent!reader, Coherent!history
    <2>2. QED
      BY <1>11, <2>1 DEF Coherent!Writing
  <1>17. QED
    BY <1>15, <1>16

LEMMA ExitStep ==
  ASSUME Inv, NEW w \in Cores, Exit(w)
  PROVE  VInv' /\ Coherent!Writing(w)
  <1>1. VInv /\ Excluded /\ Shape /\ WriterHolds(w)
    BY Exclusion DEF Inv, VInv
  <1>2. /\ pc[w] = "enter" /\ left[w] >= BSize /\ Goto(w, "exited")
        /\ UNCHANGED <<mem, l1, wcb, locked, msg, left, wend, free, rpc, rstart, rend, rleft, rdst,
                       stream, delivered, split>>
    BY DEF Exit, chip, reader, history
  <1>3. pc' \in [Cores -> Labels] /\ pc'[w] = "exited" /\ \A v \in Cores \ {w} : pc'[v] = pc[v]
    BY <1>1, <1>2, GotoPc, LabelsAre
  <1>4. MovesAlone(w)
    BY <1>2, <1>3 DEF MovesAlone
  <1>5. Shape'
    BY <1>1, <1>2, <1>3 DEF Shape
  <1>6. WriterHolds(w)'
    BY <1>1, <1>2, <1>3 DEF WriterHolds, Pending
  <1>7. /\ VInv' /\ UNCHANGED <<RingWriting, RingStream, RingBuf>>
        /\ RingPc' = [RingPc EXCEPT ![w] = RingPc'[w]]
        /\ RingLeft' = [RingLeft EXCEPT ![w] = RingLeft'[w]]
        /\ UNCHANGED <<RingRpc, RingRdst, RingDelivered>>
    BY <1>1, <1>2, <1>3, <1>4, <1>5, <1>6, Frame, Quiet
  <1>8. RingPc[w] = "enter" /\ RingPc'[w] = "exited" /\ RingLeft[w] = left[w] /\ RingLeft'[w] = RingLeft[w]
    BY <1>1, <1>2, <1>3 DEF RingPc, RingLeft, Published, Shape
  <1>9. RingLeft' = RingLeft
    BY <1>7, <1>8 DEF RingLeft
  <1>10. Coherent!Exit(w)
    BY <1>2, <1>7, <1>8, <1>9
       DEF Coherent!Exit, Coherent!Goto, Coherent!mpb, Coherent!reader, Coherent!history
  <1>11. QED
    BY <1>7, <1>10 DEF Coherent!Writing

LEMMA StopStep ==
  ASSUME Inv, NEW w \in Cores, Stop(w)
  PROVE  VInv' /\ Coherent!Writing(w)
  <1>1. VInv /\ Excluded /\ Shape /\ WriterHolds(w)
    BY Exclusion DEF Inv, VInv
  <1>2. /\ pc[w] = "load" /\ left[w] = 0 /\ Goto(w, "idle")
        /\ l1' = [l1 EXCEPT ![w] = Nothing] /\ locked' = FALSE
        /\ UNCHANGED <<mem, wcb, msg, left, wend, free, rpc, rstart, rend, rleft, rdst,
                       stream, delivered, split>>
    BY DEF Stop, Flush, reader, history
  <1>3. pc' \in [Cores -> Labels] /\ pc'[w] = "idle" /\ \A v \in Cores \ {w} : pc'[v] = pc[v]
    BY <1>1, <1>2, GotoPc, LabelsAre
  <1>4. MovesAlone(w)
    BY <1>1, <1>2, <1>3 DEF MovesAlone, Shape, All
  <1>5. Shape'
    <2>1. /\ l1' = [c \in All |-> l1'[c]]
          /\ l1'[w] = Nothing /\ \A v \in Cores \ {w} : l1'[v] = l1[v]
      BY <1>1, <1>2 DEF Shape, All
    <2>2. l1'[w] = [k \in DOMAIN l1'[w] |-> l1'[w][k]]
      BY <2>1, Emptied
    <2>3. \A v \in Cores : l1'[v] = [k \in DOMAIN l1'[v] |-> l1'[v][k]]
      BY <1>1, <2>1, <2>2 DEF Shape
    <2>4. QED
      BY <1>1, <1>2, <1>3, <2>1, <2>3 DEF Shape
  <1>6. WriterHolds(w)'
    BY <1>1, <1>2, <1>3 DEF WriterHolds, Pending
  <1>7. /\ VInv' /\ UNCHANGED <<RingWriting, RingStream, RingBuf>>
        /\ RingPc' = [RingPc EXCEPT ![w] = RingPc'[w]]
        /\ RingLeft' = [RingLeft EXCEPT ![w] = RingLeft'[w]]
        /\ UNCHANGED <<RingRpc, RingRdst, RingDelivered>>
    BY <1>1, <1>2, <1>3, <1>4, <1>5, <1>6, Frame, Quiet
  <1>8. RingPc[w] = "load" /\ RingPc'[w] = "idle" /\ RingLeft[w] = left[w] /\ RingLeft'[w] = RingLeft[w]
    BY <1>1, <1>2, <1>3 DEF RingPc, RingLeft, Published, Shape
  <1>9. RingLeft' = RingLeft
    BY <1>7, <1>8 DEF RingLeft
  <1>10. Coherent!Stop(w)
    BY <1>2, <1>7, <1>8, <1>9
       DEF Coherent!Stop, Coherent!Goto, Coherent!mpb, Coherent!reader, Coherent!history
  <1>11. QED
    BY <1>7, <1>10 DEF Coherent!Writing

(* The room there is lies within the ring; so does the least of it and of  *)
(* what is left.                                                           *)
LEMMA RoomThere ==
  ASSUME NEW s \in 0..(BSize - 1), NEW e \in 0..(BSize - 1), NEW n \in Nat,
         NEW room, room = Coherent!Minimum(Coherent!Room(s, e), n)
  PROVE  /\ Ring!Minimum(Ring!Room(s, e), n) = room
         /\ room \in 0..n /\ e + room <= BSize
         /\ room = 0 /\ n > 0 => Coherent!Room(s, e) = 0
  <1>1. Ring!Room(s, e) = Coherent!Room(s, e)
    BY DEF Ring!Room, Coherent!Room
  <1>2. Coherent!Room(s, e) \in Nat /\ e + Coherent!Room(s, e) <= BSize
    BY RingSize DEF Coherent!Room
  <1>3. \A x : Ring!Minimum(x, n) = Coherent!Minimum(x, n)
    BY DEF Ring!Minimum, Coherent!Minimum
  <1>4. QED
    BY <1>1, <1>2, <1>3, RingSize DEF Coherent!Minimum

LEMMA LookForRoomStep ==
  ASSUME Inv, NEW w \in Cores, LookForRoom(w)
  PROVE  VInv' /\ Coherent!Writing(w)
  <1> DEFINE room == Coherent!Minimum(Coherent!Room(mem[START], mem[END]), left[w])
  <1>1. VInv /\ Excluded /\ Shape /\ WriterHolds(w)
    BY Exclusion DEF Inv, VInv
  <1>2. /\ pc[w] = "load" /\ left[w] > 0 /\ Load(w, Flush(w), {START, END})
        /\ UNCHANGED <<mem, wcb, msg, left, rpc, rstart, rend, rleft, rdst, stream, delivered>>
    BY DEF LookForRoom, reader
  <1>3. /\ Loaded(Flush(w), {START, END})[START] = mem[START]
        /\ Loaded(Flush(w), {START, END})[END] = mem[END]
    BY <1>1, LoadedFresh, HeaderCells DEF Flush, Cells
  <1>4. /\ left[w] \in Nat
        /\ Ring!Minimum(Ring!Room(mem[START], mem[END]), left[w]) = room
        /\ room \in 0..left[w] /\ mem[END] + room <= BSize
        /\ room = 0 /\ left[w] > 0 => Coherent!Room(mem[START], mem[END]) = 0
        /\ mem[END] \in Nat
    <2>1. mem[START] \in 0..(BSize - 1) /\ mem[END] \in 0..(BSize - 1)
      BY Indices DEF Inv
    <2>2. left[w] \in Nat
      BY <1>1 DEF Shape
    <2> DEFINE s == mem[START]
               e == mem[END]
               n == left[w]
    <2>3. s \in 0..(BSize - 1) /\ e \in 0..(BSize - 1) /\ n \in Nat
      BY <2>1, <2>2
    <2>4. room = Coherent!Minimum(Coherent!Room(s, e), n)
      OBVIOUS
    <2> HIDE DEF s, e, n, room
    <2>5. /\ Ring!Minimum(Ring!Room(s, e), n) = room
          /\ room \in 0..n /\ e + room <= BSize
          /\ room = 0 /\ n > 0 => Coherent!Room(s, e) = 0
      BY <2>3, <2>4, RoomThere
    <2>6. e \in Nat
      BY <2>3
    <2>7. QED
      BY <2>3, <2>5, <2>6 DEF s, e, n
  <1> HIDE DEF room
  <1>5. /\ room > 0 => /\ wend' = [wend EXCEPT ![w] = mem[END]]
                       /\ free' = [free EXCEPT ![w] = room]
                       /\ Goto(w, "copy") /\ UNCHANGED <<locked, split>>
        /\ ~(room > 0) => /\ locked' = FALSE
                          /\ split' = IF mem[WRITING] THEN split ELSE split \cup {<<w, msg[w]>>}
                          /\ Goto(w, "relock") /\ UNCHANGED <<wend, free>>
    BY <1>3, <1>4 DEF LookForRoom
  <1>6. PICK l \in {"copy", "relock"} : Goto(w, l) /\ l = IF room > 0 THEN "copy" ELSE "relock"
    BY <1>5
  <1>7. pc' \in [Cores -> Labels] /\ pc'[w] = l /\ \A v \in Cores \ {w} : pc'[v] = pc[v]
    BY <1>1, <1>6, GotoPc, LabelsAre
  <1>8. /\ l1' = [c \in All |-> l1'[c]]
        /\ \A v \in Cores : l1'[v] = [k \in DOMAIN l1'[v] |-> l1'[v][k]]
        /\ \A v \in Cores \ {w} : l1'[v] = l1[v]
        /\ DOMAIN l1'[w] \subseteq Header
    BY <1>1, <1>2, LoadShape, HeaderCells
  <1>9. /\ wend' \in [Cores -> Nat] /\ free' \in [Cores -> Nat]
        /\ \A v \in Cores \ {w} : wend'[v] = wend[v] /\ free'[v] = free[v]
        /\ room > 0 => wend'[w] = mem[END] /\ free'[w] = room
    <2>1. wend \in [Cores -> Nat] /\ free \in [Cores -> Nat]
      BY <1>1 DEF Shape
    <2>2. room \in Nat /\ mem[END] \in Nat
      BY <1>4
    <2>3. CASE room > 0
      BY <1>5, <2>1, <2>2, <2>3
    <2>4. CASE ~(room > 0)
      BY <1>5, <2>1, <2>4
    <2>5. QED
      BY <2>3, <2>4
  <1>10. MovesAlone(w)
    BY <1>2, <1>7, <1>8, <1>9 DEF MovesAlone
  <1>11. Shape'
    BY <1>1, <1>2, <1>7, <1>8, <1>9 DEF Shape
  <1>12. WriterHolds(w)'
    BY <1>1, <1>2, <1>4, <1>6, <1>7, <1>8, <1>9 DEF WriterHolds, Pending
  <1>13. /\ VInv' /\ UNCHANGED <<RingWriting, RingStream, RingBuf>>
         /\ RingPc' = [RingPc EXCEPT ![w] = RingPc'[w]]
         /\ RingLeft' = [RingLeft EXCEPT ![w] = RingLeft'[w]]
         /\ UNCHANGED <<RingRpc, RingRdst, RingDelivered>>
    BY <1>1, <1>2, <1>7, <1>10, <1>11, <1>12, Frame, Quiet
  <1>14. RingPc[w] = "load" /\ RingPc'[w] = l /\ RingLeft[w] = left[w] /\ RingLeft'[w] = RingLeft[w]
    BY <1>1, <1>2, <1>7 DEF RingPc, RingLeft, Published, Shape
  <1>15. RingLeft' = RingLeft
    BY <1>13, <1>14 DEF RingLeft
  <1>16. RingWriting = mem[WRITING]
    <2>1. Alone(w) /\ ~Published(w)
      BY <1>1, <1>2, HolderAlone DEF Held, Published
    <2>2. QED
      BY <1>1, <2>1, View DEF SeenFrom, Shape
  <1>17. ASSUME room > 0
         PROVE  Coherent!Reserve(w)
    BY <1>2, <1>5, <1>6, <1>13, <1>14, <1>15, <1>17
       DEF Coherent!Reserve, Coherent!Goto, Coherent!mpb, Coherent!reader, Coherent!history, room
  <1>18. ASSUME ~(room > 0)
         PROVE  Coherent!Wait(w)
    <2>1. Coherent!Room(mem[START], mem[END]) = 0
      BY <1>2, <1>4, <1>18
    <2>2. QED
      BY <1>2, <1>5, <1>6, <1>13, <1>14, <1>15, <1>16, <1>18, <2>1
         DEF Coherent!Wait, Coherent!Goto, Coherent!mpb, Coherent!reader
  <1>19. QED
    BY <1>13, <1>17, <1>18 DEF Coherent!Writing

-----------------------------------------------------------------------------
(***************************************************************************)
(* The steps of a writer that write.                                       *)
(***************************************************************************)

(* Where a write combines with those before it, or drains them. *)
LEMMA StoreOne ==
  ASSUME Shape, NEW c \in All, NEW k \in Header, NEW x, NEW cache, cache = Nothing,
         DOMAIN wcb[c] \subseteq Header \/ DOMAIN wcb[c] \subseteq Payload,
         Store(c, cache, Only(k, x))
  PROVE  /\ l1' = [v \in All |-> l1'[v]] /\ l1'[c] = Nothing
         /\ \A v \in Cores : l1'[v] = [j \in DOMAIN l1'[v] |-> l1'[v][j]]
         /\ wcb' = [v \in All |-> wcb'[v]]
         /\ \A v \in All : wcb'[v] = [j \in DOMAIN wcb'[v] |-> wcb'[v][j]]
         /\ \A v \in All \ {c} : wcb'[v] = wcb[v] /\ l1'[v] = l1[v]
         /\ k \in DOMAIN wcb'[c] /\ wcb'[c][k] = x
         /\ DOMAIN wcb[c] \subseteq Header =>
              /\ mem' = mem /\ DOMAIN wcb'[c] = DOMAIN wcb[c] \cup {k}
              /\ \A j \in DOMAIN wcb[c] \ {k} : wcb'[c][j] = wcb[c][j]
         /\ ~(DOMAIN wcb[c] \subseteq Header) =>
              mem' = Over(wcb[c], mem) /\ DOMAIN wcb'[c] = {k}
  <1> DEFINE f    == Only(k, x)
             hit  == [j \in DOMAIN f \cap DOMAIN cache |-> f[j]]
             out  == [j \in DOMAIN f \ DOMAIN cache |-> f[j]]
             last == {j \in DOMAIN out : \A i \in DOMAIN out : Line(i) <= Line(j)}
             kept == IF \A i \in DOMAIN wcb[c], j \in DOMAIN out : Line(i) = Line(j)
                       THEN wcb[c] ELSE Nothing
             rest == [j \in DOMAIN out \ last |-> out[j]]
             into == [j \in last |-> out[j]]
  <1>1. /\ l1' = [l1 EXCEPT ![c] = Over(hit, cache)]
        /\ wcb' = [wcb EXCEPT ![c] = Over(into, kept)]
        /\ mem' = Over(rest, IF kept = wcb[c] THEN mem ELSE Over(wcb[c], mem))
    BY DEF Store
  <1>2. DOMAIN f = {k} /\ f[k] = x
    BY DEF Only
  <1>3. DOMAIN cache = {}
    BY NoCells
  <1>4. DOMAIN out = {k} /\ out[k] = x /\ DOMAIN hit = {}
    BY <1>2, <1>3
  <1>5. last = {k}
    BY <1>4, Lines
  <1>6. DOMAIN rest = {} /\ into = Only(k, x)
    BY <1>4, <1>5 DEF Only
  <1>7. kept = IF DOMAIN wcb[c] \subseteq Header THEN wcb[c] ELSE Nothing
    BY <1>4, Lines, HeaderCells
  <1>8. Over(hit, cache) = Nothing
    BY <1>3, <1>4, Empty DEF Over
  <1>9. mem = [j \in Cells |-> mem[j]] /\ wcb = [v \in All |-> wcb[v]] /\ l1 = [v \in All |-> l1[v]]
        /\ wcb[c] = [j \in DOMAIN wcb[c] |-> wcb[c][j]]
    BY DEF Shape
  <1> HIDE DEF hit, out, last, kept, rest, into, f
  <1>10. ASSUME NEW m, m = [j \in DOMAIN m |-> m[j]]
         PROVE  Over(rest, m) = m
    BY <1>6, <1>10 DEF Over
  <1>11. l1' = [v \in All |-> l1'[v]] /\ l1'[c] = Nothing /\ \A v \in All \ {c} : l1'[v] = l1[v]
    BY <1>1, <1>8, <1>9
  <1>12. /\ wcb' = [v \in All |-> wcb'[v]] /\ wcb'[c] = Over(Only(k, x), kept)
         /\ \A v \in All \ {c} : wcb'[v] = wcb[v]
    BY <1>1, <1>6, <1>9
  <1>13. /\ wcb'[c] = [j \in DOMAIN wcb'[c] |-> wcb'[c][j]]
         /\ DOMAIN wcb'[c] = {k} \cup DOMAIN kept
         /\ wcb'[c][k] = x
         /\ \A j \in DOMAIN kept \ {k} : wcb'[c][j] = kept[j]
    BY <1>12 DEF Over, Only
  <1>14. ASSUME DOMAIN wcb[c] \subseteq Header
         PROVE  mem' = mem /\ kept = wcb[c]
    BY <1>1, <1>7, <1>9, <1>10, <1>14
  <1>15. ASSUME ~(DOMAIN wcb[c] \subseteq Header)
         PROVE  mem' = Over(wcb[c], mem) /\ DOMAIN kept = {}
    <2>1. kept = Nothing /\ DOMAIN Nothing = {}
      BY <1>7, <1>15, NoCells
    <2>2. kept # wcb[c]
      BY <1>15, <2>1
    <2>3. Over(wcb[c], mem) = [j \in DOMAIN Over(wcb[c], mem) |-> Over(wcb[c], mem)[j]]
      BY DEF Over
    <2>4. QED
      BY <1>1, <1>10, <2>1, <2>2, <2>3
  <1>16. \A v \in All : wcb'[v] = [j \in DOMAIN wcb'[v] |-> wcb'[v][j]]
    BY <1>12, <1>13 DEF Shape
  <1>17. \A v \in Cores : l1'[v] = [j \in DOMAIN l1'[v] |-> l1'[v][j]]
    <2>1. l1'[c] = [j \in DOMAIN l1'[c] |-> l1'[c][j]]
      BY <1>11, Emptied
    <2>2. QED
      BY <1>11, <2>1 DEF Shape, All
  <1>18. QED
    BY <1>11, <1>12, <1>13, <1>14, <1>15, <1>16, <1>17

(* A buffer that is drained. *)
LEMMA Drained ==
  ASSUME Shape, NEW c \in All, DOMAIN wcb[c] \subseteq Cells,
         mem' = Over(wcb[c], mem), wcb' = [wcb EXCEPT ![c] = Nothing]
  PROVE  /\ mem' = [k \in Cells |-> mem'[k]]
         /\ \A k \in DOMAIN wcb[c] : mem'[k] = wcb[c][k]
         /\ \A k \in Cells \ DOMAIN wcb[c] : mem'[k] = mem[k]
         /\ wcb' = [v \in All |-> wcb'[v]] /\ wcb'[c] = Nothing
         /\ \A v \in All \ {c} : wcb'[v] = wcb[v]
         /\ \A v \in All : wcb'[v] = [k \in DOMAIN wcb'[v] |-> wcb'[v][k]]
  <1>1. DOMAIN mem = Cells /\ wcb = [v \in All |-> wcb[v]]
    BY DEF Shape
  <1>2. mem' = [k \in Cells |-> IF k \in DOMAIN wcb[c] THEN wcb[c][k] ELSE mem[k]]
    BY <1>1 DEF Over
  <1>3. /\ wcb' = [v \in All |-> wcb'[v]] /\ wcb'[c] = Nothing
        /\ \A v \in All \ {c} : wcb'[v] = wcb[v]
    BY <1>1
  <1>4. wcb'[c] = [k \in DOMAIN wcb'[c] |-> wcb'[c][k]]
    BY <1>3, Emptied
  <1>5. \A v \in All : wcb'[v] = [k \in DOMAIN wcb'[v] |-> wcb'[v][k]]
    BY <1>3, <1>4 DEF Shape
  <1>6. QED
    BY <1>2, <1>3, <1>5

(* A step that the ring does not see. *)
LEMMA Unseen ==
  ASSUME NEW w \in Cores,
         RingPc' = [RingPc EXCEPT ![w] = RingPc'[w]], RingPc'[w] = RingPc[w],
         RingLeft' = [RingLeft EXCEPT ![w] = RingLeft'[w]], RingLeft'[w] = RingLeft[w],
         UNCHANGED <<RingRpc, RingRdst, RingDelivered, RingWriting, RingStream, RingBuf>>,
         UNCHANGED <<mem[START], mem[END], locked, msg, wend, free, rstart, rend, rleft, split>>
  PROVE  UNCHANGED Coherent!vars
  <1>1. RingPc' = RingPc /\ RingLeft' = RingLeft
    <2>1. RingPc = [v \in Cores |-> RingPc[v]] /\ RingLeft = [v \in Cores |-> RingLeft[v]]
      BY DEF RingPc, RingLeft
    <2>2. QED
      BY <2>1
  <1>2. UNCHANGED Coherent!mpb
    BY DEF Coherent!mpb
  <1>3. UNCHANGED Coherent!writers
    BY <1>1 DEF Coherent!writers
  <1>4. UNCHANGED Coherent!reader
    BY DEF Coherent!reader
  <1>5. UNCHANGED Coherent!history
    BY DEF Coherent!history
  <1>6. QED
    BY <1>2, <1>3, <1>4, <1>5 DEF Coherent!vars

LEMMA RaiseStep ==
  ASSUME Inv, NEW w \in Cores, Raise(w)
  PROVE  VInv' /\ UNCHANGED Coherent!vars
  <1>1. VInv /\ Excluded /\ Shape /\ WriterHolds(w) /\ w \in All
    BY Exclusion DEF Inv, VInv, All
  <1>2. /\ pc[w] = "enter" /\ left[w] < BSize /\ Goto(w, "up")
        /\ Store(w, Nothing, Only(WRITING, TRUE))
        /\ UNCHANGED <<locked, msg, left, wend, free, rpc, rstart, rend, rleft, rdst,
                       stream, delivered, split>>
    BY DEF Raise, Flush, reader, history
  <1>3. pc' \in [Cores -> Labels] /\ pc'[w] = "up" /\ \A v \in Cores \ {w} : pc'[v] = pc[v]
    BY <1>1, <1>2, GotoPc, LabelsAre
  <1>4. DOMAIN wcb[w] = {}
    BY <1>1, <1>2 DEF WriterHolds, Pending
  <1>5. /\ l1' = [v \in All |-> l1'[v]] /\ l1'[w] = Nothing
        /\ \A v \in Cores : l1'[v] = [j \in DOMAIN l1'[v] |-> l1'[v][j]]
        /\ wcb' = [v \in All |-> wcb'[v]]
        /\ \A v \in All : wcb'[v] = [j \in DOMAIN wcb'[v] |-> wcb'[v][j]]
        /\ \A v \in All \ {w} : wcb'[v] = wcb[v] /\ l1'[v] = l1[v]
        /\ DOMAIN wcb'[w] = {WRITING} /\ wcb'[w][WRITING] = TRUE /\ mem' = mem
    BY <1>1, <1>2, <1>4, StoreOne, HeaderCells
  <1>6. MovesAlone(w)
    BY <1>2, <1>3, <1>5, ReaderApart DEF MovesAlone, All
  <1>7. Shape'
    BY <1>1, <1>2, <1>3, <1>5 DEF Shape
  <1>8. WriterHolds(w)'
    BY <1>1, <1>2, <1>3, <1>5 DEF WriterHolds, Pending, Written
  <1>9. Alone(w)
    BY <1>1, <1>2, HolderAlone DEF Held
  <1>10. /\ VInv'
         /\ RingPc' = [RingPc EXCEPT ![w] = RingPc'[w]]
         /\ RingLeft' = [RingLeft EXCEPT ![w] = RingLeft'[w]]
         /\ UNCHANGED <<RingRpc, RingRdst, RingDelivered>> /\ Alone(w)'
    BY <1>1, <1>2, <1>6, <1>7, <1>8, <1>9, Frame DEF Held
  <1>11. ~Published(w) /\ ~Published(w)'
    BY <1>2, <1>3 DEF Published
  <1>12. UNCHANGED <<RingWriting, RingStream, RingBuf>>
    <2>1. SeenFrom(w) /\ SeenFrom(w)'
      BY <1>9, <1>10, View
    <2>2. \A i \in Payload : i \notin DOMAIN wcb[w] /\ i \notin DOMAIN wcb'[w]
      BY <1>4, <1>5, HeaderCells
    <2>3. QED
      BY <1>2, <1>5, <1>11, <2>1, <2>2 DEF SeenFrom
  <1>13. RingPc[w] = "enter" /\ RingPc'[w] = "enter" /\ RingLeft'[w] = RingLeft[w]
    BY <1>2, <1>3, <1>5, <1>11 DEF RingPc, RingLeft
  <1>14. QED
    BY <1>2, <1>5, <1>10, <1>12, <1>13, Unseen

(* WRITING goes up when its write is drained. *)
LEMMA RaisedStep ==
  ASSUME Inv, NEW w \in Cores, pc[w] = "up",
         mem' = Over(wcb[w], mem), wcb' = [wcb EXCEPT ![w] = Nothing],
         Goto(w, "load") \/ (pc' = pc /\ wcb[w] # Nothing),
         UNCHANGED <<l1, locked, msg, left, wend, free, rpc, rstart, rend, rleft, rdst,
                     stream, delivered, split>>
  PROVE  VInv' /\ (Coherent!Raise(w) \/ UNCHANGED Coherent!vars)
  <1>1. VInv /\ Excluded /\ Shape /\ WriterHolds(w) /\ w \in All
    BY Exclusion DEF Inv, VInv, All
  <1>2. PICK l \in {"up", "load"} :
          /\ pc' \in [Cores -> Labels] /\ pc'[w] = l /\ \A v \in Cores \ {w} : pc'[v] = pc[v]
          /\ l = "up" => wcb[w] # Nothing
    <2>1. CASE Goto(w, "load")
      BY <1>1, <2>1, GotoPc, LabelsAre
    <2>2. CASE pc' = pc /\ wcb[w] # Nothing
      BY <1>1, <2>2 DEF Shape
    <2>3. QED
      BY <2>1, <2>2
  <1>3. DOMAIN wcb[w] \subseteq {WRITING} /\ Written(w, WRITING, TRUE) /\ left[w] < BSize
    BY <1>1 DEF WriterHolds, Pending
  <1>4. /\ mem' = [k \in Cells |-> mem'[k]] /\ mem'[WRITING] = TRUE
        /\ \A k \in Cells \ {WRITING} : mem'[k] = mem[k]
        /\ wcb' = [v \in All |-> wcb'[v]] /\ wcb'[w] = Nothing
        /\ \A v \in All \ {w} : wcb'[v] = wcb[v]
        /\ \A v \in All : wcb'[v] = [k \in DOMAIN wcb'[v] |-> wcb'[v][k]]
    <2>1. DOMAIN wcb[w] \subseteq Cells
      BY <1>3, HeaderCells DEF Cells
    <2>2. /\ mem' = [k \in Cells |-> mem'[k]]
          /\ \A k \in DOMAIN wcb[w] : mem'[k] = wcb[w][k]
          /\ \A k \in Cells \ DOMAIN wcb[w] : mem'[k] = mem[k]
          /\ wcb' = [v \in All |-> wcb'[v]] /\ wcb'[w] = Nothing
          /\ \A v \in All \ {w} : wcb'[v] = wcb[v]
          /\ \A v \in All : wcb'[v] = [k \in DOMAIN wcb'[v] |-> wcb'[v][k]]
      BY <1>1, <2>1, Drained
    <2>3. mem'[WRITING] = TRUE
      BY <1>3, <2>2, HeaderCells DEF Written, Cells
    <2>4. QED
      BY <1>3, <2>2, <2>3
  <1>5. MovesAlone(w)
    BY <1>2, <1>4, ReaderApart, HeaderCells DEF MovesAlone, All, Cells
  <1>6. Shape'
    <2>1. /\ l1' = [c \in All |-> l1'[c]]
          /\ \A v \in Cores : l1'[v] = [k \in DOMAIN l1'[v] |-> l1'[v][k]]
          /\ rpc' \in {"idle", "copy", "fool"} /\ left' \in [Cores -> Nat]
          /\ free' \in [Cores -> Nat] /\ wend' \in [Cores -> Nat]
      BY <1>1 DEF Shape
    <2>2. mem'[WRITING] \in BOOLEAN
      BY <1>4
    <2>3. QED
      BY <1>2, <1>4, <2>1, <2>2 DEF Shape
  <1>7. WriterHolds(w)'
    BY <1>2, <1>3, <1>4, NoCells DEF WriterHolds, Pending, Written
  <1>8. Alone(w) /\ pc[w] \in Held
    BY <1>1, HolderAlone DEF Held
  <1>9. /\ VInv'
        /\ RingPc' = [RingPc EXCEPT ![w] = RingPc'[w]]
        /\ RingLeft' = [RingLeft EXCEPT ![w] = RingLeft'[w]]
        /\ UNCHANGED <<RingRpc, RingRdst, RingDelivered>> /\ Alone(w)'
    BY <1>1, <1>5, <1>6, <1>7, <1>8, Frame
  <1>10. ~Published(w) /\ ~Published(w)'
    BY <1>2 DEF Published
  <1>11. /\ RingWriting = mem[WRITING] /\ RingWriting' = mem'[WRITING]
         /\ UNCHANGED <<RingStream, RingBuf>>
    <2>1. SeenFrom(w) /\ SeenFrom(w)'
      BY <1>8, <1>9, View
    <2>2. \A i \in Payload : i \notin DOMAIN wcb[w] /\ i \notin DOMAIN wcb'[w] /\ mem'[i] = mem[i]
      BY <1>3, <1>4, NoCells, HeaderCells DEF Cells
    <2>3. RingBuf' = RingBuf
      BY <2>1, <2>2 DEF SeenFrom
    <2>4. mem[WRITING] \in BOOLEAN /\ mem'[WRITING] \in BOOLEAN
      BY <1>1, <1>4 DEF Shape
    <2>5. QED
      BY <1>10, <2>1, <2>3, <2>4 DEF SeenFrom
  <1>12. /\ RingPc[w] = IF WRITING \in DOMAIN wcb[w] THEN "enter" ELSE "load"
         /\ RingPc'[w] = "load" /\ RingLeft[w] = left[w] /\ RingLeft'[w] = RingLeft[w]
    BY <1>2, <1>4, <1>10, NoCells DEF RingPc, RingLeft
  <1>13. mem'[START] = mem[START] /\ mem'[END] = mem[END]
    BY <1>4, HeaderCells DEF Cells
  <1>14. ASSUME WRITING \in DOMAIN wcb[w]
         PROVE  Coherent!Raise(w)
    <2>1. RingLeft' = RingLeft
      BY <1>9, <1>12 DEF RingLeft
    <2>2. QED
      BY <1>3, <1>4, <1>9, <1>11, <1>12, <1>13, <1>14, <2>1
         DEF Coherent!Raise, Coherent!Goto, Coherent!reader, Coherent!history
  <1>15. ASSUME WRITING \notin DOMAIN wcb[w]
         PROVE  UNCHANGED Coherent!vars
    <2>1. mem[WRITING] = TRUE
      BY <1>3, <1>15 DEF Written
    <2>2. QED
      BY <1>4, <1>9, <1>11, <1>12, <1>13, <1>15, <2>1, Unseen
  <1>16. QED
    BY <1>9, <1>14, <1>15

LEMMA StoreEndStep ==
  ASSUME Inv, NEW w \in Cores, StoreEnd(w)
  PROVE  VInv' /\ UNCHANGED Coherent!vars
  <1> DEFINE e == NewEnd(w)
  <1>1. VInv /\ Excluded /\ Shape /\ WriterHolds(w) /\ w \in All
    BY Exclusion DEF Inv, VInv, All
  <1>2. /\ pc[w] = "publish" /\ Goto(w, "down") /\ Store(w, Nothing, Only(END, e))
        /\ UNCHANGED <<locked, msg, left, wend, free, rpc, rstart, rend, rleft, rdst,
                       stream, delivered, split>>
    BY DEF StoreEnd, Flush, reader, history, NewEnd
  <1>3. pc' \in [Cores -> Labels] /\ pc'[w] = "down" /\ \A v \in Cores \ {w} : pc'[v] = pc[v]
    BY <1>1, <1>2, GotoPc, LabelsAre
  <1>4. /\ DOMAIN wcb[w] \subseteq Payload
        /\ free[w] \in 1..left[w] /\ wend[w] + free[w] <= BSize
    <2>1. Window(w) \subseteq Payload
      BY <1>1, <1>2, RingSize DEF WriterHolds, Window, Payload, Shape
    <2>2. QED
      BY <1>1, <1>2, <2>1 DEF WriterHolds, Pending
  <1> HIDE DEF e
  <1>5. /\ l1' = [v \in All |-> l1'[v]] /\ l1'[w] = Nothing
        /\ \A v \in Cores : l1'[v] = [j \in DOMAIN l1'[v] |-> l1'[v][j]]
        /\ wcb' = [v \in All |-> wcb'[v]]
        /\ \A v \in All : wcb'[v] = [j \in DOMAIN wcb'[v] |-> wcb'[v][j]]
        /\ \A v \in All \ {w} : wcb'[v] = wcb[v] /\ l1'[v] = l1[v]
        /\ wcb'[w][END] = e /\ DOMAIN wcb'[w] = {END}
        /\ mem' = [k \in Cells |-> IF k \in DOMAIN wcb[w] THEN wcb[w][k] ELSE mem[k]]
    <2>1. /\ l1' = [v \in All |-> l1'[v]] /\ l1'[w] = Nothing
          /\ \A v \in Cores : l1'[v] = [j \in DOMAIN l1'[v] |-> l1'[v][j]]
          /\ wcb' = [v \in All |-> wcb'[v]]
          /\ \A v \in All : wcb'[v] = [j \in DOMAIN wcb'[v] |-> wcb'[v][j]]
          /\ \A v \in All \ {w} : wcb'[v] = wcb[v] /\ l1'[v] = l1[v]
          /\ END \in DOMAIN wcb'[w] /\ wcb'[w][END] = e
          /\ DOMAIN wcb[w] \subseteq Header =>
               mem' = mem /\ DOMAIN wcb'[w] = DOMAIN wcb[w] \cup {END}
          /\ ~(DOMAIN wcb[w] \subseteq Header) =>
               mem' = Over(wcb[w], mem) /\ DOMAIN wcb'[w] = {END}
      BY <1>1, <1>2, <1>4, StoreOne, HeaderCells
    <2>2. mem = [k \in Cells |-> mem[k]] /\ DOMAIN wcb[w] \subseteq Cells
      BY <1>1, <1>4 DEF Shape, Cells
    <2>3. CASE DOMAIN wcb[w] \subseteq Header
      <3>1. DOMAIN wcb[w] = {}
        BY <1>4, <2>3, HeaderCells
      <3>2. QED
        BY <2>1, <2>2, <2>3, <3>1
    <2>4. CASE ~(DOMAIN wcb[w] \subseteq Header)
      <3>1. Over(wcb[w], mem) = [k \in Cells |-> IF k \in DOMAIN wcb[w] THEN wcb[w][k] ELSE mem[k]]
        BY <2>2 DEF Over
      <3>2. QED
        BY <2>1, <2>4, <3>1
    <2>5. QED
      BY <2>3, <2>4
  <1>6. \A k \in Header : mem'[k] = mem[k]
    BY <1>4, <1>5, HeaderCells DEF Cells
  <1>7. MovesAlone(w)
    BY <1>2, <1>3, <1>5, <1>6, ReaderApart, HeaderCells DEF MovesAlone, All
  <1>8. Shape'
    <2>1. mem' = [k \in Cells |-> mem'[k]] /\ mem'[WRITING] \in BOOLEAN
      BY <1>1, <1>5, <1>6, HeaderCells DEF Shape
    <2>2. QED
      BY <1>1, <1>2, <1>3, <1>5, <2>1 DEF Shape
  <1>9. WriterHolds(w)'
    <2>1. NewEnd(w)' = e
      BY <1>2 DEF NewEnd, e
    <2>2. QED
      BY <1>2, <1>3, <1>4, <1>5, <2>1 DEF WriterHolds, Pending, Written
  <1>10. Alone(w) /\ pc[w] \in Held
    BY <1>1, <1>2, HolderAlone DEF Held
  <1>11. /\ VInv'
         /\ RingPc' = [RingPc EXCEPT ![w] = RingPc'[w]]
         /\ RingLeft' = [RingLeft EXCEPT ![w] = RingLeft'[w]]
         /\ UNCHANGED <<RingRpc, RingRdst, RingDelivered>> /\ Alone(w)'
    BY <1>1, <1>7, <1>8, <1>9, <1>10, Frame
  <1>12. ~Published(w) /\ ~Published(w)'
    BY <1>2, <1>3, <1>5 DEF Published
  <1>13. UNCHANGED <<RingWriting, RingStream, RingBuf>>
    <2>1. SeenFrom(w) /\ SeenFrom(w)'
      BY <1>10, <1>11, View
    <2>2. ASSUME NEW i \in Payload
          PROVE  /\ i \notin DOMAIN wcb'[w]
                 /\ mem'[i] = IF i \in DOMAIN wcb[w] THEN wcb[w][i] ELSE mem[i]
      BY <1>5, HeaderCells DEF Cells
    <2>3. RingBuf' = RingBuf
      BY <2>1, <2>2 DEF SeenFrom
    <2>4. QED
      BY <1>2, <1>6, <1>12, <2>1, <2>3, HeaderCells DEF SeenFrom
  <1>14. RingPc[w] = "publish" /\ RingPc'[w] = "publish" /\ RingLeft'[w] = RingLeft[w]
    BY <1>2, <1>3, <1>12 DEF RingPc, RingLeft
  <1>15. mem'[START] = mem[START] /\ mem'[END] = mem[END]
    BY <1>6, HeaderCells
  <1>16. QED
    BY <1>2, <1>11, <1>13, <1>14, <1>15, Unseen

LEMMA StoreWritingStep ==
  ASSUME Inv, NEW w \in Cores, StoreWriting(w)
  PROVE  VInv' /\ UNCHANGED Coherent!vars
  <1>1. VInv /\ Excluded /\ Shape /\ WriterHolds(w) /\ w \in All
    BY Exclusion DEF Inv, VInv, All
  <1>2. /\ pc[w] = "down" /\ Goto(w, "fool") /\ Store(w, l1[w], Only(WRITING, FALSE))
        /\ UNCHANGED <<locked, msg, left, wend, free, rpc, rstart, rend, rleft, rdst,
                       stream, delivered, split>>
    BY DEF StoreWriting, reader, history
  <1>3. pc' \in [Cores -> Labels] /\ pc'[w] = "fool" /\ \A v \in Cores \ {w} : pc'[v] = pc[v]
    BY <1>1, <1>2, GotoPc, LabelsAre
  <1>4. /\ DOMAIN wcb[w] \subseteq {END} /\ l1[w] = Nothing /\ Written(w, END, NewEnd(w))
        /\ free[w] \in 1..left[w] /\ wend[w] + free[w] <= BSize
    BY <1>1, <1>2 DEF WriterHolds, Pending
  <1>5. /\ l1' = [v \in All |-> l1'[v]] /\ l1'[w] = Nothing
        /\ \A v \in Cores : l1'[v] = [j \in DOMAIN l1'[v] |-> l1'[v][j]]
        /\ wcb' = [v \in All |-> wcb'[v]]
        /\ \A v \in All : wcb'[v] = [j \in DOMAIN wcb'[v] |-> wcb'[v][j]]
        /\ \A v \in All \ {w} : wcb'[v] = wcb[v] /\ l1'[v] = l1[v]
        /\ wcb'[w][WRITING] = FALSE /\ DOMAIN wcb'[w] = DOMAIN wcb[w] \cup {WRITING}
        /\ END \in DOMAIN wcb[w] => wcb'[w][END] = wcb[w][END]
        /\ mem' = mem
    <2>1. DOMAIN wcb[w] \subseteq Header
      BY <1>4, HeaderCells
    <2>2. Store(w, Nothing, Only(WRITING, FALSE))
      BY <1>2, <1>4
    <2>3. /\ l1' = [v \in All |-> l1'[v]] /\ l1'[w] = Nothing
          /\ \A v \in Cores : l1'[v] = [j \in DOMAIN l1'[v] |-> l1'[v][j]]
          /\ wcb' = [v \in All |-> wcb'[v]]
          /\ \A v \in All : wcb'[v] = [j \in DOMAIN wcb'[v] |-> wcb'[v][j]]
          /\ \A v \in All \ {w} : wcb'[v] = wcb[v] /\ l1'[v] = l1[v]
          /\ wcb'[w][WRITING] = FALSE
      BY <1>1, <2>1, <2>2, StoreOne, HeaderCells
    <2>4. /\ mem' = mem /\ DOMAIN wcb'[w] = DOMAIN wcb[w] \cup {WRITING}
          /\ \A j \in DOMAIN wcb[w] \ {WRITING} : wcb'[w][j] = wcb[w][j]
      BY <1>1, <2>1, <2>2, StoreOne, HeaderCells
    <2>5. QED
      BY <2>3, <2>4, HeaderCells
  <1>6. MovesAlone(w)
    BY <1>2, <1>3, <1>5, ReaderApart DEF MovesAlone, All
  <1>7. Shape'
    BY <1>1, <1>2, <1>3, <1>5 DEF Shape
  <1>8. WriterHolds(w)'
    <2>1. NewEnd(w)' = NewEnd(w)
      BY <1>2 DEF NewEnd
    <2>2. Written(w, END, NewEnd(w))'
      BY <1>4, <1>5, <2>1, HeaderCells DEF Written
    <2>3. QED
      BY <1>2, <1>3, <1>4, <1>5, <2>2 DEF WriterHolds, Pending, Written
  <1>9. Alone(w) /\ pc[w] \in Held
    BY <1>1, <1>2, HolderAlone DEF Held
  <1>10. /\ VInv'
         /\ RingPc' = [RingPc EXCEPT ![w] = RingPc'[w]]
         /\ RingLeft' = [RingLeft EXCEPT ![w] = RingLeft'[w]]
         /\ UNCHANGED <<RingRpc, RingRdst, RingDelivered>> /\ Alone(w)'
    BY <1>1, <1>6, <1>7, <1>8, <1>9, Frame
  <1>11. Published(w)' <=> Published(w)
    BY <1>2, <1>3, <1>5, HeaderCells DEF Published
  <1>12. UNCHANGED <<RingWriting, RingStream, RingBuf>>
    <2>1. SeenFrom(w) /\ SeenFrom(w)'
      BY <1>9, <1>10, View
    <2>2. \A i \in Payload : i \notin DOMAIN wcb[w] /\ i \notin DOMAIN wcb'[w]
      BY <1>4, <1>5, HeaderCells
    <2>3. Chunk(w)' = Chunk(w)
      BY <1>2 DEF Chunk
    <2>4. RingBuf' = RingBuf
      BY <1>5, <2>1, <2>2 DEF SeenFrom
    <2>5. QED
      BY <1>2, <1>5, <1>11, <2>1, <2>3, <2>4 DEF SeenFrom
  <1>13. RingPc'[w] = RingPc[w] /\ RingLeft'[w] = RingLeft[w]
    BY <1>2, <1>3, <1>11 DEF RingPc, RingLeft
  <1>14. QED
    BY <1>2, <1>5, <1>10, <1>12, <1>13, Unseen

(* END and WRITING move, in one step of the ring, when END is drained; the *)
(* round ends later.                                                       *)
LEMMA PublishStep ==
  ASSUME Inv, NEW w \in Cores, pc[w] \in {"down", "fool"},
         mem' = Over(wcb[w], mem), wcb' = [wcb EXCEPT ![w] = Nothing],
         \/ /\ pc[w] = "fool" /\ Goto(w, "load")
            /\ left' = [left EXCEPT ![w] = @ - free[w]] /\ stream' = stream \o Chunk(w)
         \/ /\ wcb[w] # Nothing
            /\ UNCHANGED <<pc, left, stream>>,
         UNCHANGED <<l1, locked, msg, wend, free, rpc, rstart, rend, rleft, rdst,
                     delivered, split>>
  PROVE  VInv' /\ (Coherent!Publish(w) \/ UNCHANGED Coherent!vars)
  <1> DEFINE over == left[w] - free[w]
             e    == NewEnd(w)
  <1>1. VInv /\ Excluded /\ Shape /\ WriterHolds(w) /\ w \in All
    BY Exclusion DEF Inv, VInv, All
  <1>2. /\ DOMAIN wcb[w] \subseteq {END, WRITING}
        /\ pc[w] = "down" => DOMAIN wcb[w] \subseteq {END} /\ l1[w] = Nothing
        /\ pc[w] = "fool" => Written(w, WRITING, FALSE)
        /\ Written(w, END, e)
        /\ free[w] \in 1..left[w] /\ wend[w] + free[w] <= BSize
    BY <1>1 DEF WriterHolds, Pending
  <1>3. left[w] \in Nat /\ over \in Nat
    BY <1>1, <1>2 DEF Shape
  <1> HIDE DEF over, e
  <1>4. PICK l \in {pc[w], "load"} :
          /\ pc' \in [Cores -> Labels] /\ pc'[w] = l /\ \A v \in Cores \ {w} : pc'[v] = pc[v]
          /\ left' \in [Cores -> Nat] /\ \A v \in Cores \ {w} : left'[v] = left[v]
          /\ l = "load" => left'[w] = over /\ stream' = stream \o Chunk(w) /\ pc[w] = "fool"
          /\ l # "load" => left'[w] = left[w] /\ stream' = stream /\ wcb[w] # Nothing
    <2>1. CASE pc[w] = "fool" /\ Goto(w, "load")
               /\ left' = [left EXCEPT ![w] = @ - free[w]] /\ stream' = stream \o Chunk(w)
      <3>1. pc' \in [Cores -> Labels] /\ pc'[w] = "load" /\ \A v \in Cores \ {w} : pc'[v] = pc[v]
        BY <1>1, <2>1, GotoPc, LabelsAre
      <3>2. left \in [Cores -> Nat] /\ left' = [left EXCEPT ![w] = over]
        BY <1>1, <2>1 DEF Shape, over
      <3>3. left' \in [Cores -> Nat] /\ left'[w] = over /\ \A v \in Cores \ {w} : left'[v] = left[v]
        BY <1>3, <3>2
      <3>4. QED
        BY <2>1, <3>1, <3>3
    <2>2. CASE wcb[w] # Nothing /\ UNCHANGED <<pc, left, stream>>
      <3>1. pc' \in [Cores -> Labels] /\ left' \in [Cores -> Nat] /\ pc[w] # "load"
        BY <1>1, <2>2 DEF Shape
      <3>2. QED
        BY <2>2, <3>1
    <2>3. QED
      BY <2>1, <2>2
  <1>5. /\ mem' = [k \in Cells |-> mem'[k]] /\ mem'[END] = e
        /\ pc[w] = "fool" => mem'[WRITING] = FALSE
        /\ pc[w] = "down" => mem'[WRITING] = mem[WRITING]
        /\ \A k \in Cells \ {END, WRITING} : mem'[k] = mem[k]
        /\ END \notin DOMAIN wcb[w] => mem'[END] = mem[END]
        /\ wcb' = [v \in All |-> wcb'[v]] /\ wcb'[w] = Nothing
        /\ \A v \in All \ {w} : wcb'[v] = wcb[v]
        /\ \A v \in All : wcb'[v] = [k \in DOMAIN wcb'[v] |-> wcb'[v][k]]
    <2>1. DOMAIN wcb[w] \subseteq Cells
      BY <1>2, HeaderCells DEF Cells
    <2>2. /\ mem' = [k \in Cells |-> mem'[k]]
          /\ \A k \in DOMAIN wcb[w] : mem'[k] = wcb[w][k]
          /\ \A k \in Cells \ DOMAIN wcb[w] : mem'[k] = mem[k]
          /\ wcb' = [v \in All |-> wcb'[v]] /\ wcb'[w] = Nothing
          /\ \A v \in All \ {w} : wcb'[v] = wcb[v]
          /\ \A v \in All : wcb'[v] = [k \in DOMAIN wcb'[v] |-> wcb'[v][k]]
      BY <1>1, <2>1, Drained
    <2>3. END \in Cells /\ WRITING \in Cells /\ END # WRITING
      BY HeaderCells DEF Cells
    <2>4. mem'[END] = e /\ (END \notin DOMAIN wcb[w] => mem'[END] = mem[END])
      BY <1>2, <2>2, <2>3 DEF Written
    <2>5. pc[w] = "fool" => mem'[WRITING] = FALSE
      BY <1>2, <2>2, <2>3 DEF Written
    <2>6. pc[w] = "down" => mem'[WRITING] = mem[WRITING]
      BY <1>2, <2>2, <2>3
    <2>7. QED
      BY <1>2, <2>2, <2>4, <2>5, <2>6
  <1>6. MovesAlone(w)
    BY <1>4, <1>5, ReaderApart, HeaderCells DEF MovesAlone, All, Cells
  <1>7. Shape'
    <2>1. /\ l1' = [c \in All |-> l1'[c]]
          /\ \A v \in Cores : l1'[v] = [k \in DOMAIN l1'[v] |-> l1'[v][k]]
          /\ rpc' \in {"idle", "copy", "fool"}
          /\ free' \in [Cores -> Nat] /\ wend' \in [Cores -> Nat]
      BY <1>1 DEF Shape
    <2>2. mem'[WRITING] \in BOOLEAN
      <3>1. mem[WRITING] \in BOOLEAN
        BY <1>1 DEF Shape
      <3>2. QED
        BY <1>5, <3>1
    <2>3. QED
      BY <1>4, <1>5, <2>1, <2>2 DEF Shape
  <1>8. WriterHolds(w)'
    <2>1. CASE l = "load"
      BY <1>4, <1>5, <2>1, NoCells DEF WriterHolds, Pending
    <2>2. CASE l # "load"
      <3>1. NewEnd(w)' = e
        BY DEF NewEnd, e
      <3>2. Written(w, END, NewEnd(w))'
        BY <1>5, <3>1, NoCells DEF Written
      <3>3. pc[w] = "fool" => Written(w, WRITING, FALSE)'
        BY <1>5, NoCells DEF Written
      <3>4. pc'[w] = pc[w] /\ left'[w] = left[w] /\ free'[w] = free[w] /\ wend'[w] = wend[w]
            /\ l1'[w] = l1[w] /\ DOMAIN wcb'[w] = {}
        BY <1>4, <1>5, <2>2, NoCells
      <3>5. QED
        BY <1>2, <3>2, <3>3, <3>4 DEF WriterHolds, Pending
    <2>3. QED
      BY <2>1, <2>2
  <1>9. Alone(w) /\ pc[w] \in Held
    BY <1>1, HolderAlone DEF Held
  <1>10. /\ VInv'
         /\ RingPc' = [RingPc EXCEPT ![w] = RingPc'[w]]
         /\ RingLeft' = [RingLeft EXCEPT ![w] = RingLeft'[w]]
         /\ UNCHANGED <<RingRpc, RingRdst, RingDelivered>> /\ Alone(w)'
    BY <1>1, <1>6, <1>7, <1>8, <1>9, Frame
  <1>11. /\ Published(w) <=> END \notin DOMAIN wcb[w]
         /\ Published(w)' <=> l # "load"
    BY <1>4, <1>5, NoCells DEF Published
  <1>12. l # "load" => Chunk(w)' = Chunk(w)
    BY <1>4 DEF Chunk
  <1>13. /\ Published(w) => ~RingWriting
         /\ RingStream = IF Published(w) THEN stream \o Chunk(w) ELSE stream
         /\ ~RingWriting' /\ RingStream' = stream \o Chunk(w) /\ RingBuf' = RingBuf
    <2>1. SeenFrom(w) /\ SeenFrom(w)'
      BY <1>9, <1>10, View
    <2>2. \A i \in Payload : i \notin DOMAIN wcb[w] /\ i \notin DOMAIN wcb'[w] /\ mem'[i] = mem[i]
      BY <1>2, <1>5, NoCells, HeaderCells DEF Cells
    <2>3. RingBuf' = RingBuf
      BY <2>1, <2>2 DEF SeenFrom
    <2>4. l = "load" => ~mem'[WRITING]
      BY <1>4, <1>5
    <2>5. ~RingWriting' /\ RingStream' = stream \o Chunk(w)
      <3>1. CASE l = "load"
        BY <1>4, <1>11, <2>1, <2>4, <3>1 DEF SeenFrom
      <3>2. CASE l # "load"
        BY <1>4, <1>11, <1>12, <2>1, <3>2 DEF SeenFrom
      <3>3. QED
        BY <3>1, <3>2
    <2>6. QED
      BY <2>1, <2>3, <2>5 DEF SeenFrom
  <1>14. /\ RingPc[w] = IF Published(w) THEN "load" ELSE "publish"
         /\ RingLeft[w] = IF Published(w) THEN over ELSE left[w]
         /\ RingPc'[w] = "load" /\ RingLeft'[w] = over
    <2>1. RingPc[w] = (IF Published(w) THEN "load" ELSE "publish")
          /\ RingLeft[w] = IF Published(w) THEN over ELSE left[w]
      BY DEF RingPc, RingLeft, over
    <2>2. CASE l = "load"
      BY <1>4, <1>11, <2>1, <2>2 DEF RingPc, RingLeft
    <2>3. CASE l # "load"
      BY <1>4, <1>11, <2>1, <2>3 DEF RingPc, RingLeft, over
    <2>4. QED
      BY <2>2, <2>3
  <1>15. mem'[START] = mem[START]
    BY <1>5, HeaderCells DEF Cells
  <1>16. ASSUME Published(w)
         PROVE  UNCHANGED Coherent!vars
    <2>1. mem'[END] = mem[END]
      BY <1>5, <1>11, <1>16
    <2>2. RingStream' = RingStream /\ RingWriting' = RingWriting
      BY <1>13, <1>16 DEF RingWriting
    <2>3. QED
      BY <1>10, <1>13, <1>14, <1>15, <1>16, <2>1, <2>2, Unseen
  <1>17. ASSUME ~Published(w)
         PROVE  Coherent!Publish(w)
    <2>1. RingLeft[w] = left[w] /\ RingPc[w] = "publish" /\ RingStream = stream
      BY <1>13, <1>14, <1>17
    <2>2. Coherent!Chunk(w, free[w]) = Chunk(w)
      BY <2>1 DEF Coherent!Chunk, Chunk
    <2>3. RingLeft' = [RingLeft EXCEPT ![w] = @ - free[w]]
      <3>1. RingLeft' = [RingLeft EXCEPT ![w] = over]
        BY <1>10, <1>14
      <3>2. over = RingLeft[w] - free[w]
        BY <2>1 DEF over
      <3>3. QED
        BY <3>1, <3>2
    <2>4. mem'[END] = (wend[w] + free[w]) % BSize
      BY <1>5 DEF e, NewEnd
    <2>5. RingWriting' = FALSE /\ RingStream' = RingStream \o Coherent!Chunk(w, free[w])
      BY <1>13, <2>1, <2>2 DEF RingWriting
    <2>6. RingPc' = [RingPc EXCEPT ![w] = "load"]
      BY <1>10, <1>14
    <2>7. QED
      BY <1>10, <1>13, <1>15, <2>1, <2>3, <2>4, <2>5, <2>6
         DEF Coherent!Publish, Coherent!Goto, Coherent!reader
  <1>18. QED
    BY <1>10, <1>16, <1>17

(* Bytes that are drained before END is written: the ring has them.        *)
LEMMA DrainBytesStep ==
  ASSUME Inv, NEW w \in Cores, pc[w] = "publish",
         mem' = Over(wcb[w], mem), wcb' = [wcb EXCEPT ![w] = Nothing],
         UNCHANGED <<l1, locked, pc, msg, left, wend, free, rpc, rstart, rend, rleft, rdst,
                     stream, delivered, split>>
  PROVE  VInv' /\ UNCHANGED Coherent!vars
  <1>1. VInv /\ Excluded /\ Shape /\ WriterHolds(w) /\ w \in All
    BY Exclusion DEF Inv, VInv, All
  <1>2. /\ DOMAIN wcb[w] \subseteq Payload
        /\ free[w] \in 1..left[w] /\ wend[w] + free[w] <= BSize
    <2>1. Window(w) \subseteq Payload
      BY <1>1, RingSize DEF WriterHolds, Window, Payload, Shape
    <2>2. QED
      BY <1>1, <2>1 DEF WriterHolds, Pending
  <1>3. /\ mem' = [k \in Cells |-> mem'[k]]
        /\ \A k \in DOMAIN wcb[w] : mem'[k] = wcb[w][k]
        /\ \A k \in Cells \ DOMAIN wcb[w] : mem'[k] = mem[k]
        /\ wcb' = [v \in All |-> wcb'[v]] /\ wcb'[w] = Nothing
        /\ \A v \in All \ {w} : wcb'[v] = wcb[v]
        /\ \A v \in All : wcb'[v] = [k \in DOMAIN wcb'[v] |-> wcb'[v][k]]
    BY <1>1, <1>2, Drained DEF Cells
  <1>4. \A k \in Header : mem'[k] = mem[k]
    BY <1>2, <1>3, HeaderCells DEF Cells
  <1>5. MovesAlone(w)
    BY <1>3, <1>4, ReaderApart, HeaderCells DEF MovesAlone, All
  <1>6. Shape'
    <2>1. mem'[WRITING] \in BOOLEAN
      BY <1>1, <1>4, HeaderCells DEF Shape
    <2>2. QED
      BY <1>1, <1>3, <2>1 DEF Shape
  <1>7. WriterHolds(w)'
    BY <1>2, <1>3, NoCells DEF WriterHolds, Pending
  <1>8. Alone(w) /\ pc[w] \in Held
    BY <1>1, HolderAlone DEF Held
  <1>9. /\ VInv'
        /\ RingPc' = [RingPc EXCEPT ![w] = RingPc'[w]]
        /\ RingLeft' = [RingLeft EXCEPT ![w] = RingLeft'[w]]
        /\ UNCHANGED <<RingRpc, RingRdst, RingDelivered>> /\ Alone(w)'
    BY <1>1, <1>5, <1>6, <1>7, <1>8, Frame
  <1>10. ~Published(w) /\ ~Published(w)'
    BY DEF Published
  <1>11. UNCHANGED <<RingWriting, RingStream, RingBuf>>
    <2>1. SeenFrom(w) /\ SeenFrom(w)'
      BY <1>8, <1>9, View
    <2>2. ASSUME NEW i \in Payload
          PROVE  /\ i \notin DOMAIN wcb'[w]
                 /\ mem'[i] = IF i \in DOMAIN wcb[w] THEN wcb[w][i] ELSE mem[i]
      BY <1>3, NoCells DEF Cells
    <2>3. RingBuf' = RingBuf
      BY <2>1, <2>2 DEF SeenFrom
    <2>4. QED
      BY <1>4, <1>10, <2>1, <2>3, HeaderCells DEF SeenFrom
  <1>12. RingPc'[w] = RingPc[w] /\ RingLeft'[w] = RingLeft[w]
    BY <1>10 DEF RingPc, RingLeft
  <1>13. mem'[START] = mem[START] /\ mem'[END] = mem[END]
    BY <1>4, HeaderCells
  <1>14. QED
    BY <1>9, <1>11, <1>12, <1>13, Unseen

(* Bytes written past the header's line in L1: some may stay in the buffer *)
(* that was empty.                                                         *)
LEMMA StoreMany ==
  ASSUME Shape, NEW w \in Cores, NEW W, W \subseteq Payload, NEW f, f = [i \in W |-> f[i]],
         DOMAIN wcb[w] = {}, NEW cache, cache = l1[w], DOMAIN cache \subseteq Header,
         Store(w, cache, f)
  PROVE  /\ l1' = [v \in All |-> l1'[v]]
         /\ \A v \in Cores : l1'[v] = [k \in DOMAIN l1'[v] |-> l1'[v][k]]
         /\ wcb' = [v \in All |-> wcb'[v]] /\ DOMAIN wcb'[w] \subseteq W
         /\ \A v \in All : wcb'[v] = [k \in DOMAIN wcb'[v] |-> wcb'[v][k]]
         /\ \A v \in All \ {w} : wcb'[v] = wcb[v] /\ l1'[v] = l1[v]
         /\ mem' = [k \in Cells |-> mem'[k]] /\ \A k \in Header : mem'[k] = mem[k]
         /\ \A i \in Payload :
              (IF i \in DOMAIN wcb'[w] THEN wcb'[w][i] ELSE mem'[i])
                = IF i \in W THEN f[i] ELSE mem[i]
  <1> DEFINE hit  == [j \in DOMAIN f \cap DOMAIN cache |-> f[j]]
             out  == [j \in DOMAIN f \ DOMAIN cache |-> f[j]]
             last == {j \in DOMAIN out : \A i \in DOMAIN out : Line(i) <= Line(j)}
             kept == IF \A i \in DOMAIN wcb[w], j \in DOMAIN out : Line(i) = Line(j)
                       THEN wcb[w] ELSE Nothing
             rest == [j \in DOMAIN out \ last |-> out[j]]
             into == [j \in last |-> out[j]]
  <1>1. /\ l1' = [l1 EXCEPT ![w] = Over(hit, cache)]
        /\ wcb' = [wcb EXCEPT ![w] = Over(into, kept)]
        /\ mem' = Over(rest, IF kept = wcb[w] THEN mem ELSE Over(wcb[w], mem))
    BY DEF Store
  <1>2. DOMAIN out = W /\ \A j \in W : out[j] = f[j]
    <2>1. DOMAIN f = W
      OBVIOUS
    <2>2. DOMAIN f \ DOMAIN cache = W
      BY <2>1, HeaderCells
    <2>3. QED
      BY <2>2
  <1>3. kept = wcb[w]
    OBVIOUS
  <1>4. mem = [j \in Cells |-> mem[j]] /\ wcb = [v \in All |-> wcb[v]] /\ l1 = [v \in All |-> l1[v]]
        /\ w \in All
    BY DEF Shape, All
  <1> HIDE DEF hit, out, last, kept
  <1>5. last \subseteq W
    BY <1>2 DEF last
  <1>6. /\ DOMAIN rest = W \ last /\ \A j \in W \ last : rest[j] = f[j]
        /\ DOMAIN into = last /\ \A j \in last : into[j] = f[j]
    BY <1>2, <1>5
  <1> HIDE DEF rest, into
  <1>7. /\ wcb' = [v \in All |-> wcb'[v]] /\ wcb'[w] = Over(into, kept)
        /\ \A v \in All \ {w} : wcb'[v] = wcb[v]
    BY <1>1, <1>4
  <1>8. /\ l1' = [v \in All |-> l1'[v]] /\ l1'[w] = Over(hit, cache)
        /\ \A v \in All \ {w} : l1'[v] = l1[v]
    BY <1>1, <1>4
  <1>9. /\ wcb'[w] = [k \in DOMAIN wcb'[w] |-> wcb'[w][k]]
        /\ DOMAIN wcb'[w] = last /\ \A j \in last : wcb'[w][j] = f[j]
    BY <1>3, <1>6, <1>7 DEF Over
  <1>10. /\ mem' = [k \in Cells |-> mem'[k]]
         /\ \A k \in Cells : mem'[k] = IF k \in W \ last THEN f[k] ELSE mem[k]
    <2>1. mem' = Over(rest, mem)
      BY <1>1, <1>3
    <2>2. DOMAIN rest \cup DOMAIN mem = Cells
      BY <1>4, <1>6 DEF Cells
    <2>3. QED
      BY <1>6, <2>1, <2>2 DEF Over
  <1>11. l1'[w] = [k \in DOMAIN l1'[w] |-> l1'[w][k]]
    BY <1>8 DEF Over
  <1>12. \A v \in Cores : l1'[v] = [k \in DOMAIN l1'[v] |-> l1'[v][k]]
    BY <1>8, <1>11 DEF Shape, All
  <1>13. \A v \in All : wcb'[v] = [k \in DOMAIN wcb'[v] |-> wcb'[v][k]]
    BY <1>7, <1>9 DEF Shape
  <1>14. ASSUME NEW i \in Payload
         PROVE  (IF i \in DOMAIN wcb'[w] THEN wcb'[w][i] ELSE mem'[i])
                  = IF i \in W THEN f[i] ELSE mem[i]
    BY <1>5, <1>9, <1>10 DEF Cells
  <1>15. \A k \in Header : mem'[k] = mem[k]
    BY <1>10, HeaderCells DEF Cells
  <1>16. QED
    BY <1>5, <1>7, <1>8, <1>9, <1>10, <1>12, <1>13, <1>14, <1>15

LEMMA CopyStep ==
  ASSUME Inv, NEW w \in Cores, Copy(w)
  PROVE  VInv' /\ Coherent!Copy(w)
  <1> DEFINE f == [i \in Window(w) |-> Chunk(w)[i - wend[w] + 1]]
  <1>1. VInv /\ Excluded /\ Shape /\ WriterHolds(w) /\ w \in All
    BY Exclusion DEF Inv, VInv, All
  <1>2. /\ pc[w] = "copy" /\ Goto(w, "publish") /\ Store(w, l1[w], f)
        /\ UNCHANGED <<locked, msg, left, wend, free, rpc, rstart, rend, rleft, rdst,
                       stream, delivered, split>>
    BY DEF Copy, Window, reader, history
  <1>3. pc' \in [Cores -> Labels] /\ pc'[w] = "publish" /\ \A v \in Cores \ {w} : pc'[v] = pc[v]
    BY <1>1, <1>2, GotoPc, LabelsAre
  <1>4. /\ DOMAIN wcb[w] = {} /\ DOMAIN l1[w] \subseteq Header
        /\ free[w] \in 1..left[w] /\ wend[w] + free[w] <= BSize
    BY <1>1, <1>2 DEF WriterHolds, Pending
  <1>5. Window(w) \subseteq Payload
    BY <1>1, <1>4, RingSize DEF Window, Payload, Shape
  <1>6. f = [i \in Window(w) |-> f[i]]
    OBVIOUS
  <1>7. \A i \in Window(w) : f[i] = Chunk(w)[i - wend[w] + 1]
    OBVIOUS
  <1> HIDE DEF f
  <1>8. /\ l1' = [v \in All |-> l1'[v]]
        /\ \A v \in Cores : l1'[v] = [k \in DOMAIN l1'[v] |-> l1'[v][k]]
        /\ wcb' = [v \in All |-> wcb'[v]] /\ DOMAIN wcb'[w] \subseteq Window(w)
        /\ \A v \in All : wcb'[v] = [k \in DOMAIN wcb'[v] |-> wcb'[v][k]]
        /\ \A v \in All \ {w} : wcb'[v] = wcb[v] /\ l1'[v] = l1[v]
        /\ mem' = [k \in Cells |-> mem'[k]] /\ \A k \in Header : mem'[k] = mem[k]
        /\ \A i \in Payload :
             (IF i \in DOMAIN wcb'[w] THEN wcb'[w][i] ELSE mem'[i])
               = IF i \in Window(w) THEN f[i] ELSE mem[i]
    <2> DEFINE W     == Window(w)
               cache == l1[w]
    <2>1. W \subseteq Payload /\ f = [i \in W |-> f[i]]
      BY <1>5, <1>6
    <2>2. cache = l1[w] /\ DOMAIN cache \subseteq Header /\ Store(w, cache, f)
      BY <1>2, <1>4
    <2> HIDE DEF W, cache
    <2>3. /\ l1' = [v \in All |-> l1'[v]]
          /\ \A v \in Cores : l1'[v] = [k \in DOMAIN l1'[v] |-> l1'[v][k]]
          /\ wcb' = [v \in All |-> wcb'[v]] /\ DOMAIN wcb'[w] \subseteq W
          /\ \A v \in All : wcb'[v] = [k \in DOMAIN wcb'[v] |-> wcb'[v][k]]
          /\ \A v \in All \ {w} : wcb'[v] = wcb[v] /\ l1'[v] = l1[v]
          /\ mem' = [k \in Cells |-> mem'[k]] /\ \A k \in Header : mem'[k] = mem[k]
          /\ \A i \in Payload :
               (IF i \in DOMAIN wcb'[w] THEN wcb'[w][i] ELSE mem'[i])
                 = IF i \in W THEN f[i] ELSE mem[i]
      BY <1>1, <1>4, <2>1, <2>2, StoreMany
    <2>4. QED
      BY <2>3 DEF W
  <1>9. MovesAlone(w)
    BY <1>2, <1>3, <1>8, ReaderApart, HeaderCells DEF MovesAlone, All
  <1>10. Shape'
    <2>1. mem'[WRITING] \in BOOLEAN
      BY <1>1, <1>8, HeaderCells DEF Shape
    <2>2. QED
      BY <1>1, <1>2, <1>3, <1>8, <2>1 DEF Shape
  <1>11. WriterHolds(w)'
    <2>1. Window(w)' = Window(w)
      BY <1>2 DEF Window
    <2>2. QED
      BY <1>2, <1>3, <1>4, <1>8, <2>1 DEF WriterHolds, Pending
  <1>12. Alone(w) /\ pc[w] \in Held
    BY <1>1, <1>2, HolderAlone DEF Held
  <1>13. /\ VInv'
         /\ RingPc' = [RingPc EXCEPT ![w] = RingPc'[w]]
         /\ RingLeft' = [RingLeft EXCEPT ![w] = RingLeft'[w]]
         /\ UNCHANGED <<RingRpc, RingRdst, RingDelivered>> /\ Alone(w)'
    BY <1>1, <1>9, <1>10, <1>11, <1>12, Frame
  <1>14. ~Published(w) /\ ~Published(w)'
    BY <1>2, <1>3 DEF Published
  <1>15. RingPc[w] = "copy" /\ RingPc'[w] = "publish" /\ RingLeft[w] = left[w] /\ RingLeft'[w] = RingLeft[w]
    BY <1>2, <1>3, <1>14 DEF RingPc, RingLeft
  <1>16. RingLeft' = RingLeft
    BY <1>13, <1>15 DEF RingLeft
  <1>17. Coherent!Chunk(w, free[w]) = Chunk(w)
    BY <1>15 DEF Coherent!Chunk, Chunk
  <1>18. /\ UNCHANGED <<RingWriting, RingStream>>
         /\ RingBuf' = [i \in Payload |-> IF i \in Window(w) THEN Chunk(w)[i - wend[w] + 1]
                                          ELSE RingBuf[i]]
    <2>1. SeenFrom(w) /\ SeenFrom(w)'
      BY <1>12, <1>13, View
    <2>2. \A i \in Payload : RingBuf[i] = mem[i]
      BY <1>4, <2>1 DEF SeenFrom
    <2>3. RingBuf' = [i \in Payload |-> IF i \in Window(w) THEN f[i] ELSE mem[i]]
      BY <1>8, <2>1 DEF SeenFrom
    <2>4. QED
      BY <1>2, <1>7, <1>8, <1>14, <2>1, <2>2, <2>3, HeaderCells DEF SeenFrom
  <1>19. mem'[START] = mem[START] /\ mem'[END] = mem[END]
    BY <1>8, HeaderCells
  <1>20. Coherent!Copy(w)
    BY <1>2, <1>13, <1>15, <1>16, <1>17, <1>18, <1>19
       DEF Coherent!Copy, Coherent!Goto, Coherent!reader, Coherent!history, Payload, Window
  <1>21. QED
    BY <1>13, <1>20

-----------------------------------------------------------------------------
(***************************************************************************)
(* The steps of the reader.                                                *)
(***************************************************************************)

(* Nothing of the writers changes when no cell does but START. *)
LEMMA ReaderFrame ==
  ASSUME VInv, Excluded, UNCHANGED <<pc, left, free, wend, msg, stream>>,
         \A w \in Cores : wcb'[w] = wcb[w] /\ l1'[w] = l1[w],
         \A k \in Cells \ {START} : mem'[k] = mem[k]
  PROVE  /\ \A w \in Cores : WriterHolds(w)'
         /\ UNCHANGED <<RingWriting, RingBuf, RingPc, RingLeft, RingStream>>
         /\ mem'[END] = mem[END] /\ mem'[WRITING] = mem[WRITING]
  <1>1. /\ mem'[END] = mem[END] /\ mem'[WRITING] = mem[WRITING]
        /\ \A i \in Payload : mem'[i] = mem[i]
    BY HeaderCells DEF Cells
  <1>2. ASSUME NEW w \in Cores
        PROVE  WriterHolds(w)'
    <2>1. WriterHolds(w)
      BY DEF VInv
    <2>2. Pending(w)' = Pending(w)
      BY DEF Pending, Window
    <2>3. NewEnd(w)' = NewEnd(w)
      BY DEF NewEnd
    <2>4. QED
      BY <1>1, <2>1, <2>2, <2>3 DEF WriterHolds, Written
  <1>3. \A w \in Cores : Published(w)' <=> Published(w)
    BY DEF Published
  <1>4. RingWriting' = RingWriting
    BY <1>1, <1>3 DEF RingWriting
  <1>5. RingPc' = RingPc /\ RingLeft' = RingLeft
    <2>1. \A w \in Cores : RingPc'[w] = RingPc[w] /\ RingLeft'[w] = RingLeft[w]
      BY <1>3 DEF RingPc, RingLeft
    <2>2. /\ RingPc = [w \in Cores |-> RingPc[w]] /\ RingPc' = [w \in Cores |-> RingPc'[w]]
          /\ RingLeft = [w \in Cores |-> RingLeft[w]] /\ RingLeft' = [w \in Cores |-> RingLeft'[w]]
      BY DEF RingPc, RingLeft
    <2>3. QED
      BY <2>1, <2>2
  <1>6. ASSUME NEW u \in Cores, pc[u] \in {"up", "publish", "down", "fool"}
        PROVE  RingBuf' = RingBuf /\ RingStream' = RingStream
    <2>1. Alone(u)
      BY <1>6, HolderAlone DEF Held
    <2>2. Alone(u)'
      BY <2>1 DEF Alone
    <2>3. SeenFrom(u) /\ SeenFrom(u)'
      BY <2>1, <2>2, View
    <2>4. Chunk(u)' = Chunk(u)
      BY DEF Chunk
    <2>5. RingBuf' = RingBuf
      BY <1>1, <2>3 DEF SeenFrom
    <2>6. RingStream' = RingStream
      BY <1>3, <2>3, <2>4 DEF SeenFrom
    <2>7. QED
      BY <2>5, <2>6
  <1>7. ASSUME \A u \in Cores : pc[u] \notin {"up", "publish", "down", "fool"}
        PROVE  RingBuf' = RingBuf /\ RingStream' = RingStream
    <2>1. \A u \in Cores : DOMAIN wcb[u] = {}
      BY <1>7 DEF VInv, WriterHolds, Pending
    <2>2. \A i \in Payload : RingByte(i) = mem[i] /\ RingByte(i)' = mem'[i]
      BY <2>1 DEF RingByte
    <2>3. RingBuf' = RingBuf
      BY <1>1, <2>2 DEF RingBuf
    <2>4. RingStream' = RingStream
      BY <1>7 DEF RingStream, Published
    <2>5. QED
      BY <2>3, <2>4
  <1>8. QED
    BY <1>1, <1>2, <1>4, <1>5, <1>6, <1>7

(* A flush and a read by the reader. *)
LEMMA ReaderLoads ==
  ASSUME Shape, NEW S, S \subseteq Cells, Load(Reader, Flush(Reader), S),
         UNCHANGED <<mem, wcb, pc, left, free, wend>>, rpc' \in {"idle", "copy", "fool"}
  PROVE  /\ Shape' /\ \A w \in Cores : l1'[w] = l1[w]
         /\ \A k \in S : Loaded(Flush(Reader), S)[k] = mem[k]
  <1>1. l1' = [l1 EXCEPT ![Reader] = Loaded(Flush(Reader), S)] /\ l1 = [c \in All |-> l1[c]]
    BY DEF Load, Shape
  <1>2. l1' = [c \in All |-> l1'[c]] /\ \A w \in Cores : l1'[w] = l1[w]
    BY <1>1, ReaderApart DEF All
  <1>3. Shape'
    BY <1>2 DEF Shape
  <1>4. QED
    BY <1>2, <1>3, LoadedFresh DEF Flush

LEMMA ReadCallStep ==
  ASSUME Inv, NEW n \in ReadSizes, ReadCall(n)
  PROVE  VInv' /\ Coherent!ReadCall(n)
  <1>1. VInv /\ Excluded /\ Shape /\ ReaderHolds
    BY Exclusion DEF Inv, VInv
  <1>2. /\ rpc = "idle" /\ rpc' = "copy"
        /\ n <= Ring!Used(mem[START], mem[END]) /\ Len(delivered) + n <= MaxRead
        /\ Load(Reader, Flush(Reader), {START, END})
        /\ rstart' = Loaded(Flush(Reader), {START, END})[START]
        /\ rend' = Loaded(Flush(Reader), {START, END})[END]
        /\ rleft' = n /\ rdst' = << >>
        /\ UNCHANGED <<mem, wcb, locked, pc, msg, left, wend, free, stream, delivered, split>>
    BY DEF ReadCall, writers, history
  <1>3. /\ Shape' /\ \A w \in Cores : l1'[w] = l1[w]
        /\ rstart' = mem[START] /\ rend' = mem[END]
    BY <1>1, <1>2, ReaderLoads, HeaderCells DEF Cells
  <1>4. /\ \A w \in Cores : WriterHolds(w)'
        /\ UNCHANGED <<RingWriting, RingBuf, RingPc, RingLeft, RingStream>>
    BY <1>1, <1>2, <1>3, ReaderFrame
  <1>5. ReaderHolds'
    BY <1>1, <1>2 DEF ReaderHolds
  <1>6. ~Released /\ ~Released'
    BY <1>2 DEF Released
  <1>7. /\ RingRpc = "idle" /\ RingRpc' = "copy" /\ RingRdst' = << >>
        /\ RingDelivered = delivered /\ RingDelivered' = RingDelivered
    BY <1>2, <1>6 DEF RingRpc, RingRdst, RingDelivered
  <1>8. ~(n > Coherent!Used(mem[START], mem[END]))
    <2>1. mem[START] \in 0..(BSize - 1) /\ mem[END] \in 0..(BSize - 1) /\ n \in Nat
      BY Indices, VisibilityAssumption DEF Inv
    <2>2. Ring!Used(mem[START], mem[END]) = Coherent!Used(mem[START], mem[END])
      BY DEF Ring!Used, Coherent!Used
    <2>3. Coherent!Used(mem[START], mem[END]) \in Int
      BY <2>1, RingSize DEF Coherent!Used
    <2>4. QED
      BY <1>2, <2>1, <2>2, <2>3
  <1>9. Coherent!ReadCall(n)
    BY <1>2, <1>3, <1>4, <1>7, <1>8 DEF Coherent!ReadCall, Coherent!mpb, Coherent!writers
  <1>10. QED
    BY <1>3, <1>4, <1>5, <1>9 DEF VInv

LEMMA ReadChunkStep ==
  ASSUME Inv, ReadChunk
  PROVE  VInv' /\ Coherent!ReadChunk
  <1> DEFINE cpy == Coherent!Run(rstart, rend, rleft)
             src == rstart..(rstart + cpy - 1)
             got == Loaded(Flush(Reader), src)
  <1>1. VInv /\ Excluded /\ Shape /\ ReaderHolds
    BY Exclusion DEF Inv, VInv
  <1>2. /\ rpc = "copy" /\ rleft > 0 /\ Load(Reader, Flush(Reader), src)
        /\ rdst' = rdst \o [i \in 1..cpy |-> got[rstart + (i - 1)]]
        /\ rstart' = (rstart + cpy) % BSize /\ rleft' = rleft - cpy
        /\ UNCHANGED <<mem, wcb, locked, pc, msg, left, wend, free, rpc, rend,
                       stream, delivered, split>>
    <2>1. Ring!Run(rstart, rend, rleft) = cpy
      BY DEF Ring!Run, Ring!Minimum, Coherent!Run, Coherent!Minimum
    <2>2. QED
      BY <2>1 DEF ReadChunk, writers, history
  <1>3. ~Released /\ ~Released'
    BY <1>2 DEF Released
  <1>4. /\ RingRpc = "copy" /\ RingRpc' = "copy" /\ RingRdst = rdst /\ RingRdst' = rdst'
        /\ RingDelivered' = RingDelivered
    BY <1>2, <1>3 DEF RingRpc, RingRdst, RingDelivered
  <1>5. /\ cpy \in Nat
        /\ \A i \in 1..cpy : /\ rstart + (i - 1) \in Payload
                             /\ \A w \in Cores : rstart + (i - 1) \notin Coherent!WriterWindow(w)
    BY <1>4, RingAssumed, Coherent!ReadApart DEF Inv, Payload
  <1>6. rstart \in 0..(BSize - 1)
    BY Indices DEF Inv
  <1> HIDE DEF cpy
  <1>7. src \subseteq Payload
    <2>1. ASSUME NEW k \in src
          PROVE  k \in Payload
      <3>1. k - rstart + 1 \in 1..cpy /\ rstart + ((k - rstart + 1) - 1) = k
        BY <1>5, <1>6, RingSize
      <3>2. QED
        BY <1>5, <3>1
    <2>2. QED
      BY <2>1
  <1> HIDE DEF src
  <1>8. Shape' /\ \A w \in Cores : l1'[w] = l1[w]
    BY <1>1, <1>2, <1>7, ReaderLoads DEF Cells, Shape
  <1>9. ASSUME NEW i \in 1..cpy
        PROVE  got[rstart + (i - 1)] = RingBuf[rstart + (i - 1)]
    <2> DEFINE k == rstart + (i - 1)
    <2>1. k \in Payload /\ \A w \in Cores : k \notin Coherent!WriterWindow(w)
      BY <1>5
    <2>2. k \in src
      BY <1>5, <1>6, RingSize DEF src
    <2> HIDE DEF k
    <2>3. got[k] = mem[k]
      BY <1>1, <1>7, <2>2, LoadedFresh DEF Flush, Cells
    <2>4. ASSUME NEW w \in Cores
          PROVE  k \notin DOMAIN wcb[w]
      <3>1. CASE pc[w] = "publish"
        <4>1. RingPc[w] = "publish"
          BY <3>1 DEF RingPc
        <4>2. Coherent!WriterWindow(w) = Window(w)
          BY <4>1 DEF Coherent!WriterWindow, Window
        <4>3. DOMAIN wcb[w] \subseteq Window(w)
          BY <1>1, <3>1 DEF VInv, WriterHolds, Pending
        <4>4. QED
          BY <2>1, <4>2, <4>3
      <3>2. CASE pc[w] # "publish"
        <4>1. DOMAIN wcb[w] \subseteq Header
          BY <1>1, <3>2, HeaderCells DEF VInv, WriterHolds, Pending
        <4>2. QED
          BY <2>1, <4>1, HeaderCells
      <3>3. QED
        BY <3>1, <3>2
    <2>5. RingBuf[k] = mem[k]
      BY <2>1, <2>4 DEF RingBuf, RingByte
    <2>6. QED
      BY <2>3, <2>5 DEF k
  <1>10. /\ \A w \in Cores : WriterHolds(w)'
         /\ UNCHANGED <<RingWriting, RingBuf, RingPc, RingLeft, RingStream>>
    BY <1>1, <1>2, <1>8, ReaderFrame
  <1>11. ReaderHolds'
    BY <1>1, <1>2 DEF ReaderHolds
  <1>12. [i \in 1..cpy |-> got[rstart + (i - 1)]] = [i \in 1..cpy |-> Coherent!Cell(rstart + (i - 1))]
    <2>1. ASSUME NEW i \in 1..cpy
          PROVE  Coherent!Cell(rstart + (i - 1)) = RingBuf[rstart + (i - 1)]
      BY <1>5, RingSize DEF Coherent!Cell, Payload
    <2>2. QED
      BY <1>9, <2>1
  <1>13. RingRdst' = RingRdst \o [i \in 1..cpy |-> Coherent!Cell(rstart + (i - 1))]
    BY <1>2, <1>4, <1>12
  <1>14. Coherent!ReadChunk
    BY <1>2, <1>4, <1>10, <1>13
       DEF Coherent!ReadChunk, Coherent!mpb, Coherent!writers, Coherent!history, cpy
  <1>15. QED
    BY <1>8, <1>10, <1>11, <1>14 DEF VInv

LEMMA StoreStartStep ==
  ASSUME Inv, StoreStart
  PROVE  VInv' /\ UNCHANGED Coherent!vars
  <1>1. VInv /\ Excluded /\ Shape /\ ReaderHolds /\ Reader \in All
    BY Exclusion DEF Inv, VInv, All
  <1>2. /\ rpc = "copy" /\ rleft = 0 /\ rpc' = "fool"
        /\ Store(Reader, Nothing, Only(START, rstart))
        /\ UNCHANGED <<locked, pc, msg, left, wend, free, rstart, rend, rleft, rdst,
                       stream, delivered, split>>
    BY DEF StoreStart, Flush, writers, history
  <1>3. DOMAIN wcb[Reader] = {}
    BY <1>1, <1>2 DEF ReaderHolds
  <1>4. /\ l1' = [v \in All |-> l1'[v]]
        /\ \A v \in Cores : l1'[v] = [j \in DOMAIN l1'[v] |-> l1'[v][j]]
        /\ wcb' = [v \in All |-> wcb'[v]]
        /\ \A v \in All : wcb'[v] = [j \in DOMAIN wcb'[v] |-> wcb'[v][j]]
        /\ \A v \in All \ {Reader} : wcb'[v] = wcb[v] /\ l1'[v] = l1[v]
        /\ DOMAIN wcb'[Reader] = {START} /\ wcb'[Reader][START] = rstart /\ mem' = mem
    BY <1>1, <1>2, <1>3, StoreOne, HeaderCells
  <1>5. Shape'
    BY <1>1, <1>2, <1>4 DEF Shape
  <1>6. \A w \in Cores : wcb'[w] = wcb[w] /\ l1'[w] = l1[w]
    BY <1>4, ReaderApart DEF All
  <1>7. /\ \A w \in Cores : WriterHolds(w)'
        /\ UNCHANGED <<RingWriting, RingBuf, RingPc, RingLeft, RingStream>>
    BY <1>1, <1>2, <1>4, <1>6, ReaderFrame
  <1>8. ReaderHolds'
    BY <1>2, <1>4 DEF ReaderHolds, Written
  <1>9. ~Released /\ ~Released'
    BY <1>2, <1>4 DEF Released
  <1>10. UNCHANGED <<RingRpc, RingRdst, RingDelivered>>
    BY <1>2, <1>9 DEF RingRpc, RingRdst, RingDelivered
  <1>11. UNCHANGED Coherent!vars
    BY <1>2, <1>4, <1>7, <1>10
       DEF Coherent!vars, Coherent!mpb, Coherent!writers, Coherent!reader, Coherent!history
  <1>12. QED
    BY <1>5, <1>7, <1>8, <1>11 DEF VInv

(* START moves when its write is drained, and then the call has returned   *)
(* as far as the ring goes.                                                *)
LEMMA ReleaseStep ==
  ASSUME Inv, rpc = "fool",
         mem' = Over(wcb[Reader], mem), wcb' = [wcb EXCEPT ![Reader] = Nothing],
         \/ rpc' = "idle" /\ delivered' = delivered \o rdst /\ rdst' = << >>
         \/ wcb[Reader] # Nothing /\ UNCHANGED <<rpc, delivered, rdst>>,
         UNCHANGED <<l1, locked, pc, msg, left, wend, free, rstart, rend, rleft, stream, split>>
  PROVE  VInv' /\ (Coherent!ReadReturn \/ UNCHANGED Coherent!vars)
  <1>1. VInv /\ Excluded /\ Shape /\ ReaderHolds /\ Reader \in All
    BY Exclusion DEF Inv, VInv, All
  <1>2. DOMAIN wcb[Reader] \subseteq {START} /\ rleft = 0 /\ Written(Reader, START, rstart)
    BY <1>1 DEF ReaderHolds
  <1>3. /\ mem' = [k \in Cells |-> mem'[k]] /\ mem'[START] = rstart
        /\ START \notin DOMAIN wcb[Reader] => mem' = mem
        /\ \A k \in Cells \ {START} : mem'[k] = mem[k]
        /\ wcb' = [v \in All |-> wcb'[v]] /\ wcb'[Reader] = Nothing
        /\ \A v \in All \ {Reader} : wcb'[v] = wcb[v]
        /\ \A v \in All : wcb'[v] = [k \in DOMAIN wcb'[v] |-> wcb'[v][k]]
    <2>1. DOMAIN wcb[Reader] \subseteq Cells /\ START \in Cells
      BY <1>2, HeaderCells DEF Cells
    <2>2. /\ mem' = [k \in Cells |-> mem'[k]]
          /\ \A k \in DOMAIN wcb[Reader] : mem'[k] = wcb[Reader][k]
          /\ \A k \in Cells \ DOMAIN wcb[Reader] : mem'[k] = mem[k]
          /\ wcb' = [v \in All |-> wcb'[v]] /\ wcb'[Reader] = Nothing
          /\ \A v \in All \ {Reader} : wcb'[v] = wcb[v]
          /\ \A v \in All : wcb'[v] = [k \in DOMAIN wcb'[v] |-> wcb'[v][k]]
      BY <1>1, <2>1, Drained
    <2>3. mem'[START] = rstart
      BY <1>2, <2>1, <2>2 DEF Written
    <2>4. mem = [k \in Cells |-> mem[k]]
      BY <1>1 DEF Shape
    <2>5. START \notin DOMAIN wcb[Reader] => mem' = mem
      BY <1>2, <2>2, <2>4
    <2>6. QED
      BY <1>2, <2>2, <2>3, <2>5
  <1>4. rpc' \in {"idle", "fool"}
    OBVIOUS
  <1>5. \A w \in Cores : wcb'[w] = wcb[w] /\ l1'[w] = l1[w]
    BY <1>3, ReaderApart DEF All
  <1>6. /\ \A w \in Cores : WriterHolds(w)'
        /\ UNCHANGED <<RingWriting, RingBuf, RingPc, RingLeft, RingStream>>
        /\ mem'[END] = mem[END] /\ mem'[WRITING] = mem[WRITING]
    BY <1>1, <1>3, <1>5, ReaderFrame
  <1>7. Shape'
    <2>1. mem'[WRITING] \in BOOLEAN
      BY <1>1, <1>6 DEF Shape
    <2>2. /\ l1' = [c \in All |-> l1'[c]]
          /\ \A v \in Cores : l1'[v] = [k \in DOMAIN l1'[v] |-> l1'[v][k]]
          /\ pc' \in [Cores -> Labels] /\ left' \in [Cores -> Nat]
          /\ free' \in [Cores -> Nat] /\ wend' \in [Cores -> Nat]
      BY <1>1 DEF Shape
    <2>3. QED
      BY <1>3, <1>4, <2>1, <2>2 DEF Shape
  <1>8. ReaderHolds'
    BY <1>2, <1>3, <1>4, NoCells DEF ReaderHolds, Written
  <1>9. /\ RingRpc' = "idle" /\ RingRdst' = << >> /\ RingDelivered' = delivered \o rdst
        /\ Released <=> START \notin DOMAIN wcb[Reader]
    BY <1>3, NoCells DEF Released, RingRpc, RingRdst, RingDelivered
  <1>10. ASSUME Released
         PROVE  UNCHANGED Coherent!vars
    <2>1. UNCHANGED <<RingRpc, RingRdst, RingDelivered>>
      BY <1>9, <1>10 DEF RingRpc, RingRdst, RingDelivered
    <2>2. mem' = mem
      BY <1>3, <1>9, <1>10
    <2>3. QED
      BY <1>6, <2>1, <2>2
         DEF Coherent!vars, Coherent!mpb, Coherent!writers, Coherent!reader, Coherent!history
  <1>11. ASSUME ~Released
         PROVE  Coherent!ReadReturn
    <2>1. RingRpc = "copy" /\ RingRdst = rdst /\ RingDelivered = delivered
      BY <1>11 DEF RingRpc, RingRdst, RingDelivered
    <2>2. QED
      BY <1>2, <1>3, <1>6, <1>9, <2>1 DEF Coherent!ReadReturn, Coherent!writers
  <1>12. QED
    BY <1>6, <1>7, <1>8, <1>10, <1>11 DEF VInv

-----------------------------------------------------------------------------
(***************************************************************************)
(* The refinement.                                                         *)
(***************************************************************************)

LEMMA InitStep == Init => VInv /\ Coherent!Init
  <1> SUFFICES ASSUME Init
               PROVE  VInv /\ Coherent!Init
    OBVIOUS
  <1>1. /\ mem = [k \in Cells |-> mem[k]] /\ mem[START] = 0 /\ mem[END] = 0 /\ mem[WRITING] = FALSE
        /\ \A i \in Payload : mem[i] = Junk
    <2> DEFINE first(k) == CASE k \in {START, END} -> 0 [] k = WRITING -> FALSE
                             [] k \in Payload -> Junk
    <2>1. mem = [k \in Cells |-> first(k)]
      BY DEF Init, Cells
    <2>2. START \in Cells /\ END \in Cells /\ WRITING \in Cells /\ Payload \subseteq Cells
      BY HeaderCells DEF Cells
    <2>3. mem[START] = 0 /\ mem[END] = 0
      BY <2>1, <2>2, HeaderCells
    <2>4. mem[WRITING] = FALSE
      BY <2>1, <2>2, HeaderCells
    <2>5. \A i \in Payload : mem[i] = Junk
      BY <2>1, <2>2, HeaderCells
    <2> HIDE DEF first
    <2>6. mem = [k \in Cells |-> mem[k]]
      BY <2>1
    <2>7. QED
      BY <2>3, <2>4, <2>5, <2>6
  <1>2. /\ wcb = [c \in All |-> wcb[c]] /\ \A c \in All : wcb[c] = Nothing
        /\ l1 = [c \in All |-> l1[c]] /\ \A c \in All : l1[c] = Nothing
    BY DEF Init, All
  <1>3. /\ pc = [w \in Cores |-> "idle"] /\ left = [w \in Cores |-> 0]
        /\ wend = [w \in Cores |-> 0] /\ free = [w \in Cores |-> 0]
        /\ msg = [w \in Cores |-> 0] /\ locked = FALSE
        /\ rpc = "idle" /\ rstart = 0 /\ rend = 0 /\ rleft = 0 /\ rdst = << >>
        /\ stream = << >> /\ delivered = << >> /\ split = {}
    BY DEF Init
  <1>4. Shape
    <2>1. /\ \A c \in All : wcb[c] = [k \in DOMAIN wcb[c] |-> wcb[c][k]]
          /\ \A w \in Cores : l1[w] = [k \in DOMAIN l1[w] |-> l1[w][k]]
      BY <1>2, Emptied DEF All
    <2>2. pc \in [Cores -> Labels] /\ left \in [Cores -> Nat] /\ free \in [Cores -> Nat] /\ wend \in [Cores -> Nat]
      BY <1>3, LabelsAre
    <2>3. QED
      BY <1>1, <1>2, <1>3, <2>1, <2>2 DEF Shape
  <1>5. \A w \in Cores : WriterHolds(w)
    BY <1>2, <1>3, NoCells DEF WriterHolds, Pending, All
  <1>6. ReaderHolds
    BY <1>2, <1>3, NoCells DEF ReaderHolds, All
  <1>7. /\ RingWriting = FALSE /\ RingPc = [w \in Cores |-> "idle"] /\ RingLeft = [w \in Cores |-> 0]
        /\ RingStream = << >> /\ RingRpc = "idle" /\ RingRdst = << >> /\ RingDelivered = << >>
    BY <1>1, <1>3 DEF RingWriting, RingPc, RingLeft, RingStream, RingRpc, RingRdst, RingDelivered,
                      Published, Released
  <1>8. RingBuf = [i \in 0..(BSize - 1) |-> Junk]
    <2>1. \A i \in Payload : RingByte(i) = Junk
      BY <1>1, <1>2, NoCells DEF RingByte, All
    <2>2. QED
      BY <2>1 DEF RingBuf, Payload
  <1>9. Coherent!Init
    BY <1>1, <1>3, <1>7, <1>8 DEF Coherent!Init
  <1>10. QED
    BY <1>4, <1>5, <1>6, <1>9 DEF VInv

(* A buffer that is drained of itself, when there is something in it. *)
LEMMA DrainStep ==
  ASSUME Inv, NEW c \in Cores \cup {Reader}, Drain(c)
  PROVE  VInv' /\ [Coherent!Next]_(Coherent!vars)
  <1>1. VInv /\ Shape /\ ReaderHolds
    BY DEF Inv, VInv
  <1>2. /\ wcb[c] # Nothing /\ mem' = Over(wcb[c], mem) /\ wcb' = [wcb EXCEPT ![c] = Nothing]
        /\ UNCHANGED <<l1, locked, pc, msg, left, wend, free, rpc, rstart, rend, rleft, rdst,
                       stream, delivered, split>>
    BY DEF Drain, writers, reader, history
  <1>3. wcb[c] = [k \in DOMAIN wcb[c] |-> wcb[c][k]]
    BY <1>1 DEF Shape, All
  <1>4. ~(DOMAIN wcb[c] \subseteq {})
    BY <1>2, <1>3, Empty
  <1>5. CASE c = Reader
    <2>1. rpc = "fool"
      BY <1>1, <1>4, <1>5 DEF ReaderHolds
    <2>2. VInv' /\ (Coherent!ReadReturn \/ UNCHANGED Coherent!vars)
      BY <1>2, <1>5, <2>1, ReleaseStep
    <2>3. QED
      BY <2>2 DEF Coherent!Next, Coherent!Reading
  <1>6. ASSUME NEW w \in Cores, c = w
        PROVE  VInv' /\ [Coherent!Next]_(Coherent!vars)
    <2>1. /\ wcb[w] # Nothing /\ mem' = Over(wcb[w], mem) /\ wcb' = [wcb EXCEPT ![w] = Nothing]
      BY <1>2, <1>6
    <2>2. pc[w] \in {"up", "publish", "down", "fool"}
      BY <1>1, <1>4, <1>6 DEF VInv, WriterHolds, Pending
    <2>3. CASE pc[w] = "up"
      BY <1>2, <2>1, <2>3, RaisedStep DEF Coherent!Next, Coherent!Writing
    <2>4. CASE pc[w] = "publish"
      BY <1>2, <2>1, <2>4, DrainBytesStep
    <2>5. CASE pc[w] \in {"down", "fool"}
      BY <1>2, <2>1, <2>5, PublishStep DEF Coherent!Next, Coherent!Writing
    <2>6. QED
      BY <2>2, <2>3, <2>4, <2>5
  <1>7. QED
    BY <1>5, <1>6

LEMMA Step == Inv /\ [Next]_vars => VInv' /\ [Coherent!Next]_(Coherent!vars)
  <1> SUFFICES ASSUME Inv, [Next]_vars
               PROVE  VInv' /\ [Coherent!Next]_(Coherent!vars)
    OBVIOUS
  <1>1. ASSUME NEW w \in Cores, NEW n \in Sizes, Send(w, n)
        PROVE  VInv' /\ [Coherent!Next]_(Coherent!vars)
    BY <1>1, SendStep DEF Coherent!Next
  <1>2. ASSUME NEW w \in Cores, TakeLock(w)
        PROVE  VInv' /\ [Coherent!Next]_(Coherent!vars)
    BY <1>2, TakeLockStep DEF Coherent!Next
  <1>3. ASSUME NEW w \in Cores, Test(w) \/ Exit(w) \/ LookForRoom(w) \/ Copy(w) \/ Stop(w)
        PROVE  VInv' /\ [Coherent!Next]_(Coherent!vars)
    <2>1. VInv' /\ Coherent!Writing(w)
      <3>1. CASE Test(w)
        BY <3>1, TestStep
      <3>2. CASE Exit(w)
        BY <3>2, ExitStep
      <3>3. CASE LookForRoom(w)
        BY <3>3, LookForRoomStep
      <3>4. CASE Copy(w)
        BY <3>4, CopyStep DEF Coherent!Writing
      <3>5. CASE Stop(w)
        BY <3>5, StopStep
      <3>6. QED
        BY <1>3, <3>1, <3>2, <3>3, <3>4, <3>5
    <2>2. QED
      BY <2>1 DEF Coherent!Next
  <1>4. ASSUME NEW w \in Cores, Raise(w) \/ StoreEnd(w) \/ StoreWriting(w)
        PROVE  VInv' /\ [Coherent!Next]_(Coherent!vars)
    BY <1>4, RaiseStep, StoreEndStep, StoreWritingStep
  <1>5. ASSUME NEW w \in Cores, Raised(w)
        PROVE  VInv' /\ [Coherent!Next]_(Coherent!vars)
    <2>1. /\ pc[w] = "up" /\ Goto(w, "load")
          /\ mem' = Over(wcb[w], mem) /\ wcb' = [wcb EXCEPT ![w] = Nothing]
          /\ UNCHANGED <<l1, locked, msg, left, wend, free, rpc, rstart, rend, rleft, rdst,
                         stream, delivered, split>>
      BY <1>5 DEF Raised, Fool, reader, history
    <2>2. VInv' /\ (Coherent!Raise(w) \/ UNCHANGED Coherent!vars)
      BY <2>1, RaisedStep
    <2>3. QED
      BY <2>2 DEF Coherent!Next, Coherent!Writing
  <1>6. ASSUME NEW w \in Cores, Publish(w)
        PROVE  VInv' /\ [Coherent!Next]_(Coherent!vars)
    BY <1>6, PublishStep DEF Publish, Fool, reader, Coherent!Next, Coherent!Writing
  <1>7. ASSUME NEW n \in ReadSizes, ReadCall(n)
        PROVE  VInv' /\ [Coherent!Next]_(Coherent!vars)
    BY <1>7, ReadCallStep DEF Coherent!Next
  <1>8. CASE ReadChunk
    BY <1>8, ReadChunkStep DEF Coherent!Next, Coherent!Reading
  <1>9. CASE StoreStart
    BY <1>9, StoreStartStep
  <1>10. CASE ReadReturn
    BY <1>10, ReleaseStep DEF ReadReturn, Fool, writers, Coherent!Next, Coherent!Reading
  <1>11. ASSUME NEW c \in Cores \cup {Reader}, Drain(c)
         PROVE  VInv' /\ [Coherent!Next]_(Coherent!vars)
    BY <1>11, DrainStep
  <1>12. CASE UNCHANGED vars
    <2>1. UNCHANGED <<mem, l1, wcb, locked, pc, msg, left, wend, free, rpc, rstart, rend, rleft,
                      rdst, stream, delivered, split>>
      BY <1>12 DEF vars, chip, writers, reader, history
    <2>2. VInv'
      <3>1. Shape'
        BY <2>1 DEF Inv, VInv, Shape
      <3>2. \A w \in Cores : WriterHolds(w)'
        BY <2>1 DEF Inv, VInv, WriterHolds, Pending, Written, Window, NewEnd
      <3>3. ReaderHolds'
        BY <2>1 DEF Inv, VInv, ReaderHolds, Written
      <3>4. QED
        BY <3>1, <3>2, <3>3 DEF VInv
    <2>3. UNCHANGED <<RingWriting, RingBuf, RingPc, RingLeft, RingStream, RingRpc, RingRdst,
                      RingDelivered>>
      BY <2>1 DEF RingWriting, RingBuf, RingByte, RingPc, RingLeft, RingStream, RingRpc, RingRdst,
                  RingDelivered, Published, Released, Chunk
    <2>4. UNCHANGED Coherent!vars
      BY <2>1, <2>3
         DEF Coherent!vars, Coherent!mpb, Coherent!writers, Coherent!reader, Coherent!history
    <2>5. QED
      BY <2>2, <2>4
  <1>13. QED
    BY <1>1, <1>2, <1>3, <1>4, <1>5, <1>6, <1>7, <1>8, <1>9, <1>10, <1>11, <1>12 DEF Next

LEMMA Inductive == Spec => []Inv
  <1>1. Init => Inv
    BY InitStep, RingAssumed, Coherent!IInvInit DEF Inv
  <1>2. Inv /\ [Next]_vars => Inv'
    BY Step, RingAssumed, Coherent!IInvStep DEF Inv
  <1>3. QED
    BY <1>1, <1>2, PTL DEF Spec

(* The two names of the ring stand for the same. *)
LEMMA SameRing ==
  /\ Coherent!Init <=> Ring!Init
  /\ [Coherent!Next]_(Coherent!vars) <=> [Ring!Next]_(Ring!vars)
  <1>1. Coherent!Init <=> Ring!Init
    BY DEF Coherent!Init, Ring!Init
  <1>2. [Coherent!Next]_(Coherent!vars) <=> [Ring!Next]_(Ring!vars)
    BY DEF Ring!Next, Ring!Locking, Ring!Writing, Ring!Reading, Ring!Finished, Ring!Send,
           Ring!Acquire, Ring!BackOff, Ring!Admit, Ring!Exit, Ring!Raise, Ring!Reserve, Ring!Wait,
           Ring!Relock, Ring!Copy, Ring!Publish, Ring!Stop, Ring!ReadCall, Ring!ReadChunk,
           Ring!ReadReturn, Ring!Goto, Ring!vars, Ring!mpb, Ring!writers, Ring!reader,
           Ring!history, Ring!Room, Ring!Used, Ring!Run, Ring!Minimum, Ring!Cell, Ring!Chunk,
           Coherent!Next, Coherent!Locking, Coherent!Writing, Coherent!Reading, Coherent!Finished,
           Coherent!Send, Coherent!Acquire, Coherent!BackOff, Coherent!Admit, Coherent!Exit,
           Coherent!Raise, Coherent!Reserve, Coherent!Wait, Coherent!Relock, Coherent!Copy,
           Coherent!Publish, Coherent!Stop, Coherent!ReadCall, Coherent!ReadChunk,
           Coherent!ReadReturn, Coherent!Goto, Coherent!vars, Coherent!mpb, Coherent!writers,
           Coherent!reader, Coherent!history, Coherent!Room, Coherent!Used, Coherent!Run,
           Coherent!Minimum, Coherent!Cell, Coherent!Chunk
  <1>3. QED
    BY <1>1, <1>2

(* With the flushes and the FOOL_WRITE_COMBINEs of scc.h, a ring in memory *)
(* that nothing keeps coherent behaves as the ring of MpbRing: whatever is *)
(* stale is never used, and whatever is drained early or late is not seen. *)
THEOREM CachesUnseen == Spec => RingSpec
  <1>1. Init => Ring!Init
    BY InitStep, SameRing
  <1>2. Inv /\ [Next]_vars => [Ring!Next]_(Ring!vars)
    BY Step, SameRing
  <1>3. QED
    BY Inductive, <1>1, <1>2, PTL DEF Spec, RingSpec, Ring!Spec

(* No core gives up the lock with a write of its own still under way, and  *)
(* the reader returns with none.                                           *)
THEOREM UnlocksOvertakeNothing == Spec => []NothingHeldBack
  <1>1. Inv => NothingHeldBack
    <2> SUFFICES ASSUME Inv
                 PROVE  NothingHeldBack
      OBVIOUS
    <2>1. Shape /\ ReaderHolds /\ \A w \in Cores : WriterHolds(w)
      BY DEF Inv, VInv
    <2>2. ASSUME NEW w \in Cores, pc[w] \in {"idle", "lock", "relock"}
          PROVE  wcb[w] = Nothing
      <3>1. DOMAIN wcb[w] \subseteq {}
        BY <2>1, <2>2 DEF WriterHolds, Pending
      <3>2. w \in All /\ \A c \in All : wcb[c] = [k \in DOMAIN wcb[c] |-> wcb[c][k]]
        BY <2>1 DEF Shape, All
      <3>3. wcb[w] = [k \in DOMAIN wcb[w] |-> wcb[w][k]]
        BY <3>2
      <3>4. QED
        BY <3>1, <3>3, Empty
    <2>3. ASSUME rpc = "idle"
          PROVE  wcb[Reader] = Nothing
      <3>1. DOMAIN wcb[Reader] \subseteq {}
        BY <2>1, <2>3 DEF ReaderHolds
      <3>2. Reader \in All /\ \A c \in All : wcb[c] = [k \in DOMAIN wcb[c] |-> wcb[c][k]]
        BY <2>1 DEF Shape, All
      <3>3. wcb[Reader] = [k \in DOMAIN wcb[Reader] |-> wcb[Reader][k]]
        BY <3>2
      <3>4. QED
        BY <3>1, <3>3, Empty
    <2>4. QED
      BY <2>2, <2>3 DEF NothingHeldBack
  <1>2. QED
    BY Inductive, <1>1, PTL

(* What comes into L1 with a load after a flush is what is in memory, ...  *)
LEMMA LoadFetches ==
  ASSUME Inv, NEW c \in All, NEW S, Load(c, Flush(c), S)
  PROVE  \A d \in All : \A k \in DOMAIN l1'[d] :
           \/ k \in DOMAIN l1[d] /\ l1'[d][k] = l1[d][k]
           \/ k \in DOMAIN mem /\ l1'[d][k] = mem[k]
  <1> DEFINE here == {k \in DOMAIN mem : \E j \in S : Line(k) = Line(j)}
  <1>1. Loaded(Nothing, S) = [k \in here |-> mem[k]]
    BY NoCells DEF Loaded, Over
  <1>2. l1 = [d \in All |-> l1[d]]
    BY DEF Inv, VInv, Shape
  <1>3. l1' = [l1 EXCEPT ![c] = Loaded(Nothing, S)]
    BY DEF Load, Flush
  <1>4. l1'[c] = [k \in here |-> mem[k]] /\ \A d \in All \ {c} : l1'[d] = l1[d]
    BY <1>1, <1>2, <1>3
  <1>5. QED
    BY <1>4

(* ... and a write to cells that are not in L1 leaves L1 as it is. *)
LEMMA StoreMisses ==
  ASSUME Inv, NEW c \in All, NEW cache, cache \in {Nothing, l1[c]}, NEW f,
         DOMAIN f \cap DOMAIN cache = {}, Store(c, cache, f)
  PROVE  \A d \in All : \A k \in DOMAIN l1'[d] :
           k \in DOMAIN l1[d] /\ l1'[d][k] = l1[d][k]
  <1> DEFINE hit == [k \in DOMAIN f \cap DOMAIN cache |-> f[k]]
  <1>1. l1' = [l1 EXCEPT ![c] = Over(hit, cache)]
    BY DEF Store
  <1>2. l1 = [d \in All |-> l1[d]]
    BY DEF Inv, VInv, Shape
  <1>3. l1'[c] = Over(hit, cache) /\ \A d \in All \ {c} : l1'[d] = l1[d]
    BY <1>1, <1>2
  <1>4. DOMAIN hit = {}
    OBVIOUS
  <1> HIDE DEF hit
  <1>5. Over(hit, cache) = [k \in DOMAIN cache |-> cache[k]]
    BY <1>4 DEF Over
  <1>6. ASSUME NEW k \in DOMAIN l1'[c]
        PROVE  k \in DOMAIN l1[c] /\ l1'[c][k] = l1[c][k]
    <2>1. k \in DOMAIN cache /\ l1'[c][k] = cache[k]
      BY <1>3, <1>5
    <2>2. cache = l1[c]
      BY <2>1, NoCells
    <2>3. QED
      BY <2>1, <2>2
  <1>7. QED
    BY <1>3, <1>6

(* No write of a core ends in its L1: every one misses it, because of a    *)
(* flush before it or because only the header was read since.              *)
THEOREM WritesPassL1 == Spec => NoWriteStaysInL1
  <1> DEFINE Fetched(c) == \A k \in DOMAIN l1'[c] :
                             \/ k \in DOMAIN l1[c] /\ l1'[c][k] = l1[c][k]
                             \/ k \in DOMAIN mem /\ l1'[c][k] = mem[k]
  <1>1. ASSUME Inv, UNCHANGED l1
        PROVE  \A c \in All : Fetched(c)
    BY <1>1
  <1>2. ASSUME Inv, NEW w \in Cores, Test(w) \/ LookForRoom(w)
        PROVE  \A c \in All : Fetched(c)
    <2>1. PICK S : Load(w, Flush(w), S)
      BY <1>2 DEF Test, LookForRoom
    <2>2. QED
      BY <1>2, <2>1, LoadFetches DEF All
  <1>3. ASSUME Inv, NEW w \in Cores, Raise(w) \/ StoreEnd(w)
        PROVE  \A c \in All : Fetched(c)
    <2>1. PICK f : Store(w, Nothing, f)
      BY <1>3 DEF Raise, StoreEnd, Flush
    <2>2. QED
      BY <1>3, <2>1, StoreMisses, NoCells DEF All
  <1>4. ASSUME Inv, NEW w \in Cores, Copy(w)
        PROVE  \A c \in All : Fetched(c)
    <2>1. WriterHolds(w)
      BY <1>4 DEF Inv, VInv
    <2>2. DOMAIN l1[w] \subseteq Header
      BY <1>4, <2>1 DEF Copy, WriterHolds
    <2>3. Coherent!IInv
      BY <1>4 DEF Inv
    <2>4. wend[w] \in 0..(BSize - 1) /\ free[w] \in 0..(BSize - 1)
      BY <2>3, Indices
    <2>5. PICK f : DOMAIN f = wend[w]..(wend[w] + free[w] - 1) /\ Store(w, l1[w], f)
      BY <1>4 DEF Copy
    <2>6. \A k \in Header : k < 0
      BY DEF Header, START, END, WRITING
    <2>7. \A k \in DOMAIN f : k >= 0
      BY ONLY <2>4, <2>5, RingSize
    <2>8. DOMAIN f \cap DOMAIN l1[w] = {}
      <3>1. ASSUME NEW k \in DOMAIN f, k \in DOMAIN l1[w]
            PROVE  FALSE
        <4>1. k \in Int
          BY <2>4, <2>5, <3>1, RingSize
        <4>2. QED
          BY <2>2, <2>6, <2>7, <3>1, <4>1
      <3>2. QED
        BY <3>1
    <2>9. QED
      BY <1>4, <2>5, <2>8, StoreMisses DEF All
  <1>5. ASSUME Inv, NEW w \in Cores, StoreWriting(w)
        PROVE  \A c \in All : Fetched(c)
    <2>1. WriterHolds(w)
      BY <1>5 DEF Inv, VInv
    <2>2. l1[w] = Nothing
      BY <1>5, <2>1 DEF StoreWriting, WriterHolds
    <2>3. PICK f : Store(w, l1[w], f)
      BY <1>5 DEF StoreWriting
    <2>4. QED
      BY <1>5, <2>2, <2>3, StoreMisses, NoCells DEF All
  <1>6. ASSUME Inv, NEW w \in Cores, Stop(w)
        PROVE  \A c \in All : Fetched(c)
    <2>1. l1 = [c \in All |-> l1[c]] /\ l1' = [l1 EXCEPT ![w] = Nothing]
      BY <1>6 DEF Inv, VInv, Shape, Stop, Flush
    <2>2. QED
      BY <2>1, NoCells
  <1>7. ASSUME Inv, (\E n \in ReadSizes : ReadCall(n)) \/ ReadChunk
        PROVE  \A c \in All : Fetched(c)
    <2>1. PICK S : Load(Reader, Flush(Reader), S)
      BY <1>7 DEF ReadCall, ReadChunk
    <2>2. QED
      BY <1>7, <2>1, LoadFetches DEF All
  <1>8. ASSUME Inv, StoreStart
        PROVE  \A c \in All : Fetched(c)
    <2>1. PICK f : Store(Reader, Nothing, f)
      BY <1>8 DEF StoreStart, Flush
    <2>2. QED
      BY <1>8, <2>1, StoreMisses, NoCells DEF All
  <1>9. Inv /\ [Next]_vars => \A c \in All : Fetched(c)
    <2> SUFFICES ASSUME Inv, [Next]_vars
                 PROVE  \A c \in All : Fetched(c)
      OBVIOUS
    <2>1. ASSUME UNCHANGED vars
          PROVE  UNCHANGED l1
      BY <2>1 DEF vars, chip
    <2>2. ASSUME NEW w \in Cores,
                 \/ \E n \in Sizes : Send(w, n)
                 \/ TakeLock(w) \/ Exit(w) \/ Raised(w) \/ Publish(w)
          PROVE  UNCHANGED l1
      BY <2>2 DEF Send, TakeLock, Exit, Raised, Publish, chip
    <2>3. ASSUME ReadReturn \/ \E c \in All : Drain(c)
          PROVE  UNCHANGED l1
      BY <2>3 DEF ReadReturn, Drain
    <2>4. QED
      BY <1>1, <1>2, <1>3, <1>4, <1>5, <1>6, <1>7, <1>8, <2>1, <2>2, <2>3 DEF Next, All
  <1>10. QED
    BY Inductive, <1>9, PTL DEF Spec, NoWriteStaysInL1, All

(* So the bytes that senders publish arrive as through a FIFO, although    *)
(* every core looks at the ring through its own cache.                     *)
THEOREM CachedRingIsFifo == Spec => Coherent!FifoSpec
  <1>1. Init => Coherent!Init
    BY InitStep
  <1>2. Inv /\ [Next]_vars => [Coherent!Next]_(Coherent!vars)
    BY Step
  <1>3. Spec => Coherent!Spec
    BY Inductive, <1>1, <1>2, PTL DEF Spec, Coherent!Spec
  <1>4. QED
    BY <1>3, RingAssumed, Coherent!RingIsFifo, PTL
=============================================================================

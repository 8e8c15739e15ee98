----------------------------- MODULE MpbRingProofs ----------------------------
(***************************************************************************)
(* Theorems about MpbRing, for every ring size, every set of cores and     *)
(* every set of message and read sizes: types and mutual exclusion; that   *)
(* no memcpy races and the ring implements the bounded FIFO of bytes; and  *)
(* what happens between messages -- how long WRITING keeps others out, who *)
(* comes in between, in which order bytes are published.                   *)
(***************************************************************************)
EXTENDS MpbRing, TLAPS

-----------------------------------------------------------------------------
(***************************************************************************)
(* Lemmas on arithmetic and sequences.                                     *)
(***************************************************************************)

LEMMA RingSize == BSize \in Nat /\ BSize >= 2
  BY RingAssumption

LEMMA SizesNat == Sizes \subseteq Nat /\ ReadSizes \subseteq Nat
  BY RingAssumption

(* Where an index that does not run past the ring's end wraps to. *)
LEMMA ModSmall ==
  ASSUME NEW x \in 0..BSize
  PROVE  x % BSize = IF x = BSize THEN 0 ELSE x
  BY RingSize

(* % BSize always yields an index of the ring. *)
LEMMA ModRange ==
  ASSUME NEW x \in Nat
  PROVE  x % BSize \in 0..(BSize - 1)
  BY RingSize

(* Appending n values given as a function. *)
LEMMA AppendRun ==
  ASSUME NEW S, NEW s \in Seq(S), NEW n \in Nat, NEW f \in [1..n -> S]
  PROVE  /\ s \o f \in Seq(S)
         /\ Len(s \o f) = Len(s) + n
         /\ \A i \in 1..Len(s) : (s \o f)[i] = s[i]
         /\ \A i \in 1..n : (s \o f)[Len(s) + i] = f[i]
  <1>1. f \in Seq(S) /\ Len(f) = n
    OBVIOUS
  <1>2. QED
    BY <1>1

-----------------------------------------------------------------------------
(***************************************************************************)
(* Type correctness.                                                       *)
(***************************************************************************)

(* What a core has reserved lies within its message and within the ring.   *)
(* TypeOK needs it: `size -= free' must not go below zero.                 *)
Reserved ==
  \A w \in Cores : pc[w] \in {"copy", "publish"} =>
    /\ free[w] \in 1..left[w]
    /\ wend[w] + free[w] <= BSize

TypeInv == TypeOK /\ Reserved

(* The room the code computes never is negative nor leads past the end. *)
LEMMA RoomRange ==
  ASSUME NEW s \in 0..(BSize - 1), NEW e \in 0..(BSize - 1)
  PROVE  /\ Room(s, e) \in 0..(BSize - 1)
         /\ e + Room(s, e) <= BSize
         /\ Room(s, e) <= BSize - 1 - Used(s, e)
         /\ Room(s, e) = 0 => Used(s, e) = BSize - 1
  <1>1. CASE e < s
    <2>1. Room(s, e) = s - e - 1
      BY <1>1 DEF Room
    <2>2. Used(s, e) = e + BSize - s
      BY <1>1 DEF Used
    <2>3. QED
      BY <1>1, <2>1, <2>2, RingSize
  <1>2. CASE ~(e < s) /\ s = 0
    <2>1. Room(s, e) = BSize - e - 1
      BY <1>2 DEF Room
    <2>2. Used(s, e) = e
      BY <1>2 DEF Used
    <2>3. QED
      BY <1>2, <2>1, <2>2, RingSize
  <1>3. CASE ~(e < s) /\ s # 0
    <2>1. Room(s, e) = BSize - e
      BY <1>3, RingSize DEF Room
    <2>2. Used(s, e) = e - s
      BY <1>3 DEF Used
    <2>3. QED
      BY <1>3, <2>1, <2>2, RingSize
  <1>4. QED
    BY <1>1, <1>2, <1>3

LEMMA ChunkType ==
  ASSUME TypeOK, NEW w \in Cores, NEW n \in Nat, n <= left[w]
  PROVE  /\ Chunk(w, n) \in [1..n -> Byte]
         /\ \A i \in 1..n : Chunk(w, n)[i] = <<w, msg[w], left[w] - (i - 1)>>
  <1>1. msg[w] \in Nat /\ left[w] \in Nat
    BY DEF TypeOK
  <1>2. \A i \in 1..n : <<w, msg[w], left[w] - (i - 1)>> \in Byte
    BY <1>1 DEF Byte
  <1>3. QED
    BY <1>2 DEF Chunk

LEMMA TypeInit == Init => TypeInv
  <1> SUFFICES ASSUME Init
               PROVE  TypeInv
    OBVIOUS
  <1> USE DEF Init
  <1>1. \A S : << >> \in Seq(S)
    OBVIOUS
  <1>2. stream \in Seq(Byte) /\ delivered \in Seq(Byte \cup {Junk}) /\ rdst \in Seq(Byte \cup {Junk})
    BY <1>1
  <1>3. buf \in [0..(BSize - 1) -> Byte \cup {Junk}]
    OBVIOUS
  <1>4. /\ pc \in [Cores -> Labels]
        /\ msg \in [Cores -> Nat] /\ left \in [Cores -> Nat]
        /\ wend \in [Cores -> 0..(BSize - 1)] /\ free \in [Cores -> 0..(BSize - 1)]
    BY RingSize DEF Labels
  <1>5. start \in 0..(BSize - 1) /\ end \in 0..(BSize - 1) /\ rstart \in 0..(BSize - 1) /\ rend \in 0..(BSize - 1)
    BY RingSize
  <1>6. Reserved
    BY DEF Reserved
  <1>7. QED
    BY <1>2, <1>3, <1>4, <1>5, <1>6 DEF TypeInv, TypeOK

(* Where a core goes, and that no other core moves. *)
LEMMA GotoPc ==
  ASSUME TypeOK, NEW w \in Cores, NEW l \in Labels, Goto(w, l)
  PROVE  /\ pc' \in [Cores -> Labels]
         /\ pc'[w] = l
         /\ \A v \in Cores : v # w => pc'[v] = pc[v]
  BY DEF TypeOK, Goto

LEMMA LabelsAre ==
  /\ "idle" \in Labels /\ "lock" \in Labels /\ "test" \in Labels
  /\ "enter" \in Labels /\ "load" \in Labels /\ "relock" \in Labels
  /\ "copy" \in Labels /\ "publish" \in Labels /\ "exited" \in Labels
  BY DEF Labels

LEMMA TypeStep == TypeInv /\ [Next]_vars => TypeInv'
  <1> SUFFICES ASSUME TypeInv, [Next]_vars
               PROVE  TypeInv'
    OBVIOUS
  <1> USE LabelsAre DEF mpb, writers, reader, history
  <1>0. TypeOK /\ Reserved
    BY DEF TypeInv
  <1>1. ASSUME NEW w \in Cores, NEW n \in Sizes, Send(w, n)
        PROVE  TypeInv'
    <2>1. /\ Goto(w, "lock") /\ msg' = [msg EXCEPT ![w] = @ + 1]
          /\ left' = [left EXCEPT ![w] = n] /\ pc[w] = "idle"
          /\ UNCHANGED <<mpb, locked, wend, free, reader, history>>
      BY <1>1 DEF Send
    <2>2. msg \in [Cores -> Nat] /\ left \in [Cores -> Nat] /\ n \in Nat
      BY <1>0, SizesNat DEF TypeOK
    <2>3. msg' \in [Cores -> Nat] /\ left' \in [Cores -> Nat]
      BY <2>1, <2>2
    <2>4. pc' \in [Cores -> Labels] /\ pc'[w] = "lock" /\ \A v \in Cores : v # w => pc'[v] = pc[v]
      BY <1>0, <2>1, GotoPc
    <2>5. TypeOK'
      BY <1>0, <2>1, <2>3, <2>4 DEF TypeOK
    <2>6. Reserved'
      BY <1>0, <2>1, <2>2, <2>4 DEF Reserved
    <2>7. QED
      BY <2>5, <2>6 DEF TypeInv
  <1>2. ASSUME NEW w \in Cores,
               Locking(w) \/ BackOff(w) \/ Admit(w) \/ Exit(w) \/ Raise(w) \/ Stop(w)
        PROVE  TypeInv'
    <2>1. PICK l \in {"idle", "lock", "test", "enter", "load", "exited"} : Goto(w, l)
      BY <1>2 DEF Locking, Acquire, Relock, BackOff, Admit, Exit, Raise, Stop
    <2>2. pc' \in [Cores -> Labels] /\ pc'[w] = l /\ \A v \in Cores : v # w => pc'[v] = pc[v]
      BY <1>0, <2>1, GotoPc
    <2>3. writing' \in BOOLEAN /\ locked' \in BOOLEAN
      BY <1>0, <1>2 DEF TypeOK, Locking, Acquire, Relock, BackOff, Admit, Exit, Raise, Stop
    <2>4. UNCHANGED <<start, end, buf, msg, left, wend, free, reader, history>>
      BY <1>2 DEF Locking, Acquire, Relock, BackOff, Admit, Exit, Raise, Stop
    <2>5. TypeOK'
      BY <1>0, <2>2, <2>3, <2>4 DEF TypeOK
    <2>6. Reserved'
      BY <1>0, <2>1, <2>2, <2>4 DEF Reserved
    <2>7. QED
      BY <2>5, <2>6 DEF TypeInv
  <1>3. ASSUME NEW w \in Cores, Wait(w)
        PROVE  TypeInv'
    <2>1. split' \subseteq Cores \X Nat
      BY <1>0, <1>3 DEF TypeOK, Wait
    <2>2. TypeOK'
      BY <1>0, <1>3, <2>1, GotoPc DEF TypeOK, Wait
    <2>3. Reserved'
      BY <1>0, <1>3, GotoPc DEF TypeOK, Reserved, Wait
    <2>4. QED
      BY <2>2, <2>3 DEF TypeInv
  <1>4. ASSUME NEW w \in Cores, Reserve(w)
        PROVE  TypeInv'
    <2> DEFINE room == Room(start, end)
    <2>1. start \in 0..(BSize - 1) /\ end \in 0..(BSize - 1) /\ left[w] \in Nat
      BY <1>0 DEF TypeOK
    <2>2. room \in 0..(BSize - 1) /\ end + room <= BSize
      BY <2>1, RoomRange
    <2>3. Minimum(room, left[w]) <= room /\ Minimum(room, left[w]) <= left[w]
          /\ Minimum(room, left[w]) \in Nat
      BY <2>1, <2>2 DEF Minimum
    <2> DEFINE f == Minimum(room, left[w])
    <2>4. /\ free' = [free EXCEPT ![w] = f]
          /\ f > 0
      BY <1>4 DEF Reserve
    <2>5. f \in 1..room /\ f <= left[w]
      BY <2>2, <2>3, <2>4
    <2> HIDE DEF room, f
    <2>6. /\ wend' = [wend EXCEPT ![w] = end] /\ Goto(w, "copy")
          /\ UNCHANGED <<mpb, locked, msg, left, reader, history>>
      BY <1>4 DEF Reserve
    <2>7. free' \in [Cores -> 0..(BSize - 1)] /\ wend' \in [Cores -> 0..(BSize - 1)]
      BY <1>0, <2>1, <2>2, <2>4, <2>6, <2>5, RingSize DEF TypeOK
    <2>8. TypeOK'
      BY <1>0, <2>6, <2>7, GotoPc DEF TypeOK
    <2>9. Reserved'
      <3> SUFFICES ASSUME NEW v \in Cores, pc'[v] \in {"copy", "publish"}
                   PROVE  free'[v] \in 1..left'[v] /\ wend'[v] + free'[v] <= BSize
        BY DEF Reserved
      <3>1. free \in [Cores -> 0..(BSize - 1)] /\ wend \in [Cores -> 0..(BSize - 1)]
        BY <1>0 DEF TypeOK
      <3>2. CASE v = w
        BY <2>1, <2>2, <2>4, <2>6, <2>5, <3>1, <3>2, RingSize
      <3>3. CASE v # w
        <4>1. pc'[v] = pc[v]
          BY <1>0, <2>6, <3>3, GotoPc
        <4>2. QED
          BY <1>0, <2>4, <2>6, <3>1, <3>3, <4>1 DEF Reserved
      <3>4. QED
        BY <3>2, <3>3
    <2>10. QED
      BY <2>8, <2>9 DEF TypeInv
  <1>5. ASSUME NEW w \in Cores, Copy(w)
        PROVE  TypeInv'
    <2>1. /\ wend[w] \in Nat /\ free[w] \in Nat /\ free[w] <= left[w]
          /\ buf \in [0..(BSize - 1) -> Byte \cup {Junk}]
      BY <1>0, <1>5, RingSize DEF TypeOK, Reserved, Copy
    <2>2. Chunk(w, free[w]) \in [1..free[w] -> Byte]
      BY <1>0, <2>1, ChunkType
    <2>3. buf' \in [0..(BSize - 1) -> Byte \cup {Junk}]
      <3>1. \A i \in wend[w]..(wend[w] + free[w] - 1) : i - wend[w] + 1 \in 1..free[w]
        BY <2>1
      <3>2. \A i \in wend[w]..(wend[w] + free[w] - 1) : Chunk(w, free[w])[i - wend[w] + 1] \in Byte
        BY <2>2, <3>1
      <3>3. QED
        BY <1>5, <2>1, <3>2 DEF Copy
    <2>4. TypeOK'
      BY <1>0, <1>5, <2>3, GotoPc DEF TypeOK, Copy
    <2>5. Reserved'
      BY <1>0, <1>5, GotoPc DEF Reserved, Copy
    <2>6. QED
      BY <2>4, <2>5 DEF TypeInv
  <1>6. ASSUME NEW w \in Cores, Publish(w)
        PROVE  TypeInv'
    <2>1. /\ wend[w] \in Nat /\ free[w] \in Nat /\ left[w] \in Nat
          /\ free[w] <= left[w] /\ stream \in Seq(Byte)
      BY <1>0, <1>6, RingSize DEF TypeOK, Reserved, Publish
    <2>2. Chunk(w, free[w]) \in [1..free[w] -> Byte]
      BY <1>0, <2>1, ChunkType
    <2>3. stream' \in Seq(Byte)
      BY <1>6, <2>1, <2>2, AppendRun DEF Publish
    <2>4. end' \in 0..(BSize - 1)
      <3>1. wend[w] + free[w] \in Nat /\ end' = (wend[w] + free[w]) % BSize
        BY <1>6, <2>1 DEF Publish
      <3>2. QED
        BY ONLY <3>1, ModRange
    <2>5. left' \in [Cores -> Nat] /\ \A v \in Cores : v # w => left'[v] = left[v]
      BY <1>0, <1>6, <2>1 DEF TypeOK, Publish
    <2>6. TypeOK'
      BY <1>0, <1>6, <2>3, <2>4, <2>5, GotoPc DEF TypeOK, Publish
    <2>7. Reserved'
      BY <1>0, <1>6, <2>5, GotoPc DEF Reserved, Publish
    <2>8. QED
      BY <2>6, <2>7 DEF TypeInv
  <1>7. ASSUME NEW n \in ReadSizes, ReadCall(n)
        PROVE  TypeInv'
    <2>1. n \in Nat /\ start \in 0..(BSize - 1) /\ end \in 0..(BSize - 1)
      BY <1>0, SizesNat DEF TypeOK
    <2>2. << >> \in Seq(Byte \cup {Junk})
      OBVIOUS
    <2>3. overread' \in BOOLEAN
      BY <1>0, <1>7 DEF TypeOK, ReadCall
    <2>4. TypeOK'
      BY <1>0, <1>7, <2>1, <2>2, <2>3 DEF TypeOK, ReadCall
    <2>5. Reserved'
      BY <1>0, <1>7 DEF Reserved, ReadCall
    <2>6. QED
      BY <2>4, <2>5 DEF TypeInv
  <1>8. CASE ReadChunk
    <2> DEFINE cpy == Run(rstart, rend, rleft)
    <2>1. /\ rstart \in 0..(BSize - 1) /\ rleft \in Nat
          /\ rdst \in Seq(Byte \cup {Junk})
          /\ buf \in [0..(BSize - 1) -> Byte \cup {Junk}]
      BY <1>0 DEF TypeOK
    <2>2. cpy \in Nat /\ cpy <= rleft
      BY <2>1, RingSize DEF Run, Minimum
    <2>3. /\ rdst' = rdst \o [i \in 1..cpy |-> Cell(rstart + (i - 1))]
          /\ rstart' = (rstart + cpy) % BSize
          /\ rleft' = rleft - cpy
          /\ UNCHANGED <<mpb, locked, writers, rpc, rend, history>>
      BY <1>8 DEF ReadChunk
    <2> HIDE DEF cpy
    <2>4. [i \in 1..cpy |-> Cell(rstart + (i - 1))] \in [1..cpy -> Byte \cup {Junk}]
      BY <2>1, <2>2, RingSize DEF Cell
    <2>5. rdst' \in Seq(Byte \cup {Junk})
      <3> DEFINE run == [i \in 1..cpy |-> Cell(rstart + (i - 1))]
                 Cells == Byte \cup {Junk}
      <3>1. rdst' = rdst \o run /\ rdst \in Seq(Cells) /\ run \in [1..cpy -> Cells]
        BY <2>1, <2>3, <2>4
      <3> HIDE DEF run, Cells
      <3>2. run \in Seq(Cells)
        BY ONLY <2>2, <3>1
      <3>3. rdst' \in Seq(Cells)
        BY ONLY <3>1, <3>2
      <3>4. QED
        BY <3>3 DEF Cells
    <2>6. rstart + cpy \in Nat
      BY <2>1, <2>2, RingSize
    <2>7. rstart' \in 0..(BSize - 1)
      BY <2>3, <2>6, ModRange
    <2>8. rleft' \in Nat
      BY <2>1, <2>2, <2>3
    <2>9. TypeOK' /\ Reserved'
      BY <1>0, <2>3, <2>5, <2>7, <2>8 DEF TypeOK, Reserved
    <2>10. QED
      BY <2>9 DEF TypeInv
  <1>9. CASE ReadReturn
    <2>1. delivered' \in Seq(Byte \cup {Junk}) /\ rdst' \in Seq(Byte \cup {Junk})
      BY <1>0, <1>9 DEF TypeOK, ReadReturn
    <2>2. TypeOK' /\ Reserved'
      BY <1>0, <1>9, <2>1 DEF TypeOK, Reserved, ReadReturn
    <2>3. QED
      BY <2>2 DEF TypeInv
  <1>10. CASE UNCHANGED vars
    <2>1. TypeOK' /\ Reserved'
      BY <1>0, <1>10 DEF vars, TypeOK, Reserved
    <2>2. QED
      BY <2>1 DEF TypeInv
  <1>11. QED
    BY <1>1, <1>2, <1>3, <1>4, <1>5, <1>6, <1>7, <1>8, <1>9, <1>10
       DEF Next, Writing, Reading, Finished

(* Every variable keeps its type, and every index stays inside the ring,   *)
(* whatever the readers ask for.                                           *)
THEOREM TypeCorrect == Spec => []TypeOK
  <1>1. TypeInv => TypeOK
    BY DEF TypeInv
  <1>2. QED
    BY TypeInit, TypeStep, <1>1, PTL DEF Spec

-----------------------------------------------------------------------------
(***************************************************************************)
(* Mutual exclusion.                                                       *)
(***************************************************************************)

(* A core that moves between labels on the same side of the lock leaves    *)
(* MutualExclusion as it is; so does one that moves when the register      *)
(* changes with it.                                                        *)
LEMMA LockMove ==
  ASSUME TypeOK, MutualExclusion, NEW w \in Cores, NEW l \in Labels, Goto(w, l),
         LET in == l \in {"test", "enter", "load", "copy", "publish", "exited"}
         IN  \/ (Holding(w) <=> in) /\ locked' = locked
             \/ ~locked /\ locked' /\ in
             \/ Holding(w) /\ ~locked' /\ ~in
  PROVE  MutualExclusion'
  <1> DEFINE in == l \in {"test", "enter", "load", "copy", "publish", "exited"}
  <1>1. (Holding(w))' <=> in
    BY GotoPc DEF Holding
  <1>2. \A v \in Cores : v # w => ((Holding(v))' <=> Holding(v))
    BY GotoPc DEF Holding
  <1> HIDE DEF in
  <1>3. /\ locked <=> \E v \in Cores : Holding(v)
        /\ \A u, v \in Cores : Holding(u) /\ Holding(v) => u = v
    BY DEF MutualExclusion
  <1>4. \/ (Holding(w) <=> in) /\ locked' = locked
        \/ ~locked /\ locked' /\ in
        \/ Holding(w) /\ ~locked' /\ ~in
    BY DEF in
  <1>5. locked \in BOOLEAN
    BY DEF TypeOK
  <1>6. locked' <=> \E v \in Cores : (Holding(v))'
    BY <1>1, <1>2, <1>3, <1>4, <1>5
  <1>7. \A u, v \in Cores : (Holding(u))' /\ (Holding(v))' => u = v
    BY <1>1, <1>2, <1>3, <1>4, <1>5
  <1>8. QED
    BY <1>6, <1>7 DEF MutualExclusion

LEMMA LockStep == TypeOK /\ MutualExclusion /\ [Next]_vars => MutualExclusion'
  <1> SUFFICES ASSUME TypeOK, MutualExclusion, [Next]_vars
               PROVE  MutualExclusion'
    OBVIOUS
  <1> USE LabelsAre DEF mpb
  <1>1. ASSUME NEW w \in Cores, NEW n \in Sizes, Send(w, n)
        PROVE  MutualExclusion'
    BY <1>1, LockMove DEF Send, Holding
  <1>2. ASSUME NEW w \in Cores, Acquire(w) \/ Relock(w)
        PROVE  MutualExclusion'
    BY <1>2, LockMove DEF Acquire, Relock
  <1>3. ASSUME NEW w \in Cores, Admit(w) \/ Exit(w) \/ Raise(w) \/ Reserve(w) \/ Copy(w) \/ Publish(w)
        PROVE  MutualExclusion'
    BY <1>3, LockMove DEF Admit, Exit, Raise, Reserve, Copy, Publish, Holding
  <1>4. ASSUME NEW w \in Cores, BackOff(w) \/ Wait(w) \/ Stop(w)
        PROVE  MutualExclusion'
    BY <1>4, LockMove DEF BackOff, Wait, Stop, Holding
  <1>5. ASSUME UNCHANGED <<locked, pc>>
        PROVE  MutualExclusion'
    BY <1>5 DEF MutualExclusion, Holding
  <1>6. QED
    BY <1>1, <1>2, <1>3, <1>4, <1>5
       DEF Next, Locking, Writing, Reading, ReadCall, ReadChunk, ReadReturn, Finished, vars, writers

(* The lock register is taken exactly while one core is between lock() and *)
(* unlock(): no back-off of start_write_node, no wait for room, no exit    *)
(* from within cpy_mem_to_mpb lets a second core in.                       *)
THEOREM LockExcludes == Spec => []MutualExclusion
  <1>1. Init => MutualExclusion
    BY DEF Init, MutualExclusion, Holding
  <1>2. QED
    BY TypeCorrect, <1>1, LockStep, PTL DEF Spec

-----------------------------------------------------------------------------
(***************************************************************************)
(* The inductive invariant.  It says something only while every caller of  *)
(* cpy_mpb_to_mem has asked for published bytes.                           *)
(***************************************************************************)

(* The ring holds what has been published and not been delivered.  *)
RingInv ==
  /\ Len(stream) = Len(delivered) + Used(start, end)
  /\ \A i \in 1..Len(delivered) : delivered[i] = stream[i]
  /\ \A i \in 0..(BSize - 1) : Used(start, i) < Used(start, end) =>
       buf[i] = stream[Len(delivered) + Used(start, i) + 1]

(* A core that has reserved room has it still: no other core has moved END *)
(* and the reader can only have made more of it.  Before END moves, the    *)
(* bytes are in place.                                                     *)
WriterInv ==
  \A w \in Cores :
    /\ pc[w] \in {"copy", "publish"} =>
         /\ wend[w] = end
         /\ free[w] <= BSize - 1 - Used(start, end)
    /\ pc[w] = "publish" =>
         \A i \in 1..free[w] : buf[wend[w] + i - 1] = <<w, msg[w], left[w] - (i - 1)>>

(* The bytes that a read in progress has copied are the next of the        *)
(* stream, and those it still wants are published: even before the END     *)
(* that it looked at when it began.                                        *)
ReaderInv ==
  rpc = "copy" =>
    /\ Len(rdst) + rleft \in 1..Used(start, end)
    /\ Used(start, rstart) = Len(rdst)
    /\ rleft <= Used(rstart, rend)
    /\ \A i \in 1..Len(rdst) : rdst[i] = stream[Len(delivered) + i]

DataInv == ~overread => RingInv /\ WriterInv /\ ReaderInv

(* All that the copies need of the lock. *)
OneCopies ==
  \A v, w \in Cores :
    pc[v] \in {"copy", "publish"} /\ pc[w] \in {"copy", "publish"} => v = w

CopyInv == TypeInv /\ OneCopies /\ DataInv

IInv == TypeInv /\ MutualExclusion /\ DataInv

LEMMA LockedCopies == IInv => CopyInv
  BY DEF IInv, CopyInv, OneCopies, MutualExclusion, Holding

-----------------------------------------------------------------------------
(***************************************************************************)
(* Distances in the ring.                                                  *)
(***************************************************************************)

Index == 0..(BSize - 1)

LEMMA ReadSizesPositive == \A n \in ReadSizes : n \in Nat /\ n >= 1
  BY RingAssumption

LEMMA UsedRange ==
  ASSUME NEW s \in Index, NEW e \in Index
  PROVE  /\ Used(s, e) \in 0..(BSize - 1)
         /\ Used(s, s) = 0
  BY RingSize DEF Used, Index

LEMMA UsedInjective ==
  ASSUME NEW s \in Index, NEW i \in Index, NEW j \in Index, Used(s, i) = Used(s, j)
  PROVE  i = j
  BY RingSize DEF Used, Index

(* An index that moves on by n, no further than the ring's end, and does   *)
(* not pass s.                                                             *)
LEMMA UsedAdvance ==
  ASSUME NEW s \in Index, NEW e \in Index, NEW n \in Nat,
         e + n <= BSize, Used(s, e) + n < BSize
  PROVE  /\ (e + n) % BSize \in Index
         /\ Used(s, (e + n) % BSize) = Used(s, e) + n
  <1>1. (e + n) % BSize = IF e + n = BSize THEN 0 ELSE e + n
    BY ModSmall, RingSize DEF Index
  <1>2. CASE e + n = BSize
    BY <1>1, <1>2, RingSize DEF Used, Index
  <1>3. CASE e + n # BSize
    BY <1>1, <1>3, RingSize DEF Used, Index
  <1>4. QED
    BY <1>2, <1>3

(* The same without wrapping round. *)
LEMMA UsedInside ==
  ASSUME NEW s \in Index, NEW e \in Index, NEW n \in Nat,
         e + n < BSize, Used(s, e) + n < BSize
  PROVE  e + n \in Index /\ Used(s, e + n) = Used(s, e) + n
  BY RingSize DEF Used, Index

(* Distances add up. *)
LEMMA UsedAdd ==
  ASSUME NEW s \in Index, NEW r \in Index, NEW i \in Index
  PROVE  /\ Used(s, r) + Used(r, i) < BSize => Used(s, i) = Used(s, r) + Used(r, i)
         /\ Used(s, r) <= Used(s, i) => Used(r, i) = Used(s, i) - Used(s, r)
  BY RingSize DEF Used, Index

-----------------------------------------------------------------------------
(***************************************************************************)
(* What an action leaves alone.                                            *)
(***************************************************************************)

LEMMA RingFrame ==
  ASSUME RingInv, UNCHANGED <<start, end, buf, stream, delivered>>
  PROVE  RingInv'
  BY DEF RingInv, Used

LEMMA ReaderFrame ==
  ASSUME ReaderInv, UNCHANGED <<start, end, stream, delivered, reader>>
  PROVE  ReaderInv'
  BY DEF ReaderInv, Used, reader

LEMMA WriterFrame ==
  ASSUME WriterInv, UNCHANGED <<start, end, buf, msg, left, wend, free>>,
         \A v \in Cores : pc'[v] \in {"copy", "publish"} => pc'[v] = pc[v]
  PROVE  WriterInv'
  BY DEF WriterInv, Used

-----------------------------------------------------------------------------
(***************************************************************************)
(* Every step preserves the invariant.                                     *)
(***************************************************************************)

(* What the type invariant says of the variables used below. *)
LEMMA RingTypes ==
  ASSUME TypeOK
  PROVE  /\ start \in Index /\ end \in Index /\ rstart \in Index /\ rend \in Index
         /\ rleft \in Nat
         /\ buf \in [Index -> Byte \cup {Junk}]
         /\ stream \in Seq(Byte) /\ Len(stream) \in Nat
         /\ delivered \in Seq(Byte \cup {Junk}) /\ Len(delivered) \in Nat
         /\ rdst \in Seq(Byte \cup {Junk}) /\ Len(rdst) \in Nat
         /\ \A w \in Cores : /\ msg[w] \in Nat /\ left[w] \in Nat
                             /\ wend[w] \in Index /\ free[w] \in Index
  BY DEF TypeOK, Index

LEMMA ReserveData ==
  ASSUME CopyInv, ~overread, NEW w \in Cores, Reserve(w)
  PROVE  RingInv' /\ WriterInv' /\ ReaderInv'
  <1>1. TypeOK /\ RingInv /\ WriterInv /\ ReaderInv
    BY DEF CopyInv, TypeInv, DataInv
  <1>2. /\ wend' = [wend EXCEPT ![w] = end]
        /\ free' = [free EXCEPT ![w] = Minimum(Room(start, end), left[w])]
        /\ Goto(w, "copy")
        /\ UNCHANGED <<start, end, writing, buf, msg, left, reader, stream, delivered>>
    BY DEF Reserve, mpb, history
  <1>3. start \in Index /\ end \in Index /\ left[w] \in Nat
    BY <1>1, RingTypes
  <1>4. Minimum(Room(start, end), left[w]) <= BSize - 1 - Used(start, end)
    <2>1. Room(start, end) \in Nat /\ Room(start, end) <= BSize - 1 - Used(start, end)
      BY <1>3, RoomRange, RingSize DEF Index
    <2>2. Used(start, end) \in Nat
      BY <1>3, UsedRange
    <2>3. QED
      BY <1>3, <2>1, <2>2, RingSize DEF Minimum
  <1>5. WriterInv'
    <2> SUFFICES ASSUME NEW v \in Cores
                 PROVE  /\ pc'[v] \in {"copy", "publish"} =>
                             /\ wend'[v] = end
                             /\ free'[v] <= BSize - 1 - Used(start, end)
                        /\ pc'[v] = "publish" =>
                             \A i \in 1..free'[v] :
                               buf[wend'[v] + i - 1] = <<v, msg[v], left[v] - (i - 1)>>
      BY <1>2 DEF WriterInv, Used
    <2>1. wend \in [Cores -> Index] /\ free \in [Cores -> Index]
      BY <1>1 DEF TypeOK, Index
    <2>2. CASE v = w
      BY <1>1, <1>2, <1>4, <2>1, <2>2, GotoPc, LabelsAre
    <2>3. CASE v # w
      <3>1. pc'[v] = pc[v] /\ wend'[v] = wend[v] /\ free'[v] = free[v]
        BY <1>1, <1>2, <2>1, <2>3, GotoPc, LabelsAre
      <3>2. QED
        BY <1>1, <3>1 DEF WriterInv
    <2>4. QED
      BY <2>2, <2>3
  <1>6. QED
    BY <1>1, <1>2, <1>5, RingFrame, ReaderFrame


(* What a core knows of the room it has reserved. *)
LEMMA Reservation ==
  ASSUME TypeOK, Reserved, WriterInv, NEW w \in Cores, pc[w] \in {"copy", "publish"}
  PROVE  /\ start \in Index /\ end \in Index /\ left[w] \in Nat /\ free[w] \in Nat
         /\ wend[w] = end /\ end + free[w] <= BSize
         /\ free[w] <= left[w] /\ 1 <= free[w]
         /\ free[w] <= BSize - 1 - Used(start, end)
         /\ Used(start, end) \in Nat
  <1>1. start \in Index /\ end \in Index /\ left[w] \in Nat /\ free[w] \in Index
    BY RingTypes
  <1>2. free[w] \in 1..left[w] /\ wend[w] + free[w] <= BSize
    BY DEF Reserved
  <1>3. wend[w] = end /\ free[w] <= BSize - 1 - Used(start, end)
    BY DEF WriterInv
  <1>4. Used(start, end) \in 0..(BSize - 1)
    BY <1>1, UsedRange
  <1>5. QED
    BY <1>1, <1>2, <1>3, <1>4, RingSize DEF Index

LEMMA CopyData ==
  ASSUME CopyInv, ~overread, NEW w \in Cores, Copy(w)
  PROVE  RingInv' /\ WriterInv' /\ ReaderInv'
  <1>1. TypeOK /\ Reserved /\ OneCopies /\ RingInv /\ WriterInv /\ ReaderInv
    BY DEF CopyInv, TypeInv, DataInv
  <1>2. /\ pc[w] = "copy"
        /\ buf' = [i \in Index |->
                     IF i \in wend[w]..(wend[w] + free[w] - 1)
                       THEN Chunk(w, free[w])[i - wend[w] + 1]
                       ELSE buf[i]]
        /\ Goto(w, "publish")
        /\ UNCHANGED <<start, end, msg, left, wend, free, reader, stream, delivered>>
    BY DEF Copy, Index, history
  <1>3. /\ start \in Index /\ end \in Index /\ left[w] \in Nat /\ free[w] \in Nat
        /\ wend[w] = end /\ end + free[w] <= BSize /\ free[w] <= left[w]
        /\ free[w] <= BSize - 1 - Used(start, end)
        /\ Used(start, end) \in Nat
    BY <1>1, <1>2, Reservation
  <1>4. \A k \in 0..(free[w] - 1) :
          end + k \in Index /\ Used(start, end + k) = Used(start, end) + k
    <2> SUFFICES ASSUME NEW k \in 0..(free[w] - 1)
                 PROVE  end + k \in Index /\ Used(start, end + k) = Used(start, end) + k
      OBVIOUS
    <2>1. k \in Nat /\ end + k < BSize /\ Used(start, end) + k < BSize
      BY <1>3, RingSize DEF Index
    <2>2. QED
      BY <1>3, <2>1, UsedInside
  <1>5. \A i \in Index : Used(start, i) < Used(start, end) => buf'[i] = buf[i]
    <2> SUFFICES ASSUME NEW i \in Index, Used(start, i) < Used(start, end)
                 PROVE  i \notin end..(end + free[w] - 1)
      BY <1>2, <1>3
    <2>1. Used(start, i) \in Nat
      BY <1>3, UsedRange
    <2> SUFFICES ASSUME i \in end..(end + free[w] - 1)
                 PROVE  FALSE
      OBVIOUS
    <2>2. i - end \in 0..(free[w] - 1) /\ i = end + (i - end)
      BY <1>3 DEF Index
    <2>3. Used(start, i) = Used(start, end) + (i - end)
      BY <1>4, <2>2
    <2>4. QED
      BY <1>3, <2>1, <2>2, <2>3
  <1>6. RingInv'
    BY <1>1, <1>2, <1>5 DEF RingInv, Used, Index
  <1>7. \A i \in 1..free[w] : buf'[end + i - 1] = <<w, msg[w], left[w] - (i - 1)>>
    <2> SUFFICES ASSUME NEW i \in 1..free[w]
                 PROVE  buf'[end + i - 1] = <<w, msg[w], left[w] - (i - 1)>>
      OBVIOUS
    <2>1. /\ end + i - 1 \in Index /\ end + i - 1 \in end..(end + free[w] - 1)
          /\ (end + i - 1) - end + 1 = i
      <3>1. i - 1 \in 0..(free[w] - 1) /\ end + (i - 1) = end + i - 1
        BY <1>3 DEF Index
      <3>2. QED
        BY <1>3, <1>4, <3>1 DEF Index
    <2>2. buf'[end + i - 1] = Chunk(w, free[w])[i]
      BY <1>2, <1>3, <2>1
    <2>3. QED
      BY <1>1, <1>3, <2>2, ChunkType
  <1>8. WriterInv'
    <2> SUFFICES ASSUME NEW v \in Cores
                 PROVE  /\ pc'[v] \in {"copy", "publish"} =>
                             /\ wend[v] = end
                             /\ free[v] <= BSize - 1 - Used(start, end)
                        /\ pc'[v] = "publish" =>
                             \A i \in 1..free[v] :
                               buf'[wend[v] + i - 1] = <<v, msg[v], left[v] - (i - 1)>>
      BY <1>2 DEF WriterInv, Used
    <2>1. CASE v = w
      BY <1>3, <1>7, <2>1
    <2>2. CASE v # w
      <3>1. pc'[v] = pc[v]
        BY <1>1, <1>2, <2>2, GotoPc, LabelsAre
      <3>2. pc[v] \notin {"copy", "publish"}
        BY <1>1, <1>2, <2>2 DEF OneCopies
      <3>3. QED
        BY <3>1, <3>2
    <2>3. QED
      BY <2>1, <2>2
  <1>9. QED
    BY <1>1, <1>2, <1>6, <1>8, ReaderFrame

LEMMA PublishData ==
  ASSUME CopyInv, ~overread, NEW w \in Cores, Publish(w)
  PROVE  /\ RingInv' /\ WriterInv' /\ ReaderInv'
         /\ Fifo!Put
  <1>1. TypeOK /\ Reserved /\ OneCopies /\ RingInv /\ WriterInv /\ ReaderInv
    BY DEF CopyInv, TypeInv, DataInv
  <1>2. /\ pc[w] = "publish"
        /\ end' = (wend[w] + free[w]) % BSize
        /\ stream' = stream \o Chunk(w, free[w])
        /\ Goto(w, "load")
        /\ UNCHANGED <<start, buf, msg, wend, free, reader, delivered, overread>>
    BY DEF Publish
  <1>3. /\ start \in Index /\ end \in Index /\ left[w] \in Nat /\ free[w] \in Nat
        /\ wend[w] = end /\ end + free[w] <= BSize
        /\ free[w] <= left[w] /\ 1 <= free[w]
        /\ free[w] <= BSize - 1 - Used(start, end)
        /\ Used(start, end) \in Nat
    BY <1>1, <1>2, Reservation
  <1>0. /\ stream \in Seq(Byte) /\ Len(stream) \in Nat
        /\ delivered \in Seq(Byte \cup {Junk}) /\ Len(delivered) \in Nat
        /\ Len(stream) = Len(delivered) + Used(start, end)
    BY <1>1, RingTypes DEF RingInv
  <1>4. end' \in Index /\ Used(start, end') = Used(start, end) + free[w]
    BY <1>2, <1>3, UsedAdvance, RingSize
  <1>5. /\ stream' \in Seq(Byte)
        /\ Len(stream') = Len(stream) + free[w]
        /\ \A i \in 1..Len(stream) : stream'[i] = stream[i]
        /\ \A i \in 1..free[w] : stream'[Len(stream) + i] = <<w, msg[w], left[w] - (i - 1)>>
    <2>1. /\ Chunk(w, free[w]) \in [1..free[w] -> Byte]
          /\ \A i \in 1..free[w] : Chunk(w, free[w])[i] = <<w, msg[w], left[w] - (i - 1)>>
      BY <1>1, <1>3, ChunkType
    <2> DEFINE f == Chunk(w, free[w])
    <2> HIDE DEF f
    <2>2. /\ stream \o f \in Seq(Byte)
          /\ Len(stream \o f) = Len(stream) + free[w]
          /\ \A i \in 1..Len(stream) : (stream \o f)[i] = stream[i]
          /\ \A i \in 1..free[w] : (stream \o f)[Len(stream) + i] = f[i]
      <3>1. f \in [1..free[w] -> Byte]
        BY <2>1 DEF f
      <3>2. free[w] \in Nat /\ stream \in Seq(Byte)
        BY <1>0, <1>3
      <3>3. f \in Seq(Byte) /\ Len(f) = free[w]
        BY ONLY <3>1, <3>2
      <3>4. QED
        BY ONLY <3>1, <3>2, <3>3
    <2>3. stream' = stream \o f /\ \A i \in 1..free[w] : f[i] = <<w, msg[w], left[w] - (i - 1)>>
      BY <1>2, <2>1 DEF f
    <2>4. QED
      BY <2>2, <2>3
  <1>6. RingInv'
    <2>1. Len(stream') = Len(delivered') + Used(start', end')
      BY <1>0, <1>2, <1>3, <1>4, <1>5
    <2>2. \A i \in 1..Len(delivered') : delivered'[i] = stream'[i]
      BY <1>0, <1>1, <1>2, <1>3, <1>5 DEF RingInv
    <2>3. ASSUME NEW i \in Index, Used(start, i) < Used(start, end')
          PROVE  buf[i] = stream'[Len(delivered) + Used(start, i) + 1]
      <3>1. Used(start, i) \in Nat
        BY <1>3, UsedRange
      <3>2. CASE Used(start, i) < Used(start, end)
        <4>1. buf[i] = stream[Len(delivered) + Used(start, i) + 1]
          BY <1>1, <3>2 DEF RingInv, Index
        <4>2. Len(delivered) + Used(start, i) + 1 \in 1..Len(stream)
          BY <1>0, <1>3, <3>1, <3>2
        <4>3. QED
          BY <1>5, <4>1, <4>2
      <3>3. CASE ~(Used(start, i) < Used(start, end))
        <4> DEFINE k == Used(start, i) - Used(start, end)
        <4>1. k \in 0..(free[w] - 1)
          <5>1. Used(start, i) < Used(start, end) + free[w]
            BY <1>4, <2>3
          <5>2. QED
            BY <1>3, <3>1, <3>3, <5>1
        <4>2. Used(start, end + k) = Used(start, end) + k /\ end + k \in Index
          BY <1>3, <4>1, UsedInside, RingSize DEF Index
        <4>3. i = end + k
          BY <1>3, <3>1, <4>2, UsedInjective
        <4>4. buf[i] = <<w, msg[w], left[w] - ((k + 1) - 1)>>
          <5>1. k + 1 \in 1..free[w] /\ end + (k + 1) - 1 = end + k
            BY <1>3, <4>1 DEF Index
          <5>2. buf[end + (k + 1) - 1] = <<w, msg[w], left[w] - ((k + 1) - 1)>>
            BY <1>1, <1>2, <1>3, <5>1 DEF WriterInv
          <5>3. QED
            BY <4>3, <5>1, <5>2
        <4>5. Len(delivered) + Used(start, i) + 1 = Len(stream) + (k + 1)
          BY <1>0, <1>3, <3>1
        <4> HIDE DEF k
        <4>6. stream'[Len(stream) + (k + 1)] = <<w, msg[w], left[w] - ((k + 1) - 1)>>
          <5>1. k + 1 \in 1..free[w]
            BY <1>3, <4>1
          <5>2. QED
            BY <1>5, <5>1
        <4>7. QED
          BY <4>4, <4>5, <4>6
      <3>4. QED
        BY <3>2, <3>3
    <2>4. QED
      BY <1>2, <2>1, <2>2, <2>3 DEF RingInv, Index, Used
  <1>7. WriterInv'
    <2>1. \A v \in Cores : pc'[v] \notin {"copy", "publish"}
      BY <1>1, <1>2, GotoPc, LabelsAre DEF OneCopies
    <2>2. QED
      BY <2>1 DEF WriterInv
  <1>8. ReaderInv'
    <2> SUFFICES ASSUME rpc = "copy"
                 PROVE  /\ Len(rdst) + rleft \in 1..Used(start, end')
                        /\ Used(start, rstart) = Len(rdst)
                        /\ rleft <= Used(rstart, rend)
                        /\ \A i \in 1..Len(rdst) : rdst[i] = stream'[Len(delivered) + i]
      BY <1>2 DEF ReaderInv, Used, reader
    <2>1. /\ Len(rdst) + rleft \in 1..Used(start, end)
          /\ Used(start, rstart) = Len(rdst)
          /\ rleft <= Used(rstart, rend)
          /\ \A i \in 1..Len(rdst) : rdst[i] = stream[Len(delivered) + i]
          /\ rleft \in Nat /\ Len(rdst) \in Nat
      BY <1>1, RingTypes DEF ReaderInv
    <2>2. \A i \in 1..Len(rdst) : Len(delivered) + i \in 1..Len(stream)
      BY <1>0, <1>3, <2>1
    <2>3. Len(rdst) + rleft \in 1..Used(start, end')
      BY <1>3, <1>4, <2>1
    <2>4. QED
      BY <1>5, <2>1, <2>2, <2>3
  <1>9. Fifo!Put
    <2>1. Len(stream') - Len(delivered) <= BSize - 1
      <3>1. Len(stream') = Len(stream) + free[w]
        BY <1>5
      <3>2. QED
        BY ONLY <1>0, <1>3, <3>1, RingSize
    <2>2. Len(stream) < Len(stream') /\ Fifo!IsPrefixOf(stream, stream')
      BY <1>0, <1>3, <1>5 DEF Fifo!IsPrefixOf
    <2>3. QED
      BY <1>2, <1>5, <2>1, <2>2 DEF Fifo!Put
  <1>10. QED
    BY <1>6, <1>7, <1>8, <1>9

LEMMA ReadCallData ==
  ASSUME CopyInv, ~overread', NEW n \in ReadSizes, ReadCall(n)
  PROVE  RingInv' /\ WriterInv' /\ ReaderInv'
  <1>1. ~overread /\ n \in 1..Used(start, end)
    <2>1. overread' = (overread \/ n > Used(start, end))
      BY DEF ReadCall
    <2>2. overread \in BOOLEAN /\ start \in Index /\ end \in Index
      BY RingTypes DEF CopyInv, TypeInv, TypeOK
    <2>3. n \in Nat /\ n >= 1 /\ Used(start, end) \in 0..(BSize - 1)
      BY <2>2, ReadSizesPositive, UsedRange
    <2>4. ~overread /\ ~(n > Used(start, end))
      BY <2>1, <2>2
    <2>5. QED
      BY <2>3, <2>4, RingSize
  <1>2. TypeOK /\ RingInv /\ WriterInv
    BY <1>1 DEF CopyInv, TypeInv, DataInv
  <1>3. /\ rstart' = start /\ rend' = end /\ rleft' = n /\ rdst' = << >>
        /\ UNCHANGED <<start, end, buf, pc, msg, left, wend, free, stream, delivered>>
    BY DEF ReadCall, mpb, writers
  <1>4. ReaderInv'
    <2>1. Used(start, start) = 0 /\ Len(<< >>) = 0
      BY <1>2, RingTypes, UsedRange
    <2>2. n \in Nat /\ Used(start, end) \in Nat
      BY <1>1, <1>2, RingTypes, UsedRange, RingSize
    <2>3. QED
      BY <1>1, <1>3, <2>1, <2>2 DEF ReaderInv, Used
  <1>5. QED
    BY <1>2, <1>3, <1>4, RingFrame, WriterFrame

LEMMA ReadChunkData ==
  ASSUME CopyInv, ~overread, ReadChunk
  PROVE  RingInv' /\ WriterInv' /\ ReaderInv'
  <1> DEFINE cpy == Run(rstart, rend, rleft)
             run == [i \in 1..cpy |-> Cell(rstart + (i - 1))]
  <1>1. TypeOK /\ RingInv /\ WriterInv /\ ReaderInv
    BY DEF CopyInv, TypeInv, DataInv
  <1>2. /\ rpc = "copy" /\ rleft > 0
        /\ rdst' = rdst \o run
        /\ rstart' = (rstart + cpy) % BSize
        /\ rleft' = rleft - cpy
        /\ UNCHANGED <<start, end, buf, pc, msg, left, wend, free, rpc, rend, stream, delivered>>
    BY DEF ReadChunk, mpb, writers, history
  <1>3. /\ start \in Index /\ end \in Index /\ rstart \in Index /\ rend \in Index
        /\ rleft \in Nat /\ Len(rdst) \in Nat
        /\ rdst \in Seq(Byte \cup {Junk})
        /\ buf \in [Index -> Byte \cup {Junk}]
    BY <1>1, RingTypes
  <1>4. /\ Len(rdst) + rleft \in 1..Used(start, end)
        /\ Used(start, rstart) = Len(rdst)
        /\ rleft <= Used(rstart, rend)
        /\ \A i \in 1..Len(rdst) : rdst[i] = stream[Len(delivered) + i]
    BY <1>1, <1>2 DEF ReaderInv
  <1>5. Used(start, end) \in 0..(BSize - 1)
    BY <1>3, UsedRange
  <1>6. cpy \in 0..rleft /\ rstart + cpy <= BSize
    BY <1>3, <1>4, RingSize DEF Run, Minimum, Used, Index
  <1>7. /\ rleft' <= Used(rstart', rend)
    <2>1. CASE rstart + cpy = BSize
      <3>1. rstart' = 0
        BY <1>2, <1>3, <1>6, <2>1, ModSmall, RingSize
      <3>2. Used(0, rend) = rend
        BY <1>3, RingSize DEF Used, Index
      <3>3. CASE rend < rstart
        <4>1. Used(rstart, rend) = rend + BSize - rstart
          BY <1>3, <3>3, RingSize DEF Used, Index
        <4> HIDE DEF cpy
        <4>2. rleft' <= rend
          BY ONLY <1>2, <1>3, <1>4, <1>6, <2>1, <4>1, RingSize DEF Index
        <4>3. QED
          BY <1>2, <3>1, <3>2, <4>2
      <3>4. CASE ~(rend < rstart)
        <4>1. cpy = rleft
          BY <3>4 DEF Run
        <4>2. QED
          BY <1>2, <1>3, <3>1, <3>2, <4>1, RingSize DEF Index
      <3>5. QED
        BY <3>3, <3>4
    <2>2. CASE rstart + cpy # BSize
      <3>1. rstart + cpy < BSize
        BY <1>3, <1>6, <2>2, RingSize DEF Index
      <3>2. cpy = rleft
        <4>1. CASE rend < rstart
          <5>1. cpy = Minimum(rleft, BSize - rstart)
            BY <4>1 DEF Run
          <5>2. cpy # BSize - rstart
            BY <1>3, <1>6, <2>2, RingSize DEF Index
          <5>3. QED
            BY <5>1, <5>2 DEF Minimum
        <4>2. CASE ~(rend < rstart)
          BY <4>2 DEF Run
        <4>3. QED
          BY <4>1, <4>2
      <3>3. rstart' \in Index
        <4>1. rstart + cpy \in Nat
          BY <1>3, <1>6, RingSize DEF Index
        <4> HIDE DEF cpy
        <4>2. QED
          BY <1>2, <4>1, ModRange DEF Index
      <3>4. Used(rstart', rend) \in 0..(BSize - 1)
        BY <1>3, <3>3, UsedRange
      <3>5. QED
        BY <1>2, <1>3, <3>2, <3>4
    <2>3. QED
      BY <2>1, <2>2
  <1>8. Used(start, rstart') = Len(rdst) + cpy
    <2>1. Used(start, rstart) + cpy < BSize
      BY <1>3, <1>4, <1>5, <1>6, RingSize
    <2> HIDE DEF cpy
    <2>2. Used(start, (rstart + cpy) % BSize) = Used(start, rstart) + cpy
      BY <1>3, <1>6, <2>1, UsedAdvance
    <2>3. QED
      BY <1>2, <1>4, <2>2
  <1>9. ASSUME NEW i \in 1..cpy
        PROVE  /\ run[i] = stream[Len(delivered) + (Len(rdst) + i)]
               /\ run[i] \in Byte \cup {Junk}
    <2>1. i - 1 \in Nat /\ rstart + (i - 1) < BSize
      BY <1>3, <1>6, RingSize DEF Index
    <2>2. Used(start, rstart) + (i - 1) < Used(start, end)
      BY <1>3, <1>4, <1>5, <1>6
    <2>3. /\ rstart + (i - 1) \in Index
          /\ Used(start, rstart + (i - 1)) = Len(rdst) + (i - 1)
      <3>1. Used(start, rstart) + (i - 1) < BSize
        BY <1>3, <1>4, <1>5, <2>1, <2>2, RingSize
      <3>2. /\ rstart + (i - 1) \in Index
            /\ Used(start, rstart + (i - 1)) = Used(start, rstart) + (i - 1)
        BY <1>3, <2>1, <3>1, UsedInside
      <3>3. QED
        BY <1>4, <3>2
    <2>4. run[i] = buf[rstart + (i - 1)]
      BY <2>1 DEF Cell
    <2>5. /\ buf[rstart + (i - 1)] =
               stream[Len(delivered) + Used(start, rstart + (i - 1)) + 1]
          /\ Len(delivered) \in Nat
      <3>1. Used(start, rstart + (i - 1)) < Used(start, end)
        BY <1>4, <2>2, <2>3
      <3>2. \A j \in Index : Used(start, j) < Used(start, end) =>
                buf[j] = stream[Len(delivered) + Used(start, j) + 1]
        BY <1>1 DEF RingInv, Index
      <3>3. Len(delivered) \in Nat
        BY <1>1, RingTypes
      <3>4. QED
        BY ONLY <2>3, <3>1, <3>2, <3>3
    <2>6. Len(delivered) + (Len(rdst) + (i - 1)) + 1 = Len(delivered) + (Len(rdst) + i)
      <3>1. Len(delivered) \in Nat /\ Len(rdst) \in Nat /\ i \in Nat
        BY <1>3, <1>6, <2>5
      <3>2. QED
        BY ONLY <3>1
    <2>7. run[i] = stream[Len(delivered) + (Len(rdst) + i)]
      <3>1. Len(delivered) + Used(start, rstart + (i - 1)) + 1 = Len(delivered) + (Len(rdst) + i)
        BY <2>3, <2>6
      <3>2. QED
        BY <2>4, <2>5, <3>1
    <2>8. run[i] \in Byte \cup {Junk}
      BY <1>3, <2>3, <2>4
    <2>9. QED
      BY <2>7, <2>8
  <1> HIDE DEF run
  <1>10. /\ Len(rdst') = Len(rdst) + cpy
         /\ \A i \in 1..Len(rdst) : rdst'[i] = rdst[i]
         /\ \A i \in 1..cpy : rdst'[Len(rdst) + i] = run[i]
    <2>1. cpy \in Nat /\ run \in [1..cpy -> Byte \cup {Junk}]
      BY <1>6, <1>9 DEF run
    <2>2. rdst' = rdst \o run /\ rdst \in Seq(Byte \cup {Junk})
      BY <1>2, <1>3
    <2> HIDE DEF cpy
    <2> DEFINE Cells == Byte \cup {Junk}
    <2>3. run \in [1..cpy -> Cells] /\ rdst \in Seq(Cells)
      BY <2>1, <2>2
    <2> HIDE DEF Cells
    <2>4. run \in Seq(Cells) /\ Len(run) = cpy
      BY ONLY <2>1, <2>3
    <2>5. /\ Len(rdst \o run) = Len(rdst) + cpy
          /\ \A i \in 1..Len(rdst) : (rdst \o run)[i] = rdst[i]
          /\ \A i \in 1..cpy : (rdst \o run)[Len(rdst) + i] = run[i]
      BY ONLY <2>1, <2>3, <2>4
    <2>6. QED
      BY ONLY <2>2, <2>5
  <1> HIDE DEF cpy
  <1>11. \A i \in 1..(Len(rdst) + cpy) : rdst'[i] = stream[Len(delivered) + i]
    <2> SUFFICES ASSUME NEW i \in 1..(Len(rdst) + cpy)
                 PROVE  rdst'[i] = stream[Len(delivered) + i]
      OBVIOUS
    <2>1. CASE i <= Len(rdst)
      BY <1>3, <1>4, <1>6, <1>10, <2>1
    <2>2. CASE i > Len(rdst)
      <3>1. i - Len(rdst) \in 1..cpy /\ i = Len(rdst) + (i - Len(rdst))
        BY <1>3, <1>6, <2>2
      <3>2. QED
        BY <1>9, <1>10, <3>1
    <2>3. QED
      BY <1>3, <1>6, <2>1, <2>2
  <1>12. ReaderInv'
    <2>1. Len(rdst') + rleft' \in 1..Used(start, end)
      BY <1>2, <1>3, <1>4, <1>6, <1>10
    <2>2. QED
      BY <1>2, <1>7, <1>8, <1>10, <1>11, <2>1 DEF ReaderInv, Used
  <1>13. QED
    BY <1>1, <1>2, <1>12, RingFrame, WriterFrame

LEMMA ReadReturnData ==
  ASSUME CopyInv, ~overread, ReadReturn
  PROVE  /\ RingInv' /\ WriterInv' /\ ReaderInv'
         /\ Fifo!Take
  <1>1. TypeOK /\ RingInv /\ WriterInv /\ ReaderInv
    BY DEF CopyInv, TypeInv, DataInv
  <1>2. /\ rpc = "copy" /\ rleft = 0 /\ rpc' = "idle"
        /\ start' = rstart /\ delivered' = delivered \o rdst
        /\ UNCHANGED <<end, buf, pc, msg, left, wend, free, stream, overread>>
    BY DEF ReadReturn, writers
  <1>3. /\ start \in Index /\ end \in Index /\ rstart \in Index
        /\ Len(rdst) \in Nat /\ rdst \in Seq(Byte \cup {Junk})
        /\ Len(delivered) \in Nat /\ delivered \in Seq(Byte \cup {Junk})
        /\ Len(stream) \in Nat
    BY <1>1, RingTypes
  <1>4. /\ Len(rdst) \in 1..Used(start, end)
        /\ Used(start, rstart) = Len(rdst)
        /\ \A i \in 1..Len(rdst) : rdst[i] = stream[Len(delivered) + i]
    BY <1>1, <1>2, <1>3 DEF ReaderInv
  <1>5. Used(start, end) \in 0..(BSize - 1) /\ Len(stream) = Len(delivered) + Used(start, end)
    BY <1>1, <1>3, UsedRange DEF RingInv
  <1>6. Used(rstart, end) = Used(start, end) - Len(rdst)
    BY <1>3, <1>4, <1>5, UsedAdd
  <1>7. /\ Len(delivered') = Len(delivered) + Len(rdst)
        /\ \A i \in 1..Len(delivered) : delivered'[i] = delivered[i]
        /\ \A i \in 1..Len(rdst) : delivered'[Len(delivered) + i] = rdst[i]
    BY <1>2, <1>3
  <1>8. \A i \in 1..(Len(delivered) + Len(rdst)) : delivered'[i] = stream[i]
    <2> SUFFICES ASSUME NEW i \in 1..(Len(delivered) + Len(rdst))
                 PROVE  delivered'[i] = stream[i]
      OBVIOUS
    <2>1. CASE i <= Len(delivered)
      <3>1. i \in 1..Len(delivered)
        BY <1>3, <2>1
      <3>2. delivered[i] = stream[i]
        BY <1>1, <3>1 DEF RingInv
      <3>3. QED
        BY <1>7, <3>1, <3>2
    <2>2. CASE i > Len(delivered)
      <3>1. i - Len(delivered) \in 1..Len(rdst) /\ i = Len(delivered) + (i - Len(delivered))
        BY <1>3, <2>2
      <3>2. QED
        BY <1>4, <1>7, <3>1
    <2>3. QED
      BY <1>3, <2>1, <2>2
  <1>9. RingInv'
    <2>1. Len(stream) = Len(delivered') + Used(rstart, end)
      BY <1>3, <1>4, <1>5, <1>6, <1>7
    <2>2. ASSUME NEW i \in Index, Used(rstart, i) < Used(rstart, end)
          PROVE  buf[i] = stream[Len(delivered') + Used(rstart, i) + 1]
      <3>1. Used(rstart, i) \in Nat
        BY <1>3, UsedRange
      <3>2. Used(start, i) = Len(rdst) + Used(rstart, i) /\ Used(start, i) < Used(start, end)
        <4>1. Used(start, rstart) + Used(rstart, i) < BSize
          BY <1>3, <1>4, <1>5, <1>6, <2>2, <3>1, RingSize
        <4>2. Used(start, i) = Used(start, rstart) + Used(rstart, i)
          BY <1>3, <4>1, UsedAdd
        <4>3. QED
          BY <1>3, <1>4, <1>5, <1>6, <2>2, <3>1, <4>2
      <3>3. buf[i] = stream[Len(delivered) + Used(start, i) + 1]
        BY <1>1, <3>2 DEF RingInv, Index
      <3>4. Len(delivered) + Used(start, i) + 1 = Len(delivered') + Used(rstart, i) + 1
        BY <1>3, <1>7, <3>1, <3>2
      <3>5. QED
        BY <3>3, <3>4
    <2>3. QED
      BY <1>2, <1>7, <1>8, <2>1, <2>2 DEF RingInv, Used, Index
  <1>10. WriterInv'
    <2> SUFFICES ASSUME NEW v \in Cores
                 PROVE  /\ pc[v] \in {"copy", "publish"} =>
                             /\ wend[v] = end
                             /\ free[v] <= BSize - 1 - Used(rstart, end)
                        /\ pc[v] = "publish" =>
                             \A i \in 1..free[v] :
                               buf[wend[v] + i - 1] = <<v, msg[v], left[v] - (i - 1)>>
      BY <1>2 DEF WriterInv, Used
    <2>1. free[v] \in Nat
      BY <1>1, RingTypes, RingSize DEF Index
    <2>2. pc[v] \in {"copy", "publish"} => free[v] <= BSize - 1 - Used(rstart, end)
      <3> SUFFICES ASSUME pc[v] \in {"copy", "publish"}
                   PROVE  free[v] <= BSize - 1 - Used(rstart, end)
        OBVIOUS
      <3>1. free[v] <= BSize - 1 - Used(start, end)
        BY <1>1 DEF WriterInv
      <3>2. QED
        BY <1>3, <1>4, <1>5, <1>6, <2>1, <3>1, RingSize
    <2>3. QED
      BY <1>1, <2>2 DEF WriterInv
  <1>11. ReaderInv'
    BY <1>2 DEF ReaderInv
  <1>12. Fifo!Take
    <2>1. Fifo!IsPrefixOf(delivered, delivered')
      BY <1>3, <1>7 DEF Fifo!IsPrefixOf
    <2>2. Fifo!IsPrefixOf(delivered', stream)
      BY <1>3, <1>4, <1>5, <1>7, <1>8 DEF Fifo!IsPrefixOf
    <2>3. Len(delivered) < Len(delivered')
      BY <1>3, <1>4, <1>7
    <2>4. QED
      BY <1>2, <2>1, <2>2, <2>3 DEF Fifo!Take
  <1>13. QED
    BY <1>9, <1>10, <1>11, <1>12

(* Every other action moves cores between labels, and no byte. *)
LEMMA QuietData ==
  ASSUME CopyInv, ~overread,
         UNCHANGED <<start, end, buf, reader, stream, delivered, overread>>,
         \/ \E w \in Cores, n \in Sizes : Send(w, n)
         \/ \E w \in Cores : \/ Acquire(w) \/ Relock(w) \/ BackOff(w) \/ Admit(w)
                             \/ Exit(w) \/ Raise(w) \/ Wait(w) \/ Stop(w)
         \/ UNCHANGED vars
  PROVE  /\ RingInv' /\ WriterInv' /\ ReaderInv'
  <1>1. TypeOK /\ RingInv /\ WriterInv /\ ReaderInv
    BY DEF CopyInv, TypeInv, DataInv
  <1>2. WriterInv'
    <2>1. CASE UNCHANGED vars
      BY <1>1, <2>1, WriterFrame DEF vars, writers
    <2>2. ASSUME NEW w \in Cores,
                 \/ Acquire(w) \/ Relock(w) \/ BackOff(w) \/ Admit(w)
                 \/ Exit(w) \/ Raise(w) \/ Wait(w) \/ Stop(w)
          PROVE  WriterInv'
      <3>1. /\ \E l \in {"idle", "lock", "test", "enter", "load", "relock", "exited"} : Goto(w, l)
            /\ UNCHANGED <<msg, left, wend, free>>
        BY <2>2 DEF Acquire, Relock, BackOff, Admit, Exit, Raise, Wait, Stop
      <3>2. \A v \in Cores : pc'[v] \in {"copy", "publish"} => pc'[v] = pc[v]
        BY <1>1, <3>1, GotoPc, LabelsAre
      <3>3. QED
        BY <1>1, <3>1, <3>2, WriterFrame
    <2>3. ASSUME NEW w \in Cores, NEW n \in Sizes, Send(w, n)
          PROVE  WriterInv'
      <3>1. /\ pc[w] = "idle" /\ Goto(w, "lock")
            /\ msg' = [msg EXCEPT ![w] = @ + 1] /\ left' = [left EXCEPT ![w] = n]
            /\ UNCHANGED <<wend, free>>
        BY <2>3 DEF Send
      <3>2. /\ pc'[w] = "lock"
            /\ \A v \in Cores : v # w => pc'[v] = pc[v] /\ msg'[v] = msg[v] /\ left'[v] = left[v]
        BY <1>1, <3>1, GotoPc, LabelsAre DEF TypeOK
      <3>3. QED
        BY <1>1, <3>1, <3>2 DEF WriterInv, Used
    <2>4. QED
      BY <2>1, <2>2, <2>3
  <1>3. QED
    BY <1>1, <1>2, RingFrame, ReaderFrame

LEMMA DataInit == Init => DataInv
  <1> SUFFICES ASSUME Init
               PROVE  DataInv
    OBVIOUS
  <1>1. start = 0 /\ end = 0 /\ Used(0, 0) = 0
    BY RingSize DEF Init, Used
  <1>2. Len(stream) = 0 /\ Len(delivered) = 0
    BY DEF Init
  <1>3. \A i \in 0..(BSize - 1) : ~(Used(0, i) < 0)
    BY RingSize DEF Used
  <1>4. RingInv
    BY <1>1, <1>2, <1>3 DEF RingInv
  <1>5. WriterInv /\ ReaderInv
    BY DEF Init, WriterInv, ReaderInv
  <1>6. QED
    BY <1>4, <1>5 DEF DataInv

(* One step from a state that satisfies the invariant: it still does, and  *)
(* what the step did is a step of the FIFO or none.                        *)
LEMMA DataStep ==
  ASSUME CopyInv, [Next]_vars
  PROVE  DataInv' /\ [Fifo!Next]_(Fifo!vars)
  <1>0. overread \in BOOLEAN /\ overread' \in BOOLEAN
    BY TypeStep DEF CopyInv, TypeInv, TypeOK
  <1>1. CASE overread'
    BY <1>1 DEF DataInv, Fifo!Next, Fifo!Broken
  <1>2. CASE ~overread'
    <2>1. ~overread
      BY <1>2 DEF Next, Locking, Writing, Reading, Finished, Send, Acquire, BackOff, Admit,
                  Exit, Raise, Reserve, Wait, Relock, Copy, Publish, Stop,
                  ReadCall, ReadChunk, ReadReturn, vars, history
    <2>2. ASSUME NEW w \in Cores, Publish(w)
          PROVE  DataInv' /\ [Fifo!Next]_(Fifo!vars)
      BY <2>1, <2>2, PublishData DEF DataInv, Fifo!Next
    <2>3. CASE ReadReturn
      BY <2>1, <2>3, ReadReturnData DEF DataInv, Fifo!Next
    <2>4. ASSUME UNCHANGED <<stream, delivered, overread>>, RingInv' /\ WriterInv' /\ ReaderInv'
          PROVE  DataInv' /\ [Fifo!Next]_(Fifo!vars)
      BY <2>4 DEF DataInv, Fifo!vars
    <2>5. ASSUME NEW w \in Cores, Reserve(w)
          PROVE  DataInv' /\ [Fifo!Next]_(Fifo!vars)
      BY <2>1, <2>4, <2>5, ReserveData DEF Reserve, history
    <2>6. ASSUME NEW w \in Cores, Copy(w)
          PROVE  DataInv' /\ [Fifo!Next]_(Fifo!vars)
      <3>1. UNCHANGED <<stream, delivered, overread>>
        BY <2>6 DEF Copy, history
      <3>2. RingInv' /\ WriterInv' /\ ReaderInv'
        BY <2>1, <2>6, CopyData
      <3>3. QED
        BY <2>4, <3>1, <3>2
    <2>7. ASSUME NEW n \in ReadSizes, ReadCall(n)
          PROVE  DataInv' /\ [Fifo!Next]_(Fifo!vars)
      <3>1. UNCHANGED <<stream, delivered>> /\ overread' = overread
        BY <1>2, <2>1, <2>7, <1>0 DEF ReadCall
      <3>2. RingInv' /\ WriterInv' /\ ReaderInv'
        BY <1>2, <2>7, ReadCallData
      <3>3. QED
        BY <2>4, <3>1, <3>2
    <2>8. CASE ReadChunk
      BY <2>1, <2>4, <2>8, ReadChunkData DEF ReadChunk, history
    <2>9. ASSUME \/ \E w \in Cores, n \in Sizes : Send(w, n)
                 \/ \E w \in Cores : \/ Acquire(w) \/ Relock(w) \/ BackOff(w) \/ Admit(w)
                                     \/ Exit(w) \/ Raise(w) \/ Wait(w) \/ Stop(w)
                 \/ UNCHANGED vars
          PROVE  DataInv' /\ [Fifo!Next]_(Fifo!vars)
      <3>1. UNCHANGED <<start, end, buf, reader, stream, delivered, overread>>
        BY <2>9 DEF Send, Acquire, Relock, BackOff, Admit, Exit, Raise, Wait, Stop, vars, mpb, history
      <3>2. RingInv' /\ WriterInv' /\ ReaderInv'
        BY <2>1, <2>9, <3>1, QuietData
      <3>3. QED
        BY <2>4, <3>1, <3>2
    <2>10. QED
      BY <2>2, <2>3, <2>5, <2>6, <2>7, <2>8, <2>9
         DEF Next, Locking, Writing, Reading, Finished
  <1>3. QED
    BY <1>1, <1>2

LEMMA IInvInit == Init => IInv
  BY TypeInit, DataInit DEF IInv, Init, MutualExclusion, Holding

LEMMA IInvStep == IInv /\ [Next]_vars => IInv'
  BY TypeStep, LockStep, LockedCopies, DataStep DEF IInv, TypeInv

THEOREM Inductive == Spec => []IInv
  BY IInvInit, IInvStep, PTL DEF Spec

-----------------------------------------------------------------------------
(***************************************************************************)
(* What the invariant implies.                                             *)
(***************************************************************************)

LEMMA CopiesApart ==
  ASSUME CopyInv
  PROVE  WindowsDisjoint
  <1> SUFFICES ASSUME ~overread
               PROVE  /\ ReaderWindow \subseteq Unread
                      /\ \A w \in Cores :
                           /\ WriterWindow(w) \subseteq 0..(BSize - 1)
                           /\ WriterWindow(w) \cap Unread = {}
                           /\ \A v \in Cores \ {w} : WriterWindow(v) \cap WriterWindow(w) = {}
    BY DEF WindowsDisjoint
  <1>1. TypeOK /\ Reserved /\ OneCopies /\ WriterInv /\ ReaderInv
    BY DEF CopyInv, TypeInv, DataInv
  <1>2. start \in Index /\ end \in Index
    BY <1>1, RingTypes
  <1>3. ReaderWindow \subseteq Unread
    <2>1. rpc = "copy" => Len(rdst) + rleft <= Used(start, end)
      BY <1>1, <1>2, UsedRange, RingSize DEF ReaderInv
    <2>2. rpc = "copy" => Len(rdst) + rleft \in Nat
      BY <1>1, RingTypes
    <2>3. \A i \in Index : Used(start, i) \in Nat
      BY <1>2, UsedRange
    <2>4. Used(start, end) \in Nat
      BY <1>2, UsedRange
    <2>5. QED
      BY <2>1, <2>2, <2>3, <2>4 DEF ReaderWindow, Unread, Index
  <1>4. ASSUME NEW w \in Cores
        PROVE  /\ WriterWindow(w) \subseteq 0..(BSize - 1)
               /\ WriterWindow(w) \cap Unread = {}
    <2>1. CASE pc[w] \notin {"copy", "publish"}
      BY <2>1 DEF WriterWindow
    <2>2. CASE pc[w] \in {"copy", "publish"}
      <3>1. /\ wend[w] = end /\ end + free[w] <= BSize /\ free[w] \in Nat
            /\ free[w] <= BSize - 1 - Used(start, end) /\ Used(start, end) \in Nat
        BY <1>1, <2>2, Reservation
      <3>2. WriterWindow(w) = end..(end + free[w] - 1)
        BY <2>2, <3>1 DEF WriterWindow
      <3>3. ASSUME NEW i \in WriterWindow(w)
            PROVE  i \in 0..(BSize - 1) /\ ~(Used(start, i) < Used(start, end))
        <4>1. i - end \in Nat /\ i - end < free[w] /\ end + (i - end) = i
          BY <1>2, <3>1, <3>2 DEF Index
        <4>2. end + (i - end) < BSize /\ Used(start, end) + (i - end) < BSize
          BY <1>2, <3>1, <4>1, RingSize DEF Index
        <4>3. i \in Index /\ Used(start, i) = Used(start, end) + (i - end)
          <5>1. end + (i - end) \in Index /\ Used(start, end + (i - end)) = Used(start, end) + (i - end)
            BY <1>2, <4>1, <4>2, UsedInside
          <5>2. QED
            BY <4>1, <5>1
        <4>4. QED
          BY <3>1, <4>1, <4>3 DEF Index
      <3>4. QED
        BY <3>3 DEF Unread
    <2>3. QED
      BY <2>1, <2>2
  <1>5. ASSUME NEW w \in Cores, NEW v \in Cores \ {w}
        PROVE  WriterWindow(v) \cap WriterWindow(w) = {}
    BY <1>1 DEF OneCopies, WriterWindow
  <1>6. QED
    BY <1>3, <1>4, <1>5

(* The bytes that a read copies next are within the ring, and no writer    *)
(* is near them.                                                           *)
LEMMA ReadApart ==
  IInv /\ ~overread /\ rpc = "copy" =>
    /\ Run(rstart, rend, rleft) \in Nat
    /\ \A i \in 1..Run(rstart, rend, rleft) :
         /\ rstart + (i - 1) \in 0..(BSize - 1)
         /\ \A w \in Cores : rstart + (i - 1) \notin WriterWindow(w)
  <1> DEFINE cpy == Run(rstart, rend, rleft)
  <1> SUFFICES ASSUME IInv, ~overread, rpc = "copy"
               PROVE  cpy \in Nat /\ \A i \in 1..cpy :
                        /\ rstart + (i - 1) \in Index
                        /\ \A w \in Cores : rstart + (i - 1) \notin WriterWindow(w)
    BY DEF Index
  <1>1. TypeOK /\ ReaderInv /\ WindowsDisjoint
    BY LockedCopies, CopiesApart DEF IInv, TypeInv, DataInv
  <1>2. /\ start \in Index /\ end \in Index /\ rstart \in Index /\ rend \in Index
        /\ rleft \in Nat /\ Len(rdst) \in Nat
    BY <1>1, RingTypes
  <1>3. /\ Len(rdst) + rleft \in 1..Used(start, end)
        /\ Used(start, rstart) = Len(rdst)
        /\ rleft <= Used(rstart, rend)
    BY <1>1 DEF ReaderInv
  <1>4. Used(start, end) \in 0..(BSize - 1)
    BY <1>2, UsedRange
  <1>5. cpy \in 0..rleft /\ rstart + cpy <= BSize
    BY <1>2, <1>3, RingSize DEF Run, Minimum, Used, Index
  <1> HIDE DEF cpy
  <1>6. ASSUME NEW i \in 1..cpy
        PROVE  rstart + (i - 1) \in Unread
    <2>1. /\ i - 1 \in Nat /\ rstart + (i - 1) < BSize
          /\ Used(start, rstart) + (i - 1) < Used(start, end)
          /\ Used(start, rstart) + (i - 1) < BSize
      BY <1>2, <1>3, <1>4, <1>5, RingSize DEF Index
    <2>2. /\ rstart + (i - 1) \in Index
          /\ Used(start, rstart + (i - 1)) = Used(start, rstart) + (i - 1)
      BY <1>2, <2>1, UsedInside
    <2>3. QED
      BY <2>1, <2>2 DEF Unread, Index
  <1>7. Unread \subseteq Index /\ \A w \in Cores : WriterWindow(w) \cap Unread = {}
    BY <1>1 DEF WindowsDisjoint, Unread, Index
  <1>8. QED
    BY <1>5, <1>6, <1>7

(* No memcpy into the ring touches a byte that the reader, who takes no    *)
(* lock, is reading or has still to read, nor a byte of another writer.    *)
THEOREM NoRacingCopies == Spec => []WindowsDisjoint
  <1>1. IInv => WindowsDisjoint
    BY LockedCopies, CopiesApart
  <1>2. QED
    BY Inductive, <1>1, PTL

(* The ring of scc.h, written a chunk at a time under a lock that is given *)
(* up on the way and read without any, implements the bounded FIFO of      *)
(* bytes: nothing is lost, repeated, reordered or overwritten.             *)
THEOREM RingIsFifo == Spec => FifoSpec
  <1>1. Init => Fifo!Init
    BY DEF Init, Fifo!Init
  <1>2. IInv /\ [Next]_vars => [Fifo!Next]_(Fifo!vars)
    BY LockedCopies, DataStep
  <1>3. QED
    BY Inductive, <1>1, <1>2, PTL DEF Spec, FifoSpec, Fifo!Spec

-----------------------------------------------------------------------------
(***************************************************************************)
(* Between messages.                                                       *)
(***************************************************************************)

(* What every invariant here rests on. *)
Base == TypeInv /\ MutualExclusion

LEMMA BaseInit == Init => Base
  BY TypeInit DEF Base, Init, MutualExclusion, Holding

LEMMA BaseStep == Base /\ [Next]_vars => Base'
  BY TypeStep, LockStep DEF Base, TypeInv

(* A step as it matters here: one of a writer, or one that leaves writers, *)
(* WRITING, the stream and the splits alone.                               *)
LEMMA Steps ==
  ASSUME [Next]_vars
  PROVE  \/ \E w \in Cores : \/ \E n \in Sizes : Send(w, n)
                             \/ Acquire(w) \/ BackOff(w) \/ Admit(w) \/ Exit(w) \/ Raise(w)
                             \/ Reserve(w) \/ Wait(w) \/ Relock(w) \/ Copy(w) \/ Publish(w)
                             \/ Stop(w)
         \/ UNCHANGED <<writing, pc, msg, left, stream, split>>
  BY DEF Next, Locking, Writing, Reading, ReadCall, ReadChunk, ReadReturn, Finished, vars,
         writers, mpb, history

(* The core that moves goes to one label; the others stay. *)
LEMMA MoveTo ==
  ASSUME Base, NEW w \in Cores, NEW l \in Labels, Goto(w, l)
  PROVE  pc'[w] = l /\ \A v \in Cores : v # w => pc'[v] = pc[v]
  BY GotoPc DEF Base, TypeInv

-----------------------------------------------------------------------------
(***************************************************************************)
(* One writer at a time until a split.                                     *)
(***************************************************************************)
SoleInv ==
  split = {} =>
    /\ \A v, w \in Cores : Inside(v) /\ Inside(w) => v = w
    /\ \A w \in Cores : pc[w] = "relock" => writing
    /\ \A w \in Cores : pc[w] = "enter" => ~writing

LEMMA SoleInit == Init => SoleInv
  BY DEF Init, SoleInv, Inside

LEMMA SoleStep == Base /\ SoleInv /\ [Next]_vars => SoleInv'
  <1> SUFFICES ASSUME Base, SoleInv, [Next]_vars, split' = {}
               PROVE  /\ \A u, v \in Cores : Inside(u)' /\ Inside(v)' => u = v
                      /\ \A v \in Cores : pc'[v] = "relock" => writing'
                      /\ \A v \in Cores : pc'[v] = "enter" => ~writing'
    BY DEF SoleInv
  <1> USE LabelsAre DEF mpb, history
  <1>0. \A u, v \in Cores : Holding(u) /\ Holding(v) => u = v
    BY DEF Base, MutualExclusion
  <1>1. ASSUME NEW w \in Cores,
               \/ \E n \in Sizes : Send(w, n)
               \/ Acquire(w) \/ BackOff(w) \/ Exit(w) \/ Stop(w) \/ Admit(w)
               \/ Reserve(w) \/ Relock(w) \/ Copy(w)
        PROVE  SoleInv'
    <2>1. writing' = writing /\ split' = split
      BY <1>1 DEF Send, Acquire, BackOff, Exit, Stop, Admit, Reserve, Relock, Copy
    <2>2. PICK l \in Labels \ {"relock"} :
            /\ Goto(w, l)
            /\ l \in {"load", "copy", "publish"} => Inside(w)
            /\ l = "enter" => ~writing
      BY <1>1 DEF Send, Acquire, BackOff, Exit, Stop, Admit, Reserve, Relock, Copy, Inside
    <2>3. pc'[w] = l /\ \A v \in Cores : v # w => pc'[v] = pc[v]
      BY <2>2, MoveTo
    <2>4. \A v \in Cores : Inside(v)' => Inside(v)
      BY <2>2, <2>3 DEF Inside
    <2>5. QED
      BY <2>1, <2>2, <2>3, <2>4 DEF SoleInv
  <1>2. ASSUME NEW w \in Cores, Raise(w)
        PROVE  SoleInv'
    <2>1. /\ pc[w] = "enter" /\ writing' = TRUE /\ split' = split /\ Goto(w, "load")
      BY <1>2 DEF Raise
    <2>2. pc'[w] = "load" /\ \A v \in Cores : v # w => pc'[v] = pc[v]
      BY <2>1, MoveTo
    <2>3. \A v \in Cores : ~Inside(v)
      BY <1>0, <2>1 DEF SoleInv, Inside, Holding
    <2>4. \A v \in Cores : v # w => pc[v] # "enter"
      BY <1>0, <2>1 DEF Holding
    <2>5. QED
      BY <2>1, <2>2, <2>3, <2>4 DEF SoleInv, Inside
  <1>3. ASSUME NEW w \in Cores, Wait(w)
        PROVE  SoleInv'
    <2>1. pc[w] = "load" /\ Goto(w, "relock") /\ writing' = writing
      BY <1>3 DEF Wait
    <2>2. writing /\ split' = split
      BY <1>3 DEF Wait
    <2>3. pc'[w] = "relock" /\ \A v \in Cores : v # w => pc'[v] = pc[v]
      BY <2>1, MoveTo
    <2>4. QED
      BY <2>1, <2>2, <2>3 DEF SoleInv, Inside
  <1>4. ASSUME NEW w \in Cores, Publish(w)
        PROVE  SoleInv'
    <2>1. pc[w] = "publish" /\ Goto(w, "load") /\ writing' = FALSE /\ split' = split
      BY <1>4 DEF Publish
    <2>2. pc'[w] = "load" /\ \A v \in Cores : v # w => pc'[v] = pc[v]
      BY <2>1, MoveTo
    <2>3. \A v \in Cores : Inside(v) => v = w
      BY <2>1 DEF SoleInv, Inside
    <2>4. QED
      BY <2>1, <2>2, <2>3 DEF SoleInv, Inside
  <1>5. ASSUME UNCHANGED <<writing, pc, msg, left, stream, split>>
        PROVE  SoleInv'
    BY <1>5 DEF SoleInv, Inside
  <1>6. SoleInv'
    BY <1>1, <1>2, <1>3, <1>4, <1>5, Steps
  <1>7. QED
    BY <1>6 DEF SoleInv

(* WRITING keeps a second core out of cpy_mem_to_mpb while a writer sleeps *)
(* without the lock, until a message has to wait after its first part.     *)
THEOREM OneWriterUntilSplit == Spec => []SoleWriterUntilSplit
  <1>1. SoleInv => SoleWriterUntilSplit
    BY DEF SoleInv, SoleWriterUntilSplit
  <1>2. QED
    BY BaseInit, BaseStep, SoleInit, SoleStep, <1>1, PTL DEF Spec

-----------------------------------------------------------------------------
(***************************************************************************)
(* What Publish adds to the stream.                                        *)
(***************************************************************************)
LEMMA PublishAppends ==
  ASSUME Base, NEW w \in Cores, Publish(w)
  PROVE  /\ pc[w] = "publish" /\ pc'[w] = "load" /\ \A v \in Cores : v # w => pc'[v] = pc[v]
         /\ free[w] \in Nat /\ free[w] >= 1 /\ left[w] \in Nat /\ free[w] <= left[w]
         /\ Len(stream) \in Nat /\ Len(stream') = Len(stream) + free[w]
         /\ \A i \in 1..Len(stream) : stream'[i] = stream[i]
         /\ \A i \in 1..free[w] : stream'[Len(stream) + i] = <<w, msg[w], left[w] - (i - 1)>>
         /\ left'[w] = left[w] - free[w] /\ \A v \in Cores : v # w => left'[v] = left[v]
         /\ msg' = msg /\ writing' = FALSE /\ split' = split
  <1>0. TypeOK /\ Reserved
    BY DEF Base, TypeInv
  <1>1. /\ pc[w] = "publish" /\ Goto(w, "load") /\ msg' = msg /\ writing' = FALSE /\ split' = split
        /\ stream' = stream \o Chunk(w, free[w])
        /\ left' = [left EXCEPT ![w] = @ - free[w]]
    BY DEF Publish
  <1>2. pc'[w] = "load" /\ \A v \in Cores : v # w => pc'[v] = pc[v]
    BY <1>1, MoveTo, LabelsAre
  <1>3. /\ free[w] \in Nat /\ free[w] >= 1 /\ left[w] \in Nat /\ free[w] <= left[w]
        /\ stream \in Seq(Byte) /\ left \in [Cores -> Nat]
    BY <1>0, <1>1, RingSize DEF TypeOK, Reserved
  <1>4. /\ Chunk(w, free[w]) \in [1..free[w] -> Byte]
        /\ \A i \in 1..free[w] : Chunk(w, free[w])[i] = <<w, msg[w], left[w] - (i - 1)>>
    BY <1>0, <1>3, ChunkType
  <1> DEFINE c == Chunk(w, free[w])
  <1>5. c \in [1..free[w] -> Byte] /\ stream' = stream \o c
    BY <1>1, <1>4
  <1> HIDE DEF c
  <1>6. /\ Len(stream \o c) = Len(stream) + free[w]
        /\ \A i \in 1..Len(stream) : (stream \o c)[i] = stream[i]
        /\ \A i \in 1..free[w] : (stream \o c)[Len(stream) + i] = c[i]
    <2>1. stream \in Seq(Byte) /\ free[w] \in Nat
      BY <1>3
    <2>2. \A S : \A s \in Seq(S), n \in Nat : \A f \in [1..n -> S] :
            /\ Len(s \o f) = Len(s) + n
            /\ \A i \in 1..Len(s) : (s \o f)[i] = s[i]
            /\ \A i \in 1..n : (s \o f)[Len(s) + i] = f[i]
      BY AppendRun
    <2>3. c \in [1..free[w] -> Byte]
      BY <1>5
    <2>4. QED
      BY ONLY <2>1, <2>2, <2>3, Zenon
  <1>7. \A i \in 1..free[w] : stream'[Len(stream) + i] = <<w, msg[w], left[w] - (i - 1)>>
    BY <1>4, <1>5, <1>6 DEF c
  <1>8. Len(stream) \in Nat
    BY <1>3
  <1>9. QED
    BY <1>1, <1>2, <1>3, <1>5, <1>6, <1>7, <1>8

(* What every byte of the stream is. *)
LEMMA StreamBytes ==
  ASSUME Base
  PROVE  /\ Len(stream) \in Nat
         /\ \A i \in 1..Len(stream) :
              /\ stream[i][1] \in Cores /\ stream[i][2] \in Nat /\ stream[i][3] \in Nat
              /\ stream[i] = <<stream[i][1], stream[i][2], stream[i][3]>>
  <1>1. stream \in Seq(Byte)
    BY DEF Base, TypeInv, TypeOK
  <1>2. Len(stream) \in Nat /\ \A i \in 1..Len(stream) : stream[i] \in Byte
    BY <1>1
  <1>3. QED
    BY <1>2 DEF Byte

(* The variables that the invariants read, with their types. *)
LEMMA WriterTypes ==
  ASSUME Base
  PROVE  msg \in [Cores -> Nat] /\ left \in [Cores -> Nat] /\ writing \in BOOLEAN
  BY DEF Base, TypeInv, TypeOK

LEMMA OneHolds ==
  ASSUME Base, NEW v \in Cores, NEW w \in Cores, Holding(v), Holding(w)
  PROVE  v = w
  BY DEF Base, MutualExclusion

(* Where every action takes its core from and to. *)
LEMMA Moves ==
  ASSUME Base, NEW w \in Cores
  PROVE  /\ \A n \in Sizes : Send(w, n) => pc[w] = "idle" /\ pc'[w] = "lock"
         /\ Acquire(w) => pc[w] = "lock" /\ pc'[w] = "test"
         /\ BackOff(w) => pc[w] = "test" /\ pc'[w] = "lock"
         /\ Admit(w)   => pc[w] = "test" /\ pc'[w] = "enter"
         /\ Exit(w)    => pc[w] = "enter" /\ pc'[w] = "exited"
         /\ Raise(w)   => pc[w] = "enter" /\ pc'[w] = "load"
         /\ Reserve(w) => pc[w] = "load" /\ pc'[w] = "copy"
         /\ Wait(w)    => pc[w] = "load" /\ pc'[w] = "relock"
         /\ Relock(w)  => pc[w] = "relock" /\ pc'[w] = "load"
         /\ Copy(w)    => pc[w] = "copy" /\ pc'[w] = "publish"
         /\ Stop(w)    => pc[w] = "load" /\ pc'[w] = "idle"
  BY MoveTo, LabelsAre
     DEF Send, Acquire, BackOff, Admit, Exit, Raise, Reserve, Wait, Relock, Copy, Stop

LEMMA OthersStay ==
  ASSUME Base, NEW w \in Cores,
         \/ \E n \in Sizes : Send(w, n)
         \/ Acquire(w) \/ BackOff(w) \/ Admit(w) \/ Exit(w) \/ Raise(w) \/ Reserve(w)
         \/ Wait(w) \/ Relock(w) \/ Copy(w) \/ Stop(w)
  PROVE  /\ \A v \in Cores : v # w => pc'[v] = pc[v] /\ msg'[v] = msg[v] /\ left'[v] = left[v]
         /\ stream' = stream
         /\ ~(\E n \in Sizes : Send(w, n)) => msg' = msg /\ left' = left
         /\ ~Raise(w) => writing' = writing
         /\ ~Wait(w) => split' = split
         /\ split \subseteq split'
  <1>1. PICK l \in Labels : Goto(w, l)
    BY LabelsAre
       DEF Send, Acquire, BackOff, Admit, Exit, Raise, Reserve, Wait, Relock, Copy, Stop
  <1>2. \A v \in Cores : v # w => pc'[v] = pc[v]
    BY <1>1, MoveTo
  <1>3. stream' = stream /\ (~Raise(w) => writing' = writing) /\ (~Wait(w) => split' = split)
    BY DEF Send, Acquire, BackOff, Admit, Exit, Raise, Reserve, Wait, Relock, Copy, Stop, mpb, history
  <1>4. split \subseteq split'
    BY <1>3 DEF Wait
  <1>5. ~(\E n \in Sizes : Send(w, n)) => msg' = msg /\ left' = left
    BY DEF Acquire, BackOff, Admit, Exit, Raise, Reserve, Wait, Relock, Copy, Stop
  <1>6. \A v \in Cores : v # w => msg'[v] = msg[v] /\ left'[v] = left[v]
    BY <1>5, WriterTypes DEF Send
  <1>7. QED
    BY <1>2, <1>3, <1>4, <1>5, <1>6

-----------------------------------------------------------------------------
(***************************************************************************)
(* WRITING comes down.                                                     *)
(***************************************************************************)
NoBytes(w, m) == \A i \in 1..Len(stream) : stream[i][1] # w \/ stream[i][2] # m

(* No byte of a message is there before the message is; a core with        *)
(* nothing left and WRITING up has published nothing.                      *)
DownInv ==
  /\ \A w \in Cores : pc[w] = "idle" \/ msg[w] >= 1
  /\ \A w \in Cores, m \in Nat : m > msg[w] => NoBytes(w, m)
  /\ \A w \in Cores : pc[w] \in {"lock", "test", "enter"} => NoBytes(w, msg[w])
  /\ \A w \in Cores : pc[w] = "relock" => left[w] > 0
  /\ \A w \in Cores : pc[w] = "load" /\ left[w] = 0 => ~writing \/ NoBytes(w, msg[w])

LEMMA DownInit == Init => DownInv /\ WritingComesDown
  BY DEF Init, DownInv, NoBytes, WritingComesDown

LEMMA DownStep == Base /\ DownInv /\ [Next]_vars => DownInv'
  <1> SUFFICES ASSUME Base, DownInv, [Next]_vars
               PROVE  DownInv'
    OBVIOUS
  <1>0. msg \in [Cores -> Nat] /\ left \in [Cores -> Nat] /\ writing \in BOOLEAN
    BY WriterTypes
  <1>1. ASSUME NEW w \in Cores, NEW n \in Sizes, Send(w, n)
        PROVE  DownInv'
    <2>1. /\ pc[w] = "idle" /\ pc'[w] = "lock" /\ stream' = stream /\ writing' = writing
          /\ \A v \in Cores : v # w => pc'[v] = pc[v] /\ msg'[v] = msg[v] /\ left'[v] = left[v]
      BY <1>1, Moves, OthersStay, LabelsAre DEF Send, mpb, history
    <2>2. msg'[w] = msg[w] + 1 /\ msg[w] \in Nat
      BY <1>0, <1>1 DEF Send
    <2>3. NoBytes(w, msg[w])'
      <3>1. msg[w] + 1 \in Nat /\ msg[w] + 1 > msg[w]
        BY <2>2
      <3>2. NoBytes(w, msg[w] + 1)
        BY <3>1 DEF DownInv
      <3>3. QED
        BY <2>1, <2>2, <3>2 DEF NoBytes
    <2>4. \A v \in Cores, m \in Nat : m > msg'[v] => NoBytes(v, m)'
      <3> SUFFICES ASSUME NEW v \in Cores, NEW m \in Nat, m > msg'[v]
                   PROVE  NoBytes(v, m)'
        OBVIOUS
      <3>1. msg[v] \in Nat /\ m > msg[v]
        BY <1>0, <2>1, <2>2
      <3>2. QED
        BY <2>1, <3>1 DEF DownInv, NoBytes
    <2>5. QED
      BY <2>1, <2>2, <2>3, <2>4 DEF DownInv, NoBytes
  <1>2. ASSUME NEW w \in Cores,
               Acquire(w) \/ BackOff(w) \/ Admit(w) \/ Exit(w) \/ Raise(w) \/ Reserve(w)
                 \/ Wait(w) \/ Relock(w) \/ Copy(w) \/ Stop(w)
        PROVE  DownInv'
    <2>0. ~(\E n \in Sizes : Send(w, n))
      BY <1>2 DEF Send, Acquire, BackOff, Admit, Exit, Raise, Reserve, Wait, Relock, Copy, Stop
    <2>1. /\ \A v \in Cores : v # w => pc'[v] = pc[v]
          /\ UNCHANGED <<msg, left, stream>>
          /\ ~Raise(w) => writing' = writing
      BY <1>2, <2>0, OthersStay
    <2>2. \A v, m : NoBytes(v, m)' <=> NoBytes(v, m)
      BY <2>1 DEF NoBytes
    <2>3. pc'[w] \in {"lock", "test", "enter"} => pc[w] \in {"lock", "test", "enter"}
      BY <1>2, Moves
    <2>4. pc'[w] = "relock" => left[w] > 0
      BY <1>2, Moves DEF Wait
    <2>5. pc'[w] = "load" => \/ pc[w] = "relock" /\ writing' = writing
                             \/ pc[w] = "enter"
      BY <1>2, <2>1, Moves
    <2>6. \A v \in Cores : v # w /\ Raise(w) => pc[v] # "load"
      BY Moves, OneHolds DEF Holding
    <2>7. \A v \in Cores : pc'[v] = "load" /\ left[v] = 0 => ~writing' \/ NoBytes(v, msg[v])
      BY <2>1, <2>5, <2>6 DEF DownInv
    <2>8. pc[w] # "idle"
      BY <1>2, Moves
    <2>9. QED
      BY <2>1, <2>2, <2>3, <2>4, <2>7, <2>8 DEF DownInv
  <1>3. ASSUME NEW w \in Cores, Publish(w)
        PROVE  DownInv'
    <2> DEFINE l == Len(stream)
    <2>1. /\ pc[w] = "publish" /\ pc'[w] = "load" /\ \A v \in Cores : v # w => pc'[v] = pc[v]
          /\ \A v \in Cores : v # w => left'[v] = left[v]
          /\ msg' = msg /\ writing' = FALSE
          /\ l \in Nat /\ free[w] \in Nat /\ Len(stream') = l + free[w]
          /\ \A i \in 1..l : stream'[i] = stream[i]
          /\ \A i \in 1..free[w] : stream'[l + i] = <<w, msg[w], left[w] - (i - 1)>>
      BY <1>3, PublishAppends
    <2> HIDE DEF l
    <2>2. \A i \in 1..(l + free[w]) : i \in 1..l \/ \E k \in 1..free[w] : i = l + k
      <3> TAKE i \in 1..(l + free[w])
      <3>1. i \notin 1..l => i - l \in 1..free[w] /\ i = l + (i - l)
        BY <2>1
      <3>2. QED
        BY <3>1
    <2>3. ASSUME NEW v \in Cores, NEW m \in Nat, NoBytes(v, m), v # w \/ m # msg[w]
          PROVE  NoBytes(v, m)'
      <3> SUFFICES ASSUME NEW i \in 1..Len(stream')
                   PROVE  stream'[i][1] # v \/ stream'[i][2] # m
        BY DEF NoBytes
      <3>1. CASE i \in 1..l
        BY <2>1, <2>3, <3>1 DEF NoBytes, l
      <3>2. ASSUME NEW k \in 1..free[w], i = l + k
            PROVE  stream'[i][1] # v \/ stream'[i][2] # m
        BY <2>1, <2>3, <3>2
      <3>3. QED
        BY <2>1, <2>2, <3>1, <3>2
    <2>4. \A v \in Cores, m \in Nat : m > msg'[v] => NoBytes(v, m)'
      <3> SUFFICES ASSUME NEW v \in Cores, NEW m \in Nat, m > msg[v]
                   PROVE  NoBytes(v, m)'
        BY <2>1
      <3>1. NoBytes(v, m) /\ (v # w \/ m # msg[w])
        BY <1>0 DEF DownInv
      <3>2. QED
        BY <2>3, <3>1
    <2>5. \A v \in Cores : pc'[v] \in {"lock", "test", "enter"} => NoBytes(v, msg[v])'
      <3> SUFFICES ASSUME NEW v \in Cores, pc'[v] \in {"lock", "test", "enter"}
                   PROVE  NoBytes(v, msg[v])'
        OBVIOUS
      <3>1. v # w /\ NoBytes(v, msg[v]) /\ msg[v] \in Nat
        BY <1>0, <2>1 DEF DownInv
      <3>2. QED
        BY <2>1, <2>3, <3>1 DEF NoBytes
    <2>6. QED
      BY <2>1, <2>4, <2>5 DEF DownInv
  <1>4. ASSUME UNCHANGED <<writing, pc, msg, left, stream, split>>
        PROVE  DownInv'
    BY <1>4 DEF DownInv, NoBytes
  <1>5. QED
    BY <1>1, <1>2, <1>3, <1>4, Steps

LEMMA WritingStep ==
  Base /\ DownInv /\ WritingComesDown /\ [Next]_vars => WritingComesDown'
  <1> SUFFICES ASSUME Base, DownInv, WritingComesDown, [Next]_vars, writing'
               PROVE  \E v \in Cores : Inside(v)' \/ EmptySent(v)'
    BY DEF WritingComesDown
  <1>0. msg \in [Cores -> Nat] /\ left \in [Cores -> Nat]
    BY WriterTypes
  <1>1. ASSUME NEW w \in Cores, Raise(w)
        PROVE  \E v \in Cores : Inside(v)' \/ EmptySent(v)'
    BY <1>1, Moves DEF Inside
  <1>2. ASSUME NEW w \in Cores, Publish(w)
        PROVE  FALSE
    BY <1>2 DEF Publish
  <1>3. ASSUME NEW w \in Cores,
               \/ \E n \in Sizes : Send(w, n)
               \/ Acquire(w) \/ BackOff(w) \/ Admit(w) \/ Exit(w) \/ Reserve(w)
               \/ Wait(w) \/ Relock(w) \/ Copy(w) \/ Stop(w)
        PROVE  \E v \in Cores : Inside(v)' \/ EmptySent(v)'
    <2>0. ~Raise(w)
      BY <1>3, Moves DEF Raise, Send, Acquire, BackOff, Admit, Exit, Reserve, Wait, Relock, Copy, Stop
    <2>1. /\ \A v \in Cores : v # w => pc'[v] = pc[v] /\ msg'[v] = msg[v]
          /\ stream' = stream /\ writing' = writing
      BY <1>3, <2>0, OthersStay
    <2>2. PICK u \in Cores : Inside(u) \/ EmptySent(u)
      BY <2>1 DEF WritingComesDown
    <2>3. \A v, m : NoBytes(v, m)' <=> NoBytes(v, m)
      BY <2>1 DEF NoBytes
    <2>4. CASE u # w
      BY <2>1, <2>2, <2>4 DEF Inside, EmptySent
    <2>5. CASE u = w /\ Inside(w) /\ ~Stop(w)
      BY <1>3, <2>5, Moves DEF Inside
    <2>6. CASE u = w /\ Inside(w) /\ Stop(w)
      <3>1. pc[w] = "load" /\ pc'[w] = "idle" /\ left[w] = 0 /\ msg' = msg
        BY <2>6, Moves DEF Stop
      <3>2. NoBytes(w, msg[w])' /\ msg[w] \in 1..msg[w]
        BY <1>0, <2>1, <2>3, <3>1 DEF DownInv
      <3>3. EmptySent(w)'
        BY <3>1, <3>2 DEF EmptySent, NoBytes
      <3>4. QED
        BY <3>3
    <2>7. CASE u = w /\ EmptySent(w)
      <3>1. PICK m \in 1..msg[w] : (m < msg[w] \/ pc[w] = "idle") /\ NoBytes(w, m)
        BY <2>7 DEF EmptySent, NoBytes
      <3>2. CASE \E n \in Sizes : Send(w, n)
        <4>1. msg'[w] = msg[w] + 1 /\ msg[w] \in Nat
          BY <1>0, <3>2 DEF Send
        <4>2. m \in 1..msg'[w] /\ m < msg'[w]
          BY <4>1
        <4>3. QED
          BY <2>1, <3>1, <4>2 DEF EmptySent, NoBytes
      <3>3. CASE ~(\E n \in Sizes : Send(w, n))
        <4>1. msg' = msg /\ pc[w] # "idle"
          BY <1>3, <3>3, OthersStay, Moves
        <4>2. m \in 1..msg'[w] /\ m < msg'[w]
          BY <3>1, <4>1
        <4>3. EmptySent(w)'
          BY <2>1, <3>1, <4>2 DEF EmptySent, NoBytes
        <4>4. QED
          BY <4>3
      <3>4. QED
        BY <3>2, <3>3
    <2>8. QED
      BY <2>2, <2>4, <2>5, <2>6, <2>7
  <1>4. ASSUME UNCHANGED <<writing, pc, msg, left, stream, split>>
        PROVE  \E v \in Cores : Inside(v)' \/ EmptySent(v)'
    BY <1>4 DEF WritingComesDown, Inside, EmptySent
  <1>5. QED
    BY <1>1, <1>2, <1>3, <1>4, Steps

(* WRITING, which turns every sender away, is left up by no message but    *)
(* one of no bytes, however messages wait for room and come in between.    *)
THEOREM WritingGoesDown == Spec => []WritingComesDown
  BY BaseInit, BaseStep, DownInit, DownStep, WritingStep, PTL DEF Spec

-----------------------------------------------------------------------------
(***************************************************************************)
(* Messages are whole unless split.                                        *)
(***************************************************************************)

(* If the last byte published is not the last of its message, nor of one   *)
(* that was split, its core has the lock and goes on with the next.        *)
WholeInv ==
  \A w \in Cores, m \in Nat, k \in Nat :
    Len(stream) > 0 /\ stream[Len(stream)] = <<w, m, k>> =>
      \/ k = 1
      \/ <<w, m>> \in split
      \/ /\ pc[w] \in {"load", "copy", "publish"} /\ ~writing
         /\ msg[w] = m /\ left[w] = k - 1

LEMMA WholeInit == Init => WholeInv /\ WholeUnlessSplit
  BY DEF Init, WholeInv, WholeUnlessSplit

LEMMA WholeInvStep == Base /\ WholeInv /\ [Next]_vars => WholeInv'
  <1> SUFFICES ASSUME Base, WholeInv, [Next]_vars,
                      NEW u \in Cores, NEW m \in Nat, NEW k \in Nat,
                      Len(stream') > 0, stream'[Len(stream')] = <<u, m, k>>, k # 1
               PROVE  \/ <<u, m>> \in split'
                      \/ /\ pc'[u] \in {"load", "copy", "publish"} /\ ~writing'
                         /\ msg'[u] = m /\ left'[u] = k - 1
    BY DEF WholeInv
  <1>1. ASSUME NEW w \in Cores,
               \/ \E n \in Sizes : Send(w, n)
               \/ Acquire(w) \/ BackOff(w) \/ Admit(w) \/ Exit(w) \/ Raise(w) \/ Reserve(w)
               \/ Wait(w) \/ Relock(w) \/ Copy(w) \/ Stop(w)
        PROVE  \/ <<u, m>> \in split'
               \/ /\ pc'[u] \in {"load", "copy", "publish"} /\ ~writing'
                  /\ msg'[u] = m /\ left'[u] = k - 1
    <2>1. /\ \A v \in Cores : v # w => pc'[v] = pc[v] /\ msg'[v] = msg[v] /\ left'[v] = left[v]
          /\ stream' = stream
          /\ ~(\E n \in Sizes : Send(w, n)) => msg' = msg /\ left' = left
          /\ ~Raise(w) => writing' = writing
          /\ split \subseteq split'
      BY <1>1, OthersStay
    <2>2. \/ <<u, m>> \in split
          \/ /\ pc[u] \in {"load", "copy", "publish"} /\ ~writing
             /\ msg[u] = m /\ left[u] = k - 1
      BY <2>1 DEF WholeInv
    <2>3. CASE <<u, m>> \in split
      BY <2>1, <2>3
    <2>4. CASE /\ pc[u] \in {"load", "copy", "publish"} /\ ~writing
               /\ msg[u] = m /\ left[u] = k - 1
      <3>1. Holding(u)
        BY <2>4 DEF Holding
      <3>2. CASE u # w
        <4>1. ~Raise(w)
          BY <3>1, <3>2, Moves, OneHolds DEF Holding
        <4>2. QED
          BY <2>1, <2>4, <3>2, <4>1
      <3>3. CASE u = w
        <4>1. CASE Wait(w)
          BY <2>4, <3>3, <4>1 DEF Wait
        <4>2. CASE Stop(w)
          BY <2>4, <3>3, <4>2 DEF Stop
        <4>3. CASE ~Wait(w) /\ ~Stop(w)
          <5>1. Reserve(w) \/ Copy(w)
            BY <1>1, <2>4, <3>3, <4>3, Moves
          <5>2. ~Raise(w) /\ ~(\E n \in Sizes : Send(w, n))
            BY <2>4, <3>3 DEF Raise, Send
          <5>3. pc'[w] \in {"copy", "publish"}
            BY <5>1, Moves
          <5>4. QED
            BY <2>1, <2>4, <3>3, <5>2, <5>3
        <4>4. QED
          BY <4>1, <4>2, <4>3
      <3>4. QED
        BY <3>2, <3>3
    <2>5. QED
      BY <2>2, <2>3, <2>4
  <1>2. ASSUME NEW w \in Cores, Publish(w)
        PROVE  /\ pc'[u] \in {"load", "copy", "publish"} /\ ~writing'
               /\ msg'[u] = m /\ left'[u] = k - 1
    <2> DEFINE f == free[w]
               l == Len(stream)
    <2>1. /\ pc'[w] = "load" /\ ~writing' /\ msg' = msg /\ left'[w] = left[w] - f
          /\ left[w] \in Nat /\ f \in Nat /\ f >= 1 /\ l \in Nat /\ Len(stream') = l + f
          /\ \A i \in 1..f : stream'[l + i] = <<w, msg[w], left[w] - (i - 1)>>
      BY <1>2, PublishAppends
    <2> HIDE DEF f, l
    <2>2. f \in 1..f
      BY <2>1
    <2>3. stream'[Len(stream')] = <<w, msg[w], left[w] - (f - 1)>>
      BY <2>1, <2>2
    <2>4. u = w /\ m = msg[w] /\ k = left[w] - (f - 1)
      BY <2>3
    <2>5. QED
      BY <2>1, <2>4
  <1>3. CASE UNCHANGED <<writing, pc, msg, left, stream, split>>
    BY <1>3 DEF WholeInv
  <1>4. QED
    BY <1>1, <1>2, <1>3, Steps

LEMMA WholeStep ==
  Base /\ WholeInv /\ WholeUnlessSplit /\ [Next]_vars => WholeUnlessSplit'
  <1> SUFFICES ASSUME Base, WholeInv, WholeUnlessSplit, [Next]_vars,
                      NEW i \in 1..(Len(stream') - 1)
               PROVE  \/ /\ stream'[i][1] = stream'[i + 1][1] /\ stream'[i][2] = stream'[i + 1][2]
                         /\ stream'[i][3] = stream'[i + 1][3] + 1
                      \/ stream'[i][3] = 1
                      \/ <<stream'[i][1], stream'[i][2]>> \in split'
    BY DEF WholeUnlessSplit
  <1>1. ASSUME stream' = stream, split \subseteq split'
        PROVE  \/ /\ stream'[i][1] = stream'[i + 1][1] /\ stream'[i][2] = stream'[i + 1][2]
                  /\ stream'[i][3] = stream'[i + 1][3] + 1
               \/ stream'[i][3] = 1
               \/ <<stream'[i][1], stream'[i][2]>> \in split'
    BY <1>1 DEF WholeUnlessSplit
  <1>2. ASSUME NEW w \in Cores, Publish(w)
        PROVE  \/ /\ stream'[i][1] = stream'[i + 1][1] /\ stream'[i][2] = stream'[i + 1][2]
                  /\ stream'[i][3] = stream'[i + 1][3] + 1
               \/ stream'[i][3] = 1
               \/ <<stream'[i][1], stream'[i][2]>> \in split'
    <2> DEFINE f == free[w]
               l == Len(stream)
    <2>1. /\ pc[w] = "publish" /\ split' = split
          /\ left[w] \in Nat /\ f \in Nat /\ f >= 1 /\ l \in Nat /\ Len(stream') = l + f
          /\ \A j \in 1..l : stream'[j] = stream[j]
          /\ \A j \in 1..f : stream'[l + j] = <<w, msg[w], left[w] - (j - 1)>>
      BY <1>2, PublishAppends
    <2>2. CASE i < l
      <3>1. i \in 1..(Len(stream) - 1) /\ i \in 1..l /\ i + 1 \in 1..l
        BY <2>1, <2>2
      <3>2. stream'[i] = stream[i] /\ stream'[i + 1] = stream[i + 1]
        BY <2>1, <3>1
      <3>3. QED
        BY <2>1, <3>1, <3>2 DEF WholeUnlessSplit
    <2>3. CASE i = l
      <3>1. i \in 1..l /\ 1 \in 1..f /\ Len(stream) > 0
        BY <2>1, <2>3
      <3>2. stream'[i] = stream[Len(stream)] /\ stream'[i + 1] = <<w, msg[w], left[w] - (1 - 1)>>
        BY <2>1, <2>3, <3>1
      <3> DEFINE z == stream[Len(stream)]
      <3>3. z[1] \in Cores /\ z[2] \in Nat /\ z[3] \in Nat /\ z = <<z[1], z[2], z[3]>>
        BY <3>1, StreamBytes
      <3>4. \/ z[3] = 1
            \/ <<z[1], z[2]>> \in split
            \/ /\ pc[z[1]] \in {"load", "copy", "publish"}
               /\ msg[z[1]] = z[2] /\ left[z[1]] = z[3] - 1
        BY <3>1, <3>3 DEF WholeInv
      <3>5. CASE /\ pc[z[1]] \in {"load", "copy", "publish"}
                 /\ msg[z[1]] = z[2] /\ left[z[1]] = z[3] - 1
        <4>1. z[1] = w
          BY <2>1, <3>3, <3>5, OneHolds DEF Holding
        <4>2. QED
          BY <2>1, <3>2, <3>3, <3>5, <4>1
      <3>6. QED
        BY <2>1, <3>2, <3>4, <3>5
    <2>4. CASE i > l
      <3> DEFINE j == i - l
      <3>1. j \in 1..f /\ j + 1 \in 1..f /\ i = l + j /\ i + 1 = l + (j + 1)
            /\ (j + 1) - 1 = j /\ j \in Nat
        BY <2>1, <2>4
      <3> DEFINE Lies(k) == stream'[l + k] = <<w, msg[w], left[w] - (k - 1)>>
      <3>2. \A k \in 1..f : Lies(k)
        BY <2>1
      <3>3. Lies(j) /\ Lies(j + 1)
        <4> HIDE DEF Lies, j
        <4>1. QED
          BY <3>1, <3>2
      <3>4. /\ stream'[i] = <<w, msg[w], left[w] - (j - 1)>>
            /\ stream'[i + 1] = <<w, msg[w], left[w] - j>>
        <4> HIDE DEF j, f, l
        <4>1. QED
          BY <3>1, <3>3
      <3>5. left[w] - (j - 1) = (left[w] - j) + 1
        BY <2>1, <3>1
      <3>6. QED
        <4> HIDE DEF j
        <4>1. QED
          BY <3>4, <3>5
    <2>5. QED
      BY <2>1, <2>2, <2>3, <2>4
  <1>3. QED
    BY <1>1, <1>2, Steps, OthersStay

(* A message is published in one piece, no other core's bytes in between,  *)
(* unless it gave up the lock with WRITING down.                           *)
THEOREM MessagesWholeUnlessSplit == Spec => []WholeUnlessSplit
  BY BaseInit, BaseStep, WholeInit, WholeInvStep, WholeStep, PTL DEF Spec

-----------------------------------------------------------------------------
(***************************************************************************)
(* The order of the bytes of one core.                                     *)
(***************************************************************************)

(* Byte i is the last one that core w has published. *)
LastOf(w, i) ==
  /\ i \in 1..Len(stream)
  /\ stream[i][1] = w
  /\ \A k \in (i + 1)..Len(stream) : stream[k][1] # w

(* It is one of the message under way, whose next is to follow, or the     *)
(* last of an earlier one.                                                 *)
Resumes(w, i) ==
  \/ /\ stream[i][2] = msg[w]
     /\ Inside(w) \/ pc[w] = "idle"
     /\ left[w] = stream[i][3] - 1
     /\ pc[w] = "idle" => left[w] = 0
  \/ /\ stream[i][2] < msg[w]
     /\ stream[i][3] = 1

OrderInv == \A w \in Cores, i \in Nat : LastOf(w, i) => Resumes(w, i)

(* What PerCoreOrder says of two bytes. *)
InOrder(a, b) ==
  \/ a[2] = b[2] /\ a[3] = b[3] + 1
  \/ a[2] < b[2] /\ a[3] = 1

LEMMA OrderInit == Init => OrderInv /\ PerCoreOrder
  BY DEF Init, OrderInv, LastOf, PerCoreOrder

LEMMA OrderInvStep == Base /\ OrderInv /\ [Next]_vars => OrderInv'
  <1> SUFFICES ASSUME Base, OrderInv, [Next]_vars,
                      NEW u \in Cores, NEW i \in Nat, LastOf(u, i)'
               PROVE  Resumes(u, i)'
    BY DEF OrderInv
  <1>0. msg \in [Cores -> Nat] /\ left \in [Cores -> Nat]
    BY WriterTypes
  <1>1. ASSUME NEW w \in Cores,
               \/ \E n \in Sizes : Send(w, n)
               \/ Acquire(w) \/ BackOff(w) \/ Admit(w) \/ Exit(w) \/ Raise(w) \/ Reserve(w)
               \/ Wait(w) \/ Relock(w) \/ Copy(w) \/ Stop(w)
        PROVE  Resumes(u, i)'
    <2>1. /\ \A v \in Cores : v # w => pc'[v] = pc[v] /\ msg'[v] = msg[v] /\ left'[v] = left[v]
          /\ stream' = stream
          /\ ~(\E n \in Sizes : Send(w, n)) => msg' = msg /\ left' = left
      BY <1>1, OthersStay
    <2>2. Resumes(u, i)
      BY <2>1 DEF OrderInv, LastOf
    <2>3. CASE u # w
      BY <2>1, <2>2, <2>3 DEF Resumes, Inside
    <2>4. CASE u = w /\ \E n \in Sizes : Send(w, n)
      <3>1. pc[u] = "idle" /\ msg'[u] = msg[u] + 1 /\ msg[u] \in Nat
        BY <1>0, <2>4 DEF Send
      <3>2. stream[i][2] \in Nat /\ stream[i][3] \in Nat /\ stream' = stream
        BY <2>1, StreamBytes DEF LastOf
      <3>3. stream[i][2] <= msg[u] /\ stream[i][3] = 1
        BY <2>2, <3>1, <3>2 DEF Resumes
      <3>4. QED
        BY <3>1, <3>2, <3>3 DEF Resumes
    <2>5. CASE u = w /\ ~(\E n \in Sizes : Send(w, n))
      <3>1. msg' = msg /\ left' = left
        BY <2>1, <2>5
      <3>2. CASE Inside(u)
        <4>1. Inside(u)' \/ (Stop(w) /\ pc'[u] = "idle" /\ left[u] = 0)
          BY <1>1, <2>5, <3>2, Moves DEF Inside, Stop
        <4>2. Inside(u)' => pc'[u] # "idle"
          BY DEF Inside
        <4>3. pc[u] # "idle"
          BY <3>2 DEF Inside
        <4>4. QED
          BY <2>1, <2>2, <3>1, <3>2, <4>1, <4>2, <4>3 DEF Resumes
      <3>3. CASE ~Inside(u)
        <4>1. pc[u] # "idle"
          BY <1>1, <2>5, Moves
        <4>2. QED
          BY <2>1, <2>2, <3>1, <3>3, <4>1 DEF Resumes
      <3>4. QED
        BY <3>2, <3>3
    <2>6. QED
      BY <2>3, <2>4, <2>5
  <1>2. ASSUME NEW w \in Cores, Publish(w)
        PROVE  Resumes(u, i)'
    <2> DEFINE f == free[w]
               l == Len(stream)
    <2>1. /\ pc'[w] = "load" /\ msg' = msg /\ left'[w] = left[w] - f
          /\ left[w] \in Nat /\ f \in Nat /\ f >= 1 /\ l \in Nat /\ Len(stream') = l + f
          /\ \A j \in 1..l : stream'[j] = stream[j]
          /\ \A j \in 1..f : stream'[l + j] = <<w, msg[w], left[w] - (j - 1)>>
          /\ \A v \in Cores : v # w => pc'[v] = pc[v] /\ left'[v] = left[v]
      BY <1>2, PublishAppends
    <2>2. /\ i \in 1..(l + f) /\ stream'[i][1] = u
          /\ \A j \in (i + 1)..(l + f) : stream'[j][1] # u
      BY <2>1 DEF LastOf
    <2>3. CASE u = w
      <3>1. i = l + f
        <4>1. l + f \in 1..(l + f) /\ stream'[l + f][1] = w
          <5>1. f \in 1..f
            BY <2>1
          <5>2. QED
            BY <2>1, <5>1
        <4>2. l + f \notin (i + 1)..(l + f)
          BY <2>2, <2>3, <4>1
        <4>3. QED
          BY <2>1, <2>2, <4>2
      <3>2. stream'[i] = <<w, msg[w], left[w] - (f - 1)>>
        <4>1. f \in 1..f
          BY <2>1
        <4>2. QED
          BY <2>1, <3>1, <4>1
      <3>3. QED
        BY <2>1, <2>3, <3>2 DEF Resumes, Inside
    <2>4. CASE u # w
      <3>1. i \in 1..l
        <4>1. ASSUME i \notin 1..l
              PROVE  FALSE
          <5>1. i - l \in 1..f /\ i = l + (i - l)
            BY <2>1, <2>2, <4>1
          <5>2. stream'[i] = <<w, msg[w], left[w] - ((i - l) - 1)>>
            BY <2>1, <5>1
          <5>3. QED
            BY <2>2, <2>4, <5>2
        <4>2. QED
          BY <4>1
      <3>2. \A j \in (i + 1)..l : j \in (i + 1)..(l + f) /\ j \in 1..l
        BY <2>1, <3>1
      <3>3. LastOf(u, i) /\ stream'[i] = stream[i]
        BY <2>1, <2>2, <3>1, <3>2 DEF LastOf
      <3>4. Resumes(u, i)
        BY <3>3 DEF OrderInv
      <3>5. QED
        BY <2>1, <2>4, <3>3, <3>4 DEF Resumes, Inside
    <2>5. QED
      BY <2>3, <2>4
  <1>3. CASE UNCHANGED <<writing, pc, msg, left, stream, split>>
    BY <1>3 DEF OrderInv, LastOf, Resumes, Inside
  <1>4. QED
    BY <1>1, <1>2, <1>3, Steps

LEMMA OrderStep == Base /\ OrderInv /\ PerCoreOrder /\ [Next]_vars => PerCoreOrder'
  <1> SUFFICES ASSUME Base, OrderInv, PerCoreOrder, [Next]_vars,
                      NEW i \in 1..Len(stream'), NEW j \in 1..Len(stream'),
                      i < j, stream'[i][1] = stream'[j][1],
                      \A k \in (i + 1)..(j - 1) : stream'[k][1] # stream'[i][1]
               PROVE  InOrder(stream'[i], stream'[j])
    BY DEF PerCoreOrder, InOrder
  <1>1. CASE stream' = stream
    BY <1>1 DEF PerCoreOrder, InOrder
  <1>2. ASSUME NEW w \in Cores, Publish(w)
        PROVE  InOrder(stream'[i], stream'[j])
    <2> DEFINE f == free[w]
               l == Len(stream)
    <2>1. /\ pc[w] = "publish"
          /\ left[w] \in Nat /\ f \in Nat /\ f >= 1 /\ l \in Nat /\ Len(stream') = l + f
          /\ \A k \in 1..l : stream'[k] = stream[k]
          /\ \A k \in 1..f : stream'[l + k] = <<w, msg[w], left[w] - (k - 1)>>
      BY <1>2, PublishAppends
    <2>2. /\ i \in 1..(l + f) /\ j \in 1..(l + f) /\ i < j /\ stream'[i][1] = stream'[j][1]
          /\ \A k \in (i + 1)..(j - 1) : stream'[k][1] # stream'[i][1]
      BY <2>1
    <2> HIDE DEF f, l
    <2>3. CASE j <= l
      <3>1. i \in 1..l /\ j \in 1..l /\ \A k \in (i + 1)..(j - 1) : k \in 1..l
        BY <2>1, <2>2, <2>3
      <3>2. /\ stream[i][1] = stream[j][1]
            /\ \A k \in (i + 1)..(j - 1) : stream[k][1] # stream[i][1]
        BY <2>1, <2>2, <3>1
      <3>3. InOrder(stream[i], stream[j])
        BY <2>2, <3>1, <3>2 DEF PerCoreOrder, InOrder, l
      <3>4. QED
        BY <2>1, <3>1, <3>3
    <2>4. CASE j > l
      <3>1. j - l \in 1..f /\ j = l + (j - l)
        BY <2>1, <2>2, <2>4
      <3>2. stream'[j] = <<w, msg[w], left[w] - ((j - l) - 1)>>
        BY <2>1, <3>1
      <3>3. CASE i > l
        <4>1. i - l \in 1..f /\ i = l + (i - l)
          BY <2>1, <2>2, <3>3
        <4>2. stream'[i] = <<w, msg[w], left[w] - ((i - l) - 1)>>
          BY <2>1, <4>1
        <4>3. j = i + 1
          <5>1. ASSUME i + 1 < j
                PROVE  FALSE
            <6>1. i + 1 \in (i + 1)..(j - 1) /\ (i + 1) - l \in 1..f /\ i + 1 = l + ((i + 1) - l)
              BY <2>1, <2>2, <3>1, <3>3, <5>1
            <6>2. stream'[i + 1] = <<w, msg[w], left[w] - (((i + 1) - l) - 1)>>
              BY <2>1, <6>1
            <6>3. QED
              BY <2>2, <4>2, <6>1, <6>2
          <5>2. QED
            BY <2>1, <2>2, <5>1
        <4>4. left[w] - ((i - l) - 1) = (left[w] - ((j - l) - 1)) + 1
          BY <2>1, <2>2, <4>3
        <4>5. QED
          BY <3>2, <4>2, <4>4 DEF InOrder
      <3>4. CASE i <= l
        <4>1. i \in 1..l /\ stream'[i] = stream[i] /\ stream[i][1] = w
          <5>1. i \in 1..l
            BY <2>1, <2>2, <3>4
          <5>2. stream'[j][1] = w
            BY <3>2
          <5>3. QED
            BY <2>1, <2>2, <5>1, <5>2
        <4>2. j = l + 1
          <5>1. ASSUME l + 1 < j
                PROVE  FALSE
            <6>1. l + 1 \in (i + 1)..(j - 1) /\ 1 \in 1..f
              BY <2>1, <2>2, <3>4, <5>1
            <6>2. stream'[l + 1] = <<w, msg[w], left[w] - (1 - 1)>>
              BY <2>1, <6>1
            <6>3. QED
              BY <2>2, <4>1, <6>1, <6>2
          <5>2. QED
            BY <2>1, <2>2, <2>4, <5>1
        <4>3. \A k \in (i + 1)..l : k \in (i + 1)..(j - 1) /\ k \in 1..l
          BY <2>1, <4>1, <4>2
        <4>4. LastOf(w, i)
          BY <2>1, <2>2, <4>1, <4>3 DEF LastOf, l
        <4>5. Resumes(w, i)
          BY <4>1, <4>4 DEF OrderInv
        <4>6. stream'[j] = <<w, msg[w], left[w]>>
          BY <2>1, <3>2, <4>2
        <4>7. stream[i][2] \in Nat /\ stream[i][3] \in Nat
          BY <4>1, StreamBytes DEF l
        <4>8. QED
          BY <2>1, <4>1, <4>5, <4>6, <4>7 DEF Resumes, InOrder
      <3>5. QED
        BY <2>1, <2>2, <3>3, <3>4
    <2>5. QED
      BY <2>1, <2>2, <2>3, <2>4
  <1>3. QED
    BY <1>1, <1>2, Steps, OthersStay

(* Whoever comes in between, the bytes of one core are published in its    *)
(* order, each message from its first to its last, none missing or twice.  *)
THEOREM BytesInOrder == Spec => []PerCoreOrder
  BY BaseInit, BaseStep, OrderInit, OrderInvStep, OrderStep, PTL DEF Spec

-----------------------------------------------------------------------------
LEMMA ExitStep ==
  Base /\ [Next]_vars => [(\E w \in Cores : pc[w] = "exited") => stream' = stream]_vars
  <1> SUFFICES ASSUME Base, [Next]_vars, NEW u \in Cores, pc[u] = "exited"
               PROVE  stream' = stream
    OBVIOUS
  <1>1. ASSUME NEW w \in Cores, Publish(w)
        PROVE  FALSE
    <2>1. pc[w] = "publish"
      BY <1>1 DEF Publish
    <2>2. u = w
      BY <2>1, OneHolds DEF Holding
    <2>3. QED
      BY <2>1, <2>2
  <1>2. QED
    BY <1>1, Steps, OthersStay

(* A core that exits in the middle of cpy_mem_to_mpb keeps the lock, and   *)
(* no core publishes another byte.                                         *)
THEOREM ExitIsFinal == Spec => ExitBlocksTheRing
  BY BaseInit, BaseStep, ExitStep, PTL DEF Spec, ExitBlocksTheRing
=============================================================================

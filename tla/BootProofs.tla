----------------------------- MODULE BootProofs -----------------------------
(***************************************************************************)
(* Theorems about Boot, for every ring size, every set of cores, every     *)
(* header that the program before can have left and any number of          *)
(* restarts of the owner.                                                  *)
(***************************************************************************)
EXTENDS Boot, MpbRingProofs

(* What a step of a core or of the reader is to the ring. *)
LEMMA RingStep ==
  ASSUME (\E w \in Cores : LockingAnytime(w) \/ Sends(w)) \/ Reads
  PROVE  Next
  BY DEF LockingAnytime, Sends, Reads, Next

-----------------------------------------------------------------------------
(***************************************************************************)
(* Nobody is led out of the ring.                                          *)
(***************************************************************************)

LEMMA BootTypeInit == BootInit => TypeInv
  <1> SUFFICES ASSUME BootInit
               PROVE  TypeInv
    OBVIOUS
  <1> USE DEF BootInit
  <1>1. \A S : << >> \in Seq(S)
    OBVIOUS
  <1>2. stream \in Seq(Byte) /\ delivered \in Seq(Byte \cup {Junk}) /\ rdst \in Seq(Byte \cup {Junk})
    BY <1>1
  <1>3. buf \in [0..(BSize - 1) -> Byte \cup {Junk}]
    OBVIOUS
  <1>4. /\ pc \in [Cores -> Labels]
        /\ msg \in [Cores -> Nat] /\ left \in [Cores -> Nat]
        /\ wend \in [Cores -> 0..(BSize - 1)] /\ free \in [Cores -> 0..(BSize - 1)]
    BY RingSize DEF Labels
  <1>5. rstart \in 0..(BSize - 1) /\ rend \in 0..(BSize - 1)
    BY RingSize
  <1>6. Reserved
    BY DEF Reserved
  <1>7. QED
    BY <1>2, <1>3, <1>4, <1>5, <1>6 DEF TypeInv, TypeOK

LEMMA BootTypeStep == TypeInv /\ [BootNext]_bootVars => TypeInv'
  <1> SUFFICES ASSUME TypeInv, [BootNext]_bootVars
               PROVE  TypeInv'
    OBVIOUS
  <1>0. TypeOK /\ Reserved
    BY DEF TypeInv
  <1>1. CASE (\E w \in Cores : LockingAnytime(w) \/ Sends(w)) \/ Reads
    BY <1>1, RingStep, TypeStep
  <1>2. CASE SccInit
    <2>1. start' \in 0..(BSize - 1) /\ end' \in 0..(BSize - 1)
      BY <1>0, <1>2, RingSize DEF TypeOK, SccInit, ResetStart, ResetEnd, ResetWriting, Unlock, mpb
    <2>2. writing' \in BOOLEAN /\ locked' \in BOOLEAN
      BY <1>0, <1>2 DEF TypeOK, SccInit, ResetStart, ResetEnd, ResetWriting, Unlock, mpb
    <2>3. UNCHANGED <<buf, writers, reader, history>>
      BY <1>2 DEF SccInit, ResetStart, ResetEnd, ResetWriting, Unlock, mpb
    <2>4. TypeOK'
      BY <1>0, <2>1, <2>2, <2>3 DEF TypeOK, writers, reader, history
    <2>5. Reserved'
      BY <1>0, <2>3 DEF Reserved, writers
    <2>6. QED
      BY <2>4, <2>5 DEF TypeInv
  <1>3. CASE Restart
    <2>1. /\ rpc' = "idle" /\ rstart' = 0 /\ rend' = 0 /\ rleft' = 0 /\ rdst' = << >>
          /\ stream' = << >> /\ delivered' = << >> /\ overread' = FALSE /\ split' = {}
          /\ UNCHANGED <<mpb, locked, writers>>
      BY <1>3 DEF Restart
    <2>2. \A S : << >> \in Seq(S)
      OBVIOUS
    <2>3. stream' \in Seq(Byte) /\ delivered' \in Seq(Byte \cup {Junk}) /\ rdst' \in Seq(Byte \cup {Junk})
      BY <2>1, <2>2
    <2>4. 0 \in 0..(BSize - 1)
      BY RingSize
    <2>5. TypeOK'
      <3>1. /\ UNCHANGED <<start, end, writing, buf, locked, pc, msg, left, wend, free>>
            /\ rpc' = "idle" /\ rstart' \in 0..(BSize - 1) /\ rend' \in 0..(BSize - 1)
            /\ rleft' = 0 /\ overread' = FALSE /\ split' = {}
        BY <2>1, <2>4 DEF mpb, writers
      <3>2. QED
        BY <1>0, <2>3, <3>1 DEF TypeOK
    <2>6. Reserved'
      BY <1>0, <2>1 DEF Reserved, writers
    <2>7. QED
      BY <2>5, <2>6 DEF TypeInv
  <1>4. CASE UNCHANGED bootVars
    BY <1>4, TypeStep DEF bootVars
  <1>5. QED
    BY <1>1, <1>2, <1>3, <1>4 DEF BootNext

LEMMA TypesStayInRing == TypeInv => StaysInRing
  <1> SUFFICES ASSUME TypeInv
               PROVE  StaysInRing
    OBVIOUS
  <1>1. TypeOK /\ Reserved
    BY DEF TypeInv
  <1>2. ASSUME NEW w \in Cores
        PROVE  WriterWindow(w) \subseteq 0..(BSize - 1)
    <2>1. CASE pc[w] \in {"copy", "publish"}
      <3>1. wend[w] \in Nat /\ free[w] \in Nat /\ wend[w] + free[w] <= BSize
        BY <1>1, <2>1, RingSize DEF TypeOK, Reserved
      <3>2. WriterWindow(w) = wend[w]..(wend[w] + free[w] - 1)
        BY <2>1 DEF WriterWindow
      <3>3. QED
        BY <3>1, <3>2, RingSize
    <2>2. CASE pc[w] \notin {"copy", "publish"}
      BY <2>2 DEF WriterWindow
    <2>3. QED
      BY <2>1, <2>2
  <1>3. QED
    BY <1>1, <1>2 DEF TypeOK, StaysInRing

(* SccInit resets START and END while cores that it does not know of may   *)
(* be writing from copies of the old ones: they do not leave the ring.     *)
THEOREM NobodyLeavesTheRing == BootSpec => []StaysInRing
  BY BootTypeInit, BootTypeStep, TypesStayInRing, PTL DEF BootSpec

-----------------------------------------------------------------------------
(***************************************************************************)
(* A lock that was left taken keeps senders out of SccInit: nobody can     *)
(* take it, and nobody who could release it runs.                          *)
(***************************************************************************)
Shut ==
  taken =>
    /\ ~raced
    /\ owner # "up" => locked /\ \A w \in Cores : ~Sending(w)

LEMMA ShutInit == BootInit => Shut
  BY DEF BootInit, Shut, Sending, Holding, Inside

LEMMA ShutStep == TypeInv /\ Shut /\ [BootNext]_bootVars => Shut'
  <1> SUFFICES ASSUME TypeInv, Shut, [BootNext]_bootVars, taken'
               PROVE  /\ ~raced'
                      /\ owner' # "up" => locked' /\ \A w \in Cores : ~Sending(w)'
    BY DEF Shut
  <1>0. TypeOK
    BY DEF TypeInv
  <1>1. CASE Restart
    BY <1>1 DEF Restart, Sending, Holding, Inside, writers
  <1>2. CASE SccInit
    <2>1. taken /\ UNCHANGED <<writers, raced>> /\ owner # "up"
      BY <1>2 DEF SccInit, ResetStart, ResetEnd, ResetWriting, Unlock, OwnerGoto
    <2>2. ~raced /\ locked /\ \A w \in Cores : ~Sending(w)
      BY <2>1 DEF Shut
    <2>3. \A w \in Cores : ~Sending(w)'
      BY <2>1, <2>2 DEF Sending, Holding, Inside, writers
    <2>4. owner' # "up" => locked'
      BY <1>2, <2>2 DEF SccInit, ResetStart, ResetEnd, ResetWriting, Unlock, OwnerGoto
    <2>5. QED
      BY <2>1, <2>2, <2>3, <2>4
  <1>3. ASSUME NEW w \in Cores, LockingAnytime(w)
        PROVE  ~raced' /\ owner' = "up"
    <2>1. taken /\ ~locked /\ raced' = (raced \/ owner # "up") /\ owner' = owner
      BY <1>3 DEF LockingAnytime, Locking, Acquire, Relock
    <2>2. QED
      BY <2>1 DEF Shut
  <1>4. ASSUME NEW w \in Cores, Sends(w)
        PROVE  /\ ~raced'
               /\ owner' # "up" => locked' /\ \A v \in Cores : ~Sending(v)'
    <2>1. taken /\ UNCHANGED <<raced, owner>>
      BY <1>4 DEF Sends, boot
    <2>2. SUFFICES ASSUME owner # "up"
                   PROVE  locked' /\ \A v \in Cores : ~Sending(v)'
      BY <2>1 DEF Shut
    <2>3. locked /\ \A v \in Cores : ~Sending(v)
      BY <2>1, <2>2 DEF Shut
    <2>4. ~Writing(w)
      BY <2>3 DEF Writing, BackOff, Admit, Exit, Raise, Reserve, Wait, Copy, Publish, Stop,
                  Sending, Holding, Inside
    <2>5. PICK n \in Sizes : Send(w, n)
      BY <1>4, <2>4 DEF Sends
    <2>6. Goto(w, "lock") /\ UNCHANGED locked
      BY <2>5 DEF Send
    <2>7. pc'[w] = "lock" /\ \A v \in Cores : v # w => pc'[v] = pc[v]
      BY <1>0, <2>6, LabelsAre, GotoPc
    <2>8. QED
      BY <2>3, <2>6, <2>7 DEF Sending, Holding, Inside
  <1>5. CASE Reads \/ UNCHANGED bootVars
    <2>1. UNCHANGED boot /\ UNCHANGED <<locked, writers>>
      BY <1>5 DEF Reads, ReadCall, Reading, ReadChunk, ReadReturn, bootVars, vars, mpb
    <2>2. taken /\ UNCHANGED <<raced, owner, locked, pc>>
      BY <2>1 DEF boot, writers
    <2>3. QED
      BY <2>2 DEF Shut, Sending, Holding, Inside
  <1>6. QED
    BY <1>1, <1>2, <1>3, <1>4, <1>5 DEF BootNext

(* If a core that is gone has left the lock taken, no core that sends gets *)
(* between the steps of SccInit.                                           *)
THEOREM TakenLockSafe == BootSpec => []TakenLockProtects
  <1>1. Shut => TakenLockProtects
    BY DEF Shut, TakenLockProtects
  <1>2. QED
    BY BootTypeInit, BootTypeStep, ShutInit, ShutStep, <1>1, PTL DEF BootSpec

-----------------------------------------------------------------------------
(***************************************************************************)
(* The ring starts afresh.                                                 *)
(***************************************************************************)

(* What the lock says of the cores that run.  Those that are gone stay     *)
(* where they exited, the lock no longer theirs.                           *)
LiveExclude ==
  /\ \A v, w \in Cores \ gone : Holding(v) /\ Holding(w) => v = w
  /\ (\E w \in Cores \ gone : Holding(w)) => locked

(* While SccInit is at work and nobody is on the way: nothing happens but  *)
(* its own steps and calls that wait for the lock.                         *)
Cleared ==
  /\ \A w \in Cores : ~Sending(w) /\ (pc[w] = "exited" => w \in gone)
  /\ rpc = "idle" /\ stream = << >> /\ delivered = << >>
  /\ owner \in {"end", "writing", "unlock"} => start = 0
  /\ owner \in {"writing", "unlock"} => end = 0

Fresh ==
  ~raced => IF owner = "up" THEN LiveExclude /\ RingInv /\ WriterInv /\ ReaderInv
                            ELSE Cleared

FreshInv ==
  /\ overread = FALSE
  /\ gone \subseteq {w \in Cores : pc[w] = "exited"}
  /\ Fresh

LEMMA FreshInit == BootInit => FreshInv
  BY DEF BootInit, FreshInv, Fresh, Cleared, Sending, Holding, Inside

LEMMA LiveCopies ==
  ASSUME FreshInv, LiveExclude
  PROVE  OneCopies
  BY DEF FreshInv, LiveExclude, OneCopies, Holding

(* A step of a core that runs: it moves to one label, and the lock moves   *)
(* with it.                                                                *)
LEMMA LiveMove ==
  ASSUME TypeOK, LiveExclude, NEW w \in Cores \ gone, NEW l \in Labels, Goto(w, l), gone' = gone,
         LET in == l \in {"test", "enter", "load", "copy", "publish", "exited"}
         IN  \/ (Holding(w) <=> in) /\ locked' = locked
             \/ ~locked /\ locked' /\ in
             \/ Holding(w) /\ ~in
  PROVE  LiveExclude'
  <1> DEFINE in == l \in {"test", "enter", "load", "copy", "publish", "exited"}
  <1>1. (Holding(w))' <=> in
    BY GotoPc DEF Holding
  <1>2. \A v \in Cores : v # w => ((Holding(v))' <=> Holding(v))
    BY GotoPc DEF Holding
  <1> HIDE DEF in
  <1>3. \/ (Holding(w) <=> in) /\ locked' = locked
        \/ ~locked /\ locked' /\ in
        \/ Holding(w) /\ ~in
    BY DEF in
  <1>4. locked \in BOOLEAN
    BY DEF TypeOK
  <1>5. /\ (\E v \in Cores \ gone : Holding(v)) => locked
        /\ \A u, v \in Cores \ gone : Holding(u) /\ Holding(v) => u = v
    BY DEF LiveExclude
  <1>6. (\E v \in Cores \ gone : (Holding(v))') => locked'
    BY <1>1, <1>2, <1>3, <1>4, <1>5
  <1>7. \A u, v \in Cores \ gone : (Holding(u))' /\ (Holding(v))' => u = v
    BY <1>1, <1>2, <1>3, <1>4, <1>5
  <1>8. QED
    BY <1>6, <1>7 DEF LiveExclude

LEMMA LiveStep ==
  ASSUME TypeOK, gone \subseteq {w \in Cores : pc[w] = "exited"}, gone' = gone,
         (\E w \in Cores : LockingAnytime(w) \/ Sends(w)) \/ Reads
  PROVE  /\ gone' \subseteq {w \in Cores : pc'[w] = "exited"}
         /\ LiveExclude => LiveExclude'
  <1> USE LabelsAre DEF mpb
  <1>1. ASSUME NEW w \in Cores, NEW l \in Labels, Goto(w, l), pc[w] # "exited"
        PROVE  w \in Cores \ gone /\ gone' \subseteq {v \in Cores : pc'[v] = "exited"}
    <2>1. w \notin gone
      BY <1>1
    <2>2. \A v \in Cores : v # w => pc'[v] = pc[v]
      BY <1>1, GotoPc
    <2>3. QED
      BY <2>1, <2>2
  <1>2. ASSUME NEW w \in Cores, NEW n \in Sizes, Send(w, n)
        PROVE  gone' \subseteq {v \in Cores : pc'[v] = "exited"} /\ (LiveExclude => LiveExclude')
    <2>1. Goto(w, "lock") /\ pc[w] = "idle" /\ locked' = locked
      BY <1>2 DEF Send
    <2>2. w \in Cores \ gone /\ gone' \subseteq {v \in Cores : pc'[v] = "exited"}
      BY <2>1, <1>1
    <2>3. QED
      BY <2>1, <2>2, LiveMove DEF Holding
  <1>3. ASSUME NEW w \in Cores, Locking(w)
        PROVE  gone' \subseteq {v \in Cores : pc'[v] = "exited"} /\ (LiveExclude => LiveExclude')
    <2>1. PICK l \in {"test", "load"} : Goto(w, l)
      BY <1>3 DEF Locking, Acquire, Relock
    <2>2. pc[w] # "exited" /\ ~locked /\ locked' /\ l \in Labels
      BY <1>3 DEF Locking, Acquire, Relock
    <2>3. w \in Cores \ gone /\ gone' \subseteq {v \in Cores : pc'[v] = "exited"}
      BY <2>1, <2>2, <1>1
    <2>4. QED
      BY <2>1, <2>2, <2>3, LiveMove
  <1>4. ASSUME NEW w \in Cores,
               Admit(w) \/ Exit(w) \/ Raise(w) \/ Reserve(w) \/ Copy(w) \/ Publish(w)
        PROVE  gone' \subseteq {v \in Cores : pc'[v] = "exited"} /\ (LiveExclude => LiveExclude')
    <2>1. PICK l \in {"enter", "exited", "load", "copy", "publish"} : Goto(w, l)
      BY <1>4 DEF Admit, Exit, Raise, Reserve, Copy, Publish
    <2>2. pc[w] # "exited" /\ Holding(w) /\ locked' = locked /\ l \in Labels
      BY <1>4 DEF Admit, Exit, Raise, Reserve, Copy, Publish, Holding
    <2>3. w \in Cores \ gone /\ gone' \subseteq {v \in Cores : pc'[v] = "exited"}
      BY <2>1, <2>2, <1>1
    <2>4. QED
      BY <2>1, <2>2, <2>3, LiveMove
  <1>5. ASSUME NEW w \in Cores, BackOff(w) \/ Wait(w) \/ Stop(w)
        PROVE  gone' \subseteq {v \in Cores : pc'[v] = "exited"} /\ (LiveExclude => LiveExclude')
    <2>1. PICK l \in {"lock", "relock", "idle"} : Goto(w, l)
      BY <1>5 DEF BackOff, Wait, Stop
    <2>2. pc[w] # "exited" /\ Holding(w) /\ l \in Labels
      BY <1>5 DEF BackOff, Wait, Stop, Holding
    <2>3. w \in Cores \ gone /\ gone' \subseteq {v \in Cores : pc'[v] = "exited"}
      BY <2>1, <2>2, <1>1
    <2>4. QED
      BY <2>1, <2>2, <2>3, LiveMove
  <1>6. CASE Reads
    <2>1. UNCHANGED <<pc, locked>>
      BY <1>6 DEF Reads, ReadCall, Reading, ReadChunk, ReadReturn, writers
    <2>2. QED
      BY <2>1 DEF LiveExclude, Holding
  <1>7. QED
    BY <1>2, <1>3, <1>4, <1>5, <1>6 DEF LockingAnytime, Sends, Writing

LEMMA FreshStep == TypeInv /\ FreshInv /\ [BootNext]_bootVars => FreshInv'
  <1> SUFFICES ASSUME TypeInv, FreshInv, [BootNext]_bootVars
               PROVE  FreshInv'
    OBVIOUS
  <1>0. /\ TypeOK /\ overread = FALSE
        /\ gone \subseteq {w \in Cores : pc[w] = "exited"} /\ Fresh
        /\ start \in Index /\ end \in Index
    BY RingTypes DEF TypeInv, FreshInv
  <1>1. CASE Restart
    <2>1. /\ raced' = (\E w \in Cores : Sending(w)) /\ owner' = "start"
          /\ gone' = {w \in Cores : pc[w] = "exited"} /\ overread' = FALSE
          /\ rpc' = "idle" /\ stream' = << >> /\ delivered' = << >>
          /\ UNCHANGED writers
      BY <1>1 DEF Restart
    <2>2. pc' = pc
      BY <2>1 DEF writers
    <2>3. \A w \in Cores : Sending(w)' <=> Sending(w)
      BY <2>2 DEF Sending, Holding, Inside
    <2>4. ~raced' => Cleared'
      BY <2>1, <2>2, <2>3 DEF Cleared
    <2>5. QED
      BY <2>1, <2>2, <2>4 DEF FreshInv, Fresh
  <1>2. CASE SccInit
    <2>1. UNCHANGED <<writers, reader, history, raced, gone, buf>> /\ owner # "up"
      BY <1>2 DEF SccInit, ResetStart, ResetEnd, ResetWriting, Unlock, OwnerGoto, mpb
    <2>2. UNCHANGED <<pc, rpc, stream, delivered, overread, raced, gone>>
      BY <2>1 DEF writers, reader, history
    <2>3. \A w \in Cores : Sending(w)' <=> Sending(w)
      BY <2>2 DEF Sending, Holding, Inside
    <2>4. ASSUME ~raced PROVE Cleared
      BY <1>0, <2>1, <2>4 DEF Fresh
    <2>5. CASE Unlock
      <3>1. owner = "unlock" /\ owner' = "up" /\ UNCHANGED <<start, end>>
        BY <2>5 DEF Unlock, OwnerGoto, mpb
      <3>2. SUFFICES ASSUME ~raced PROVE LiveExclude' /\ RingInv' /\ WriterInv' /\ ReaderInv'
        BY <1>0, <2>2, <3>1 DEF FreshInv, Fresh
      <3>3. /\ \A w \in Cores : ~Sending(w) /\ (pc[w] = "exited" => w \in gone)
            /\ rpc = "idle" /\ stream = << >> /\ delivered = << >> /\ start = 0 /\ end = 0
        BY <2>4, <3>1, <3>2 DEF Cleared
      <3>4. \A w \in Cores \ gone : ~Holding(w)
        BY <3>3 DEF Sending
      <3>5. LiveExclude'
        BY <2>2, <3>4 DEF LiveExclude, Holding
      <3>6. RingInv'
        <4>1. Len(stream') = 0 /\ Len(delivered') = 0 /\ start' = 0 /\ end' = 0
          BY <2>2, <3>1, <3>3
        <4>2. Used(0, 0) = 0 /\ \A i \in 0..(BSize - 1) : ~(Used(0, i) < 0)
          BY RingSize DEF Used
        <4>3. QED
          BY <4>1, <4>2 DEF RingInv, Used
      <3>7. WriterInv' /\ ReaderInv'
        BY <2>2, <3>3 DEF WriterInv, ReaderInv, Sending, Holding
      <3>8. QED
        BY <3>5, <3>6, <3>7
    <2>6. CASE ~Unlock
      <3>1. owner' # "up"
        BY <1>2, <2>6 DEF SccInit, ResetStart, ResetEnd, ResetWriting, OwnerGoto
      <3>2. ASSUME Cleared PROVE Cleared'
        <4>1. /\ owner' \in {"end", "writing", "unlock"} => start' = 0
              /\ owner' \in {"writing", "unlock"} => end' = 0
          BY <1>2, <2>6, <3>2 DEF SccInit, ResetStart, ResetEnd, ResetWriting, OwnerGoto, Cleared
        <4>2. QED
          BY <2>2, <2>3, <3>2, <4>1 DEF Cleared
      <3>3. QED
        BY <1>0, <2>2, <2>4, <3>1, <3>2 DEF FreshInv, Fresh
    <2>7. QED
      BY <2>5, <2>6
  <1>3. CASE (\E w \in Cores : LockingAnytime(w) \/ Sends(w)) \/ Reads
    <2>1. UNCHANGED <<owner, gone>> /\ (raced => raced')
      <3>1. ASSUME NEW w \in Cores, LockingAnytime(w)
            PROVE  UNCHANGED <<owner, gone>> /\ (raced => raced')
        BY <3>1 DEF LockingAnytime
      <3>2. ASSUME UNCHANGED boot
            PROVE  UNCHANGED <<owner, gone>> /\ (raced => raced')
        BY <3>2 DEF boot
      <3>3. QED
        BY <1>3, <3>1, <3>2 DEF Sends, Reads
    <2>2. Next
      BY <1>3, RingStep
    <2>3. overread' = FALSE
      <3>1. ASSUME NEW n \in ReadSizes, n <= Used(start, end), ReadCall(n)
            PROVE  overread' = FALSE
        <4>1. overread' = (overread \/ n > Used(start, end)) /\ n \in Nat
          BY <3>1, ReadSizesPositive DEF ReadCall
        <4>2. Used(start, end) \in Nat
          BY <1>0, UsedRange
        <4>3. ~(n > Used(start, end))
          BY <3>1, <4>1, <4>2
        <4>4. QED
          BY <1>0, <4>1, <4>3
      <3>2. ASSUME ~(\E n \in ReadSizes : n <= Used(start, end) /\ ReadCall(n))
            PROVE  overread' = overread
        BY <1>3, <3>2 DEF LockingAnytime, Sends, Reads, Locking, Writing, Reading, Send, Acquire,
              BackOff, Admit, Exit, Raise, Reserve, Wait, Relock, Copy, Publish, Stop,
              ReadChunk, ReadReturn, history
      <3>3. QED
        BY <1>0, <3>1, <3>2
    <2>4. gone' \subseteq {w \in Cores : pc'[w] = "exited"} /\ (LiveExclude => LiveExclude')
      BY <1>0, <1>3, <2>1, LiveStep
    <2>5. SUFFICES ASSUME ~raced'
                   PROVE  IF owner' = "up" THEN LiveExclude' /\ RingInv' /\ WriterInv' /\ ReaderInv'
                                           ELSE Cleared'
      BY <2>3, <2>4 DEF FreshInv, Fresh
    <2>6. CASE owner = "up"
      <3>1. LiveExclude /\ RingInv /\ WriterInv /\ ReaderInv
        BY <1>0, <2>1, <2>5, <2>6 DEF Fresh
      <3>2. CopyInv
        BY <3>1, LiveCopies DEF CopyInv, DataInv
      <3>3. DataInv'
        BY <2>2, <3>2, DataStep
      <3>4. QED
        BY <2>1, <2>3, <2>4, <2>6, <3>1, <3>3 DEF DataInv
    <2>7. CASE owner # "up"
      <3>1. Cleared
        BY <1>0, <2>1, <2>5, <2>7 DEF Fresh
      <3>2. PICK w \in Cores, n \in Sizes : Send(w, n)
        <4>1. ~Reads
          BY <2>7 DEF Reads
        <4>2. PICK w \in Cores : LockingAnytime(w) \/ Sends(w)
          BY <1>3, <4>1
        <4>3. ~LockingAnytime(w)
          BY <2>5, <2>7 DEF LockingAnytime
        <4>4. ~Writing(w)
          <5>1. ~Sending(w)
            BY <3>1 DEF Cleared
          <5>2. QED
            BY <5>1 DEF Writing, BackOff, Admit, Exit, Raise, Reserve, Wait, Copy, Publish, Stop,
                        Sending, Holding, Inside
        <4>5. QED
          BY <4>2, <4>3, <4>4 DEF Sends
      <3>3. Goto(w, "lock") /\ UNCHANGED <<start, end, rpc, stream, delivered>>
        BY <3>2 DEF Send, mpb, reader, history
      <3>4. pc'[w] = "lock" /\ \A v \in Cores : v # w => pc'[v] = pc[v]
        BY <1>0, <3>3, LabelsAre, GotoPc
      <3>5. \A v \in Cores : ~Sending(v)' /\ (pc'[v] = "exited" => v \in gone')
        BY <2>1, <3>1, <3>4 DEF Cleared, Sending, Holding, Inside
      <3>6. QED
        BY <2>1, <2>7, <3>1, <3>3, <3>5 DEF Cleared
    <2>8. QED
      BY <2>6, <2>7
  <1>4. CASE UNCHANGED bootVars
    <2>1. UNCHANGED <<start, end, buf, pc, msg, left, wend, free, locked, reader, rpc,
                      stream, delivered, overread, owner, raced, gone>>
      BY <1>4 DEF bootVars, boot, vars, mpb, writers, reader, history
    <2>2. Cleared => Cleared'
      BY <2>1 DEF Cleared, Sending, Holding, Inside
    <2>3. LiveExclude => LiveExclude'
      BY <2>1 DEF LiveExclude, Holding
    <2>4. RingInv /\ WriterInv /\ ReaderInv => RingInv' /\ WriterInv' /\ ReaderInv'
      BY <2>1, RingFrame, WriterFrame, ReaderFrame
    <2>5. QED
      BY <1>0, <2>1, <2>2, <2>3, <2>4 DEF FreshInv, Fresh
  <1>5. QED
    BY <1>1, <1>2, <1>3, <1>4 DEF BootNext

(* Unless a core was sending while SccInit was at work, the ring starts    *)
(* afresh whatever the last program left in it: cores that run exclude     *)
(* each other, no memcpy races another, and what the reader gets is what   *)
(* has been sent since, in order.                                          *)
THEOREM StartsAfresh == BootSpec => []FreshUnlessRaced
  <1>1. ASSUME TypeInv, FreshInv
        PROVE  FreshUnlessRaced
    <2> SUFFICES ASSUME owner = "up", ~raced
                 PROVE  /\ \A v, w \in Cores : Holding(v) /\ Holding(w) => v = w \/ {v, w} \cap gone # {}
                        /\ (\E w \in Cores \ gone : Holding(w)) => locked
                        /\ WindowsDisjoint
                        /\ Len(delivered) <= Len(stream)
                        /\ \A i \in 1..Len(delivered) : delivered[i] = stream[i]
      BY DEF FreshUnlessRaced
    <2>1. LiveExclude /\ RingInv /\ WriterInv /\ ReaderInv
      BY <1>1 DEF FreshInv, Fresh
    <2>2. WindowsDisjoint
      BY <1>1, <2>1, LiveCopies, CopiesApart DEF CopyInv, DataInv
    <2>3. Len(delivered) <= Len(stream)
      <3>1. Len(delivered) \in Nat /\ start \in Index /\ end \in Index
        BY <1>1, RingTypes DEF TypeInv
      <3>2. Used(start, end) \in Nat
        BY <3>1, UsedRange
      <3>3. QED
        BY <2>1, <3>1, <3>2 DEF RingInv
    <2>4. ASSUME NEW v \in Cores, NEW w \in Cores, Holding(v), Holding(w)
          PROVE  v = w \/ {v, w} \cap gone # {}
      <3>1. CASE v \in gone \/ w \in gone
        BY <3>1
      <3>2. CASE v \notin gone /\ w \notin gone
        BY <2>1, <2>4, <3>2 DEF LiveExclude
      <3>3. QED
        BY <3>1, <3>2
    <2>5. QED
      BY <2>1, <2>2, <2>3, <2>4 DEF LiveExclude, RingInv
  <1>2. QED
    BY BootTypeInit, BootTypeStep, FreshInit, FreshStep, <1>1, PTL DEF BootSpec
=============================================================================

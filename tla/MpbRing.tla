------------------------------ MODULE MpbRing -------------------------------
(***************************************************************************)
(* The message ring in the message passing buffer (MPB) of one SCC node,   *)
(* as scc.h implements it: a header (START, END, WRITING) and B_SIZE bytes *)
(* of payload, a test-and-set lock register, any number of cores that send *)
(* messages into the ring with                                             *)
(*                                                                         *)
(*    start_write_node(n); cpy_mem_to_mpb(n, src, size); stop_write_node(n)*)
(*                                                                         *)
(* and one core that takes bytes out of it with cpy_mpb_to_mem, which      *)
(* takes no lock.  The rings of different nodes share no state.            *)
(*                                                                         *)
(* A byte is the triple <<core, number of its message, bytes of the        *)
(* message still to come, itself included>>: the last byte of a message is *)
(* the one that counts 1.  A memcpy is one step; WindowsDisjoint is why    *)
(* that loses nothing while readers ask only for published bytes.          *)
(***************************************************************************)
EXTENDS Naturals, Sequences

CONSTANTS
  Cores,       \* the cores that write into this ring
  BSize,       \* B_SIZE, the bytes of payload
  Sizes,       \* the message sizes that callers pass to cpy_mem_to_mpb
  ReadSizes,   \* the sizes that callers pass to cpy_mpb_to_mem
  MaxMsgs,     \* bound: messages per core
  MaxRead,     \* bound: bytes that are ever asked for
  Junk         \* the content of memory that no message was written to

(* START and END are uint16_t, so a ring of at most 2^16 bytes never       *)
(* truncates them; B_SIZE is 8096.                                         *)
ASSUME RingAssumption ==
  /\ BSize \in 2..2^16
  /\ Sizes \subseteq Nat
  /\ ReadSizes \subseteq Nat \ {0}
  /\ MaxMsgs \in Nat
  /\ MaxRead \in Nat

VARIABLES
  \* the MPB and the lock register
  start, end,  \* START and END
  writing,     \* WRITING
  buf,         \* the payload bytes
  locked,      \* some core has read a 1 from the lock register
  \* the cores that write
  pc,          \* where each one is
  msg,         \* number of messages it has begun to send
  left,        \* `size' in cpy_mem_to_mpb: bytes still to be written
  wend,        \* `end' in cpy_mem_to_mpb
  free,        \* `free' in cpy_mem_to_mpb
  \* the core that reads
  rpc,         \* where it is
  rstart,      \* `start' in cpy_mpb_to_mem
  rend,        \* `end' in cpy_mpb_to_mem
  rleft,       \* `size' in cpy_mpb_to_mem: bytes still to be copied
  rdst,        \* what has been copied to `dst'
  \* history
  stream,      \* every byte published, in ring order
  delivered,   \* every byte handed to the reader's caller
  overread,    \* a caller asked for more bytes than were published
  split        \* messages that gave up the lock while WRITING was down

mpb     == <<start, end, writing, buf>>
writers == <<pc, msg, left, wend, free>>
reader  == <<rpc, rstart, rend, rleft, rdst>>
history == <<stream, delivered, overread, split>>
vars    == <<mpb, locked, writers, reader, history>>

Byte == Cores \X Nat \X Nat

Minimum(x, y) == IF x < y THEN x ELSE y

-----------------------------------------------------------------------------
(***************************************************************************)
(* Ring arithmetic.                                                        *)
(***************************************************************************)

(* Bytes published and not yet released, for the indices s and e. *)
Used(s, e) == IF s <= e THEN e - s ELSE e + BSize - s

(* Slips: no byte kept empty; one kept empty where it need not be. *)
RoomNoGap(s, e) == IF e < s THEN s - e ELSE BSize - e
RoomAlwaysGap(s, e) == IF e < s THEN s - e - 1 ELSE BSize - e - 1

(* Bytes that can be written at e without wrapping round.  One byte of the *)
(* ring stays empty, for START = END to mean that the ring is.             *)
Room(s, e) ==
  IF e < s THEN s - e - 1 ELSE BSize - e - (IF s = 0 THEN 1 ELSE 0)

(* Slips: the read runs on past the end of the ring; stops short of it. *)
RunPast(s, e, n) == n
RunShort(s, e, n) == IF e < s THEN Minimum(n, BSize - s - 1) ELSE n

(* Bytes to copy at once, out of n that are wanted from index s on. *)
Run(s, e, n) == IF e < s THEN Minimum(n, BSize - s) ELSE n

(* What the reader finds at index i, which can lie beyond the ring. *)
Cell(i) == IF i < BSize THEN buf[i] ELSE Junk

(* The next n bytes of the message core w is writing. *)
Chunk(w, n) == [i \in 1..n |-> <<w, msg[w], left[w] - (i - 1)>>]

-----------------------------------------------------------------------------
Init ==
  /\ start = 0 /\ end = 0 /\ writing = FALSE
  /\ buf = [i \in 0..(BSize - 1) |-> Junk]
  /\ locked = FALSE
  /\ pc = [w \in Cores |-> "idle"]
  /\ msg = [w \in Cores |-> 0]
  /\ left = [w \in Cores |-> 0]
  /\ wend = [w \in Cores |-> 0]
  /\ free = [w \in Cores |-> 0]
  /\ rpc = "idle" /\ rstart = 0 /\ rend = 0 /\ rleft = 0 /\ rdst = << >>
  /\ stream = << >> /\ delivered = << >>
  /\ overread = FALSE /\ split = {}

Goto(w, label) == pc' = [pc EXCEPT ![w] = label]

(***************************************************************************)
(* A writer.                                                               *)
(***************************************************************************)

(* A program calls start_write_node, to send a message of n bytes. *)
Send(w, n) ==
  /\ pc[w] = "idle"
  /\ msg[w] < MaxMsgs
  /\ Goto(w, "lock")
  /\ msg' = [msg EXCEPT ![w] = @ + 1]
  /\ left' = [left EXCEPT ![w] = n]
  /\ UNCHANGED <<mpb, locked, wend, free, reader, history>>

(* lock(node): the read of the register that finds it free takes it. *)
Acquire(w) ==
  /\ pc[w] = "lock"
  /\ ~locked
  /\ locked' = TRUE
  /\ Goto(w, "test")
  /\ UNCHANGED <<mpb, msg, left, wend, free, reader, history>>

(* start_write_node backs off while another message is being written. *)
BackOff(w) ==
  /\ pc[w] = "test"
  /\ writing
  /\ locked' = FALSE
  /\ Goto(w, "lock")
  /\ UNCHANGED <<mpb, msg, left, wend, free, reader, history>>

(* Slip: WRITING is not looked at. *)
AdmitAnyone(w) ==
  /\ pc[w] = "test"
  /\ Goto(w, "enter")
  /\ UNCHANGED <<mpb, locked, msg, left, wend, free, reader, history>>

(* start_write_node returns, the lock held. *)
Admit(w) ==
  /\ pc[w] = "test"
  /\ ~writing
  /\ Goto(w, "enter")
  /\ UNCHANGED <<mpb, locked, msg, left, wend, free, reader, history>>

(* Slip: the lock is given back before the program ends. *)
ExitUnlocked(w) ==
  /\ pc[w] = "enter"
  /\ left[w] >= BSize
  /\ locked' = FALSE
  /\ Goto(w, "exited")
  /\ UNCHANGED <<mpb, msg, left, wend, free, reader, history>>

(* cpy_mem_to_mpb, on a message that can never fit, ends the program: the  *)
(* lock that start_write_node took stays taken.                            *)
Exit(w) ==
  /\ pc[w] = "enter"
  /\ left[w] >= BSize
  /\ Goto(w, "exited")
  /\ UNCHANGED <<mpb, locked, msg, left, wend, free, reader, history>>

(* cpy_mem_to_mpb raises WRITING. *)
Raise(w) ==
  /\ pc[w] = "enter"
  /\ left[w] < BSize
  /\ writing' = TRUE
  /\ Goto(w, "load")
  /\ UNCHANGED <<start, end, buf, locked, msg, left, wend, free, reader, history>>

(* The loop reads the header and finds room for some of the message. *)
Reserve(w) ==
  /\ pc[w] = "load"
  /\ Minimum(Room(start, end), left[w]) > 0
  /\ wend' = [wend EXCEPT ![w] = end]
  /\ free' = [free EXCEPT ![w] = Minimum(Room(start, end), left[w])]
  /\ Goto(w, "copy")
  /\ UNCHANGED <<mpb, locked, msg, left, reader, history>>

(* The loop finds no room: it gives up the lock and sleeps.  WRITING is    *)
(* what keeps other cores out meanwhile.                                   *)
Wait(w) ==
  /\ pc[w] = "load"
  /\ left[w] > 0
  /\ Room(start, end) = 0
  /\ locked' = FALSE
  /\ Goto(w, "relock")
  /\ split' = IF writing THEN split ELSE split \cup {<<w, msg[w]>>}
  /\ UNCHANGED <<mpb, msg, left, wend, free, reader, stream, delivered, overread>>

(* Slip: the loop goes on without the lock. *)
RelockBlindly(w) ==
  /\ pc[w] = "relock"
  /\ Goto(w, "load")
  /\ UNCHANGED <<mpb, locked, msg, left, wend, free, reader, history>>

(* ... and takes the lock again to look anew. *)
Relock(w) ==
  /\ pc[w] = "relock"
  /\ ~locked
  /\ locked' = TRUE
  /\ Goto(w, "load")
  /\ UNCHANGED <<mpb, msg, left, wend, free, reader, history>>

(* memcpy into the ring. *)
Copy(w) ==
  /\ pc[w] = "copy"
  /\ buf' = [i \in 0..(BSize - 1) |->
               IF i \in wend[w]..(wend[w] + free[w] - 1)
                 THEN Chunk(w, free[w])[i - wend[w] + 1]
                 ELSE buf[i]]
  /\ Goto(w, "publish")
  /\ UNCHANGED <<start, end, writing, locked, msg, left, wend, free, reader, history>>

(* Slips of Publish: END does not wrap round; WRITING stays up; `size' is  *)
(* not lowered; the lock is given up between the parts of a message.       *)
PublishUnwrapped(w) ==
  /\ pc[w] = "publish"
  /\ end' = wend[w] + free[w]
  /\ writing' = FALSE
  /\ left' = [left EXCEPT ![w] = @ - free[w]]
  /\ stream' = stream \o Chunk(w, free[w])
  /\ Goto(w, "load")
  /\ UNCHANGED <<start, buf, locked, msg, wend, free, reader, delivered, overread, split>>

PublishStillWriting(w) ==
  /\ pc[w] = "publish"
  /\ end' = (wend[w] + free[w]) % BSize
  /\ left' = [left EXCEPT ![w] = @ - free[w]]
  /\ stream' = stream \o Chunk(w, free[w])
  /\ Goto(w, "load")
  /\ UNCHANGED <<start, writing, buf, locked, msg, wend, free, reader, delivered, overread, split>>

PublishAgain(w) ==
  /\ pc[w] = "publish"
  /\ end' = (wend[w] + free[w]) % BSize
  /\ writing' = FALSE
  /\ stream' = stream \o Chunk(w, free[w])
  /\ Goto(w, "load")
  /\ UNCHANGED <<start, buf, locked, msg, left, wend, free, reader, delivered, overread, split>>

PublishUnlocked(w) ==
  /\ pc[w] = "publish"
  /\ end' = (wend[w] + free[w]) % BSize
  /\ writing' = FALSE
  /\ left' = [left EXCEPT ![w] = @ - free[w]]
  /\ stream' = stream \o Chunk(w, free[w])
  /\ locked' = FALSE
  /\ Goto(w, "relock")
  /\ UNCHANGED <<start, buf, msg, wend, free, reader, delivered, overread, split>>

(* END moves past the bytes copied and WRITING goes down, whether or not   *)
(* the message is complete.                                                *)
Publish(w) ==
  /\ pc[w] = "publish"
  /\ end' = (wend[w] + free[w]) % BSize
  /\ writing' = FALSE
  /\ left' = [left EXCEPT ![w] = @ - free[w]]
  /\ stream' = stream \o Chunk(w, free[w])
  /\ Goto(w, "load")
  /\ UNCHANGED <<start, buf, locked, msg, wend, free, reader, delivered, overread, split>>

(* Nothing is left: cpy_mem_to_mpb returns; stop_write_node unlocks. *)
Stop(w) ==
  /\ pc[w] = "load"
  /\ left[w] = 0
  /\ locked' = FALSE
  /\ Goto(w, "idle")
  /\ UNCHANGED <<mpb, msg, left, wend, free, reader, history>>

-----------------------------------------------------------------------------
(***************************************************************************)
(* The reader.                                                             *)
(***************************************************************************)

(* A program calls cpy_mpb_to_mem for n bytes.  Nothing checks that so     *)
(* many bytes have been published.                                         *)
ReadCall(n) ==
  /\ rpc = "idle"
  /\ Len(delivered) + n <= MaxRead
  /\ rpc' = "copy"
  /\ rstart' = start
  /\ rend' = end
  /\ rleft' = n
  /\ rdst' = << >>
  /\ overread' = (overread \/ n > Used(start, end))
  /\ UNCHANGED <<mpb, locked, writers, stream, delivered, split>>

(* One round of its loop: memcpy out of the ring. *)
ReadChunk ==
  /\ rpc = "copy"
  /\ rleft > 0
  /\ LET cpy == Run(rstart, rend, rleft)
     IN  /\ rdst' = rdst \o [i \in 1..cpy |-> Cell(rstart + (i - 1))]
         /\ rstart' = (rstart + cpy) % BSize
         /\ rleft' = rleft - cpy
  /\ UNCHANGED <<mpb, locked, writers, rpc, rend, history>>

(* The loop ends: START moves past the bytes copied, and the caller has    *)
(* them.                                                                   *)
ReadReturn ==
  /\ rpc = "copy"
  /\ rleft = 0
  /\ rpc' = "idle"
  /\ start' = rstart
  /\ delivered' = delivered \o rdst
  /\ rdst' = << >>
  /\ UNCHANGED <<end, writing, buf, locked, writers, rstart, rend, rleft,
                 stream, overread, split>>

-----------------------------------------------------------------------------
Locking(w)  == Acquire(w) \/ Relock(w)
Writing(w)  == \/ BackOff(w) \/ Admit(w) \/ Exit(w) \/ Raise(w) \/ Reserve(w)
               \/ Wait(w) \/ Copy(w) \/ Publish(w) \/ Stop(w)
Reading     == ReadChunk \/ ReadReturn

(* Every program has done all the bounds allow. *)
Finished ==
  /\ \A w \in Cores : pc[w] = "idle" /\ msg[w] = MaxMsgs
  /\ rpc = "idle"
  /\ UNCHANGED vars

Next ==
  \/ \E w \in Cores : (\E n \in Sizes : Send(w, n)) \/ Locking(w) \/ Writing(w)
  \/ (\E n \in ReadSizes : ReadCall(n)) \/ Reading
  \/ Finished

Spec == Init /\ [][Next]_vars

(***************************************************************************)
(* Every core runs on its own, so a step it can take it takes (WF).  The   *)
(* spinning on the lock register is between cores and the mesh: that no    *)
(* core loses every race for it is assumed (SF).  The program that reads   *)
(* asks for bytes whenever enough of them are there.                       *)
(***************************************************************************)
Fairness ==
  /\ \A w \in Cores : WF_vars(Writing(w)) /\ SF_vars(Acquire(w)) /\ SF_vars(Relock(w))
  /\ WF_vars(Reading)
  /\ WF_vars(\E n \in ReadSizes : n <= Used(start, end) /\ ReadCall(n))

FairSpec == Spec /\ Fairness
-----------------------------------------------------------------------------
(***************************************************************************)
(* Properties.                                                             *)
(***************************************************************************)

Labels == {"idle", "lock", "test", "enter", "load", "relock", "copy", "publish", "exited"}

(* Every variable has its type; the indices into the ring, those the code  *)
(* keeps in START and END and its own copies of them, stay within it even  *)
(* after a caller has asked for too much.                                  *)
TypeOK ==
  /\ start \in 0..(BSize - 1) /\ end \in 0..(BSize - 1)
  /\ writing \in BOOLEAN /\ locked \in BOOLEAN
  /\ buf \in [0..(BSize - 1) -> Byte \cup {Junk}]
  /\ pc \in [Cores -> Labels]
  /\ msg \in [Cores -> Nat]
  /\ left \in [Cores -> Nat]
  /\ wend \in [Cores -> 0..(BSize - 1)]
  /\ free \in [Cores -> 0..(BSize - 1)]
  /\ rpc \in {"idle", "copy"}
  /\ rstart \in 0..(BSize - 1) /\ rend \in 0..(BSize - 1)
  /\ rleft \in Nat
  /\ rdst \in Seq(Byte \cup {Junk})
  /\ stream \in Seq(Byte)
  /\ delivered \in Seq(Byte \cup {Junk})
  /\ overread \in BOOLEAN
  /\ split \subseteq Cores \X Nat

(* Core w has the lock. *)
Holding(w) == pc[w] \in {"test", "enter", "load", "copy", "publish", "exited"}

(* Core w is in the body of cpy_mem_to_mpb, its message under way. *)
Inside(w) == pc[w] \in {"load", "relock", "copy", "publish"}

(* The lock register is taken exactly while one core is between lock() and *)
(* unlock(), through every back-off, every wait for room, and for good     *)
(* once a core has exited from within cpy_mem_to_mpb.                      *)
MutualExclusion ==
  /\ locked <=> \E w \in Cores : Holding(w)
  /\ \A v, w \in Cores : Holding(v) /\ Holding(w) => v = w

(* The ring indices a core is about to overwrite or has overwritten.       *)
WriterWindow(w) ==
  IF pc[w] \in {"copy", "publish"} THEN wend[w]..(wend[w] + free[w] - 1) ELSE {}

(* The ring indices that hold published bytes the reader has not released. *)
Unread == {i \in 0..(BSize - 1) : Used(start, i) < Used(start, end)}

(* The ring indices the read in progress has copied or is about to copy.   *)
ReaderWindow ==
  IF rpc = "copy"
    THEN {i \in 0..(BSize - 1) : Used(start, i) < Len(rdst) + rleft}
    ELSE {}

(* No memcpy races another: a writer touches neither a byte of another     *)
(* writer nor one the reader, who takes no lock, is reading or will read,  *)
(* and stays within the ring.                                              *)
WindowsDisjoint ==
  ~overread =>
    /\ ReaderWindow \subseteq Unread
    /\ \A w \in Cores :
         /\ WriterWindow(w) \subseteq 0..(BSize - 1)
         /\ WriterWindow(w) \cap Unread = {}
         /\ \A v \in Cores \ {w} : WriterWindow(v) \cap WriterWindow(w) = {}

(* WRITING keeps a second core out of cpy_mem_to_mpb although the lock is  *)
(* free during the wait for room -- until the first message that waits     *)
(* after its first part: Publish has taken WRITING down by then.           *)
SoleWriterUntilSplit ==
  split = {} => \A v, w \in Cores : Inside(v) /\ Inside(w) => v = w

(* A message is contiguous in the stream unless it was split that way.     *)
WholeUnlessSplit ==
  \A i \in 1..(Len(stream) - 1) :
    LET a == stream[i]
        b == stream[i + 1]
    IN  \/ a[1] = b[1] /\ a[2] = b[2] /\ a[3] = b[3] + 1
        \/ a[3] = 1
        \/ <<a[1], a[2]>> \in split

(* Split or not, what one core sends arrives in its order, each message    *)
(* from its first byte to its last with none missing and none twice.       *)
PerCoreOrder ==
  \A i, j \in 1..Len(stream) :
    LET a == stream[i]
        b == stream[j]
    IN  /\ i < j
        /\ a[1] = b[1]
        /\ \A k \in (i + 1)..(j - 1) : stream[k][1] # a[1]
        => \/ a[2] = b[2] /\ a[3] = b[3] + 1
           \/ a[2] < b[2] /\ a[3] = 1

(* The ring implements the bounded FIFO of bytes, of capacity B_SIZE - 1.  *)
Fifo == INSTANCE ByteFifo WITH Capacity <- BSize - 1, broken <- overread

FifoSpec == Fifo!Spec

(* A message of no bytes goes through without ever lowering WRITING.       *)
EmptySent(w) ==
  \E m \in 1..msg[w] :
    /\ m < msg[w] \/ pc[w] = "idle"
    /\ \A i \in 1..Len(stream) : stream[i][1] # w \/ stream[i][2] # m

(* WRITING is never left up, which would turn every later sender away,     *)
(* except by a message of no bytes.                                        *)
WritingComesDown ==
  writing => \E w \in Cores : Inside(w) \/ EmptySent(w)

(* A core that exits over a message too big takes the ring with it: no     *)
(* byte is published any more, by any core.                                *)
ExitBlocksTheRing ==
  [][(\E w \in Cores : pc[w] = "exited") => stream' = stream]_vars

(* A sender is in one of the three calls. *)
Busy(w) == pc[w] \notin {"idle", "exited"}

(* The back-offs and waits of the senders never block the ring: while any  *)
(* is busy, another byte gets published or all of them get through, as     *)
(* long as the reader is given what it asks for, nobody exits and no       *)
(* message is empty.  Which of the senders gets on is left to their races  *)
(* for the lock: if the others go on sending, one can be turned away each  *)
(* time.                                                                   *)
TrafficFlows ==
  [](~overread /\ \A w \in Cores : pc[w] # "exited" /\ ~EmptySent(w))
    => \A k \in 0..MaxRead :
         (\E w \in Cores : Busy(w)) /\ Len(stream) = k
           ~> Len(stream) > k \/ \A w \in Cores : ~Busy(w)

(* Every byte that gets published reaches the reader, whatever happens to  *)
(* the writers: START always catches up with what END has been.            *)
BytesArrive ==
  []~overread
    => \A k \in 1..MaxRead : Len(stream) >= k ~> Len(delivered) >= k
=============================================================================

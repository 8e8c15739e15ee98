--------------------------- MODULE MpbVisibility ----------------------------
(***************************************************************************)
(* The message ring of module MpbRing on the memory that scc.h is written  *)
(* for: a core reads the message buffers through its L1 cache, which       *)
(* nothing keeps coherent and flush() empties, and writes them through a   *)
(* buffer that combines writes to one line of memory and is drained when   *)
(* another line is written -- which FOOL_WRITE_COMBINE does for no other   *)
(* reason -- or at any time before.  The lock registers are reached        *)
(* directly, so an unlock can overtake the writes that it is to guard.     *)
(*                                                                         *)
(* This module has every flush and every FOOL_WRITE_COMBINE of the three   *)
(* functions at its place, and shows them to be enough for the ring to     *)
(* behave as if memory were coherent, which is how MpbRing describes it.   *)
(* Readers ask for published bytes only.  START and END are read from one  *)
(* line, hence together.                                                   *)
(***************************************************************************)
EXTENDS Integers, Sequences

CONSTANTS
  Cores, BSize, Sizes, ReadSizes, MaxMsgs, MaxRead, Junk,   \* as in MpbRing
  Reader,     \* the core that reads the ring
  LineSize    \* the bytes of a line of memory

ASSUME VisibilityAssumption ==
  /\ BSize \in 2..2^16
  /\ Sizes \subseteq Nat
  /\ ReadSizes \subseteq Nat \ {0}
  /\ MaxMsgs \in Nat
  /\ MaxRead \in Nat
  /\ Reader \notin Cores
  /\ LineSize \in Nat \ {0}

(* The cells of the ring: the fields of the header, at B_OFFSET, and the   *)
(* bytes of the payload, by their index.  B_START is the start of a line.  *)
START   == -3
END     == -2
WRITING == -1

Payload    == 0..(BSize - 1)
Line(cell) == IF cell < 0 THEN -1 ELSE cell \div LineSize
Header     == {START, END, WRITING}

VARIABLES
  mem,        \* what is in the message buffer, by cell
  l1,         \* the cells in the L1 of each core, with their copies
  wcb,        \* the cells in the write-combining buffer of each core
  locked, pc, msg, left, wend, free, rpc, rstart, rend, rleft, rdst,
  stream, delivered, split   \* as in MpbRing

chip    == <<mem, l1, wcb, locked>>
writers == <<pc, msg, left, wend, free>>
reader  == <<rpc, rstart, rend, rleft, rdst>>
history == <<stream, delivered, split>>
vars    == <<chip, writers, reader, history>>

-----------------------------------------------------------------------------
(***************************************************************************)
(* The ring as MpbRing sees it: what is in the message buffer.  A header   *)
(* field changes when its write is drained, so until then the core is      *)
(* where it was before; END and WRITING may be drained apart, but go into  *)
(* the same step.                                                          *)
(***************************************************************************)
(* Core w has moved END, although it has not gone on. *)
Published(w) == pc[w] \in {"down", "fool"} /\ END \notin DOMAIN wcb[w]

(* The reader has moved START, although it has not gone on. *)
Released == rpc = "fool" /\ START \notin DOMAIN wcb[Reader]

(* A byte on its way to the buffer counts as written: nobody asks for it   *)
(* until END says so.                                                      *)
RingByte(i) ==
  LET holders == {w \in Cores : i \in DOMAIN wcb[w]}
  IN  IF holders = {} THEN mem[i] ELSE wcb[CHOOSE w \in holders : TRUE][i]

Chunk(w) == [i \in 1..free[w] |-> <<w, msg[w], left[w] - (i - 1)>>]

RingWriting == mem[WRITING] /\ \A w \in Cores : ~Published(w)
RingBuf     == [i \in Payload |-> RingByte(i)]

RingPc ==
  [w \in Cores |->
     CASE pc[w] = "up"               -> IF WRITING \in DOMAIN wcb[w] THEN "enter" ELSE "load"
       [] pc[w] \in {"down", "fool"} -> IF Published(w) THEN "load" ELSE "publish"
       [] OTHER                      -> pc[w]]

RingLeft == [w \in Cores |-> IF Published(w) THEN left[w] - free[w] ELSE left[w]]

RingStream ==
  IF \E w \in Cores : Published(w)
    THEN stream \o Chunk(CHOOSE w \in Cores : Published(w)) ELSE stream

RingRpc       == IF Released THEN "idle" ELSE IF rpc = "fool" THEN "copy" ELSE rpc
RingRdst      == IF Released THEN << >> ELSE rdst
RingDelivered == IF Released THEN delivered \o rdst ELSE delivered

Ring == INSTANCE MpbRing WITH
  start     <- mem[START],
  end       <- mem[END],
  writing   <- RingWriting,
  buf       <- RingBuf,
  pc        <- RingPc,
  left      <- RingLeft,
  rpc       <- RingRpc,
  rdst      <- RingRdst,
  stream    <- RingStream,
  delivered <- RingDelivered,
  overread  <- FALSE

-----------------------------------------------------------------------------
(***************************************************************************)
(* The core's way to memory.                                               *)
(***************************************************************************)
Nothing == << >>

(* The cells of f, and those of g that f does not have (the @@ of module   *)
(* TLC, of which provers know nothing); the cell k alone.                  *)
Over(f, g) == [k \in DOMAIN f \cup DOMAIN g |-> IF k \in DOMAIN f THEN f[k] ELSE g[k]]
Only(k, v) == [j \in {k} |-> v]

(* Slip: the cache is left alone. *)
NoFlush(c) == l1[c]

(* flush(): what is left in L1. *)
Flush(c) == Nothing

(* Slip: the write goes into the line that is being combined. *)
NoFool(c) == UNCHANGED <<mem, wcb>>

(* FOOL_WRITE_COMBINE: a write to a line of its own. *)
Fool(c) ==
  /\ mem' = Over(wcb[c], mem)
  /\ wcb' = [wcb EXCEPT ![c] = Nothing]

(* With cache in L1, core c reads some cells: their lines come into L1     *)
(* unless they are there, and what is there is what it gets.               *)
Loaded(cache, cells) ==
  Over(cache, [k \in {k \in DOMAIN mem : \E j \in cells : Line(k) = Line(j)} |-> mem[k]])

Load(c, cache, cells) == l1' = [l1 EXCEPT ![c] = Loaded(cache, cells)]

(* With cache in L1, core c writes the cells of f, in order.  A write to   *)
(* a line that is in L1 stays there; the others go through the buffer,     *)
(* which is left with the last line.                                       *)
Store(c, cache, f) ==
  LET hit  == [k \in DOMAIN f \cap DOMAIN cache |-> f[k]]
      out  == [k \in DOMAIN f \ DOMAIN cache |-> f[k]]
      last == {k \in DOMAIN out : \A j \in DOMAIN out : Line(j) <= Line(k)}
      kept == IF \A k \in DOMAIN wcb[c], j \in DOMAIN out : Line(k) = Line(j)
                THEN wcb[c] ELSE Nothing
  IN  /\ l1' = [l1 EXCEPT ![c] = Over(hit, cache)]
      /\ wcb' = [wcb EXCEPT ![c] = Over([k \in last |-> out[k]], kept)]
      /\ mem' = Over([k \in DOMAIN out \ last |-> out[k]],
                     IF kept = wcb[c] THEN mem ELSE Over(wcb[c], mem))

(* The buffer is drained of itself. *)
Drain(c) ==
  /\ wcb[c] # Nothing
  /\ mem' = Over(wcb[c], mem)
  /\ wcb' = [wcb EXCEPT ![c] = Nothing]
  /\ UNCHANGED <<l1, locked, writers, reader, history>>

-----------------------------------------------------------------------------
Init ==
  /\ mem = [k \in Header \cup Payload |->
              CASE k \in {START, END} -> 0 [] k = WRITING -> FALSE [] k \in Payload -> Junk]
  /\ l1 = [c \in Cores \cup {Reader} |-> Nothing]
  /\ wcb = [c \in Cores \cup {Reader} |-> Nothing]
  /\ locked = FALSE
  /\ pc = [w \in Cores |-> "idle"] /\ msg = [w \in Cores |-> 0]
  /\ left = [w \in Cores |-> 0] /\ wend = [w \in Cores |-> 0]
  /\ free = [w \in Cores |-> 0]
  /\ rpc = "idle" /\ rstart = 0 /\ rend = 0 /\ rleft = 0 /\ rdst = << >>
  /\ stream = << >> /\ delivered = << >> /\ split = {}

Goto(w, label) == pc' = [pc EXCEPT ![w] = label]

Send(w, n) ==
  /\ pc[w] = "idle" /\ msg[w] < MaxMsgs /\ Goto(w, "lock")
  /\ msg' = [msg EXCEPT ![w] = @ + 1]
  /\ left' = [left EXCEPT ![w] = n]
  /\ UNCHANGED <<chip, wend, free, reader, history>>

TakeLock(w) ==
  /\ ~locked /\ locked' = TRUE
  /\ \/ pc[w] = "lock" /\ Goto(w, "test")
     \/ pc[w] = "relock" /\ Goto(w, "load")
  /\ UNCHANGED <<mem, l1, wcb, msg, left, wend, free, reader, history>>

(* start_write_node looks at WRITING. *)
Test(w) ==
  /\ pc[w] = "test"
  /\ Load(w, Flush(w), {WRITING})
  /\ IF Loaded(Flush(w), {WRITING})[WRITING]
       THEN locked' = FALSE /\ Goto(w, "lock")
       ELSE UNCHANGED locked /\ Goto(w, "enter")
  /\ UNCHANGED <<mem, wcb, msg, left, wend, free, reader, history>>

Exit(w) ==
  /\ pc[w] = "enter" /\ left[w] >= BSize /\ Goto(w, "exited")
  /\ UNCHANGED <<chip, msg, left, wend, free, reader, history>>

Raise(w) ==
  /\ pc[w] = "enter" /\ left[w] < BSize /\ Goto(w, "up")
  /\ Store(w, Flush(w), Only(WRITING, TRUE))
  /\ UNCHANGED <<locked, msg, left, wend, free, reader, history>>

Raised(w) ==
  /\ pc[w] = "up" /\ Goto(w, "load")
  /\ Fool(w)
  /\ UNCHANGED <<l1, locked, msg, left, wend, free, reader, history>>

(* The loop reads the header; it goes on or gives up the lock. *)
LookForRoom(w) ==
  /\ pc[w] = "load" /\ left[w] > 0
  /\ Load(w, Flush(w), {START, END})
  /\ LET h    == Loaded(Flush(w), {START, END})
         room == Ring!Minimum(Ring!Room(h[START], h[END]), left[w])
     IN  IF room > 0
           THEN /\ wend' = [wend EXCEPT ![w] = h[END]]
                /\ free' = [free EXCEPT ![w] = room]
                /\ Goto(w, "copy")
                /\ UNCHANGED <<locked, split>>
           ELSE /\ locked' = FALSE
                /\ split' = IF mem[WRITING] THEN split ELSE split \cup {<<w, msg[w]>>}
                /\ Goto(w, "relock")
                /\ UNCHANGED <<wend, free>>
  /\ UNCHANGED <<mem, wcb, msg, left, reader, stream, delivered>>

Copy(w) ==
  /\ pc[w] = "copy" /\ Goto(w, "publish")
  /\ Store(w, l1[w], [i \in wend[w]..(wend[w] + free[w] - 1) |-> Chunk(w)[i - wend[w] + 1]])
  /\ UNCHANGED <<locked, msg, left, wend, free, reader, history>>

StoreEnd(w) ==
  /\ pc[w] = "publish" /\ Goto(w, "down")
  /\ Store(w, Flush(w), Only(END, (wend[w] + free[w]) % BSize))
  /\ UNCHANGED <<locked, msg, left, wend, free, reader, history>>

StoreWriting(w) ==
  /\ pc[w] = "down" /\ Goto(w, "fool")
  /\ Store(w, l1[w], Only(WRITING, FALSE))
  /\ UNCHANGED <<locked, msg, left, wend, free, reader, history>>

(* The round ends. *)
Publish(w) ==
  /\ pc[w] = "fool" /\ Goto(w, "load")
  /\ Fool(w)
  /\ left' = [left EXCEPT ![w] = @ - free[w]]
  /\ stream' = stream \o Chunk(w)
  /\ UNCHANGED <<l1, locked, msg, wend, free, reader, delivered, split>>

Stop(w) ==
  /\ pc[w] = "load" /\ left[w] = 0 /\ Goto(w, "idle")
  /\ l1' = [l1 EXCEPT ![w] = Flush(w)]
  /\ locked' = FALSE
  /\ UNCHANGED <<mem, wcb, msg, left, wend, free, reader, history>>

(* cpy_mpb_to_mem is called for n bytes that are there, and looks at the   *)
(* header.                                                                 *)
ReadCall(n) ==
  /\ rpc = "idle" /\ rpc' = "copy"
  /\ n <= Ring!Used(mem[START], mem[END]) /\ Len(delivered) + n <= MaxRead
  /\ Load(Reader, Flush(Reader), {START, END})
  /\ rstart' = Loaded(Flush(Reader), {START, END})[START]
  /\ rend' = Loaded(Flush(Reader), {START, END})[END]
  /\ rleft' = n /\ rdst' = << >>
  /\ UNCHANGED <<mem, wcb, locked, writers, history>>

ReadChunk ==
  /\ rpc = "copy" /\ rleft > 0
  /\ LET cpy == Ring!Run(rstart, rend, rleft)
         src == rstart..(rstart + cpy - 1)
     IN  /\ Load(Reader, Flush(Reader), src)
         /\ rdst' = rdst \o [i \in 1..cpy |-> Loaded(Flush(Reader), src)[rstart + (i - 1)]]
         /\ rstart' = (rstart + cpy) % BSize
         /\ rleft' = rleft - cpy
  /\ UNCHANGED <<mem, wcb, locked, writers, rpc, rend, history>>

StoreStart ==
  /\ rpc = "copy" /\ rleft = 0 /\ rpc' = "fool"
  /\ Store(Reader, Flush(Reader), Only(START, rstart))
  /\ UNCHANGED <<locked, writers, rstart, rend, rleft, rdst, history>>

ReadReturn ==
  /\ rpc = "fool" /\ rpc' = "idle"
  /\ Fool(Reader)
  /\ delivered' = delivered \o rdst /\ rdst' = << >>
  /\ UNCHANGED <<l1, locked, writers, rstart, rend, rleft, stream, split>>

Next ==
  \/ \E w \in Cores :
       \/ \E n \in Sizes : Send(w, n)
       \/ TakeLock(w) \/ Test(w) \/ Exit(w) \/ Raise(w) \/ Raised(w) \/ LookForRoom(w)
       \/ Copy(w) \/ StoreEnd(w) \/ StoreWriting(w) \/ Publish(w) \/ Stop(w)
  \/ (\E n \in ReadSizes : ReadCall(n)) \/ ReadChunk \/ StoreStart \/ ReadReturn
  \/ \E c \in Cores \cup {Reader} : Drain(c)

Spec == Init /\ [][Next]_vars

-----------------------------------------------------------------------------
(***************************************************************************)
(* Properties.                                                             *)
(***************************************************************************)

(* Caches, buffers and all, the ring does nothing that it does not do in   *)
(* coherent memory: every header and every byte that is used is fresh.     *)
RingSpec == Ring!Spec

(* An unlock overtakes no write: a core that does not have the lock has    *)
(* nothing in its buffer, and the reader that has returned has nothing     *)
(* either, so that room and bytes are seen without another call.           *)
NothingHeldBack ==
  /\ \A w \in Cores : pc[w] \in {"idle", "lock", "relock"} => wcb[w] = Nothing
  /\ rpc = "idle" => wcb[Reader] = Nothing

(* Nor does a write end in L1, where it would be held back for good: what  *)
(* changes there is a copy of what is in the message buffer.               *)
NoWriteStaysInL1 ==
  [][\A c \in Cores \cup {Reader} : \A k \in DOMAIN l1'[c] :
       \/ k \in DOMAIN l1[c] /\ l1'[c][k] = l1[c][k]
       \/ k \in DOMAIN mem /\ l1'[c][k] = mem[k]]_vars
=============================================================================

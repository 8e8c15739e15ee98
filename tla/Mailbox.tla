------------------------------ MODULE Mailbox -------------------------------
(***************************************************************************)
(* The program mailbox.c: nodes that hand each other a mailbox in the      *)
(* memory they share, by sending its offset through a message ring, and    *)
(* that wait for the string in it to change.  Node 0 makes a mailbox and   *)
(* then answers in that of another; the others answer first and then make  *)
(* theirs.                                                                 *)
(*                                                                         *)
(* It takes together what the other modules describe apart: the rings, the *)
(* pointers of every process to the shared pages, and the heap in these,   *)
(* of which each has a freeList of its own and all have the headers in     *)
(* common.  The rings are used without start_write_node, so WRITING is     *)
(* looked at by nobody; a message is one word, of two halves.              *)
(*                                                                         *)
(* A pointer is the address where the process has mapped the pages plus an *)
(* offset in units of a block's header.  Sleeping is left out: how long    *)
(* anyone takes is open.                                                   *)
(*                                                                         *)
(* The rings are flushed and drained as in MpbVisibility.  The shared      *)
(* pages are not: they are mapped through the caches of every core, and    *)
(* nothing ever empties these.  What a node reads there is the last that   *)
(* anyone has written, or else the node misses it (Miss).                  *)
(***************************************************************************)
EXTENDS Integers

CONSTANTS
  N,           \* bound: the nodes are 0..N-1
  Size,        \* bound: B_SIZE in halves of a word, enough not to come round
  Units,       \* bound: length of the heap
  Leftover,    \* what header and lock a ring can have before it is reset
  Null, Junk   \* the null pointer; an address that was never meant as one

(* There is room in a ring for the words of all nodes, and in the heap for *)
(* a mailbox and its string.                                               *)
ASSUME MailboxAssumption ==
  /\ N \in Nat \ {0, 1}
  /\ Size \in Nat /\ Size > 2 * N
  /\ Units \in Nat /\ Units >= 5
  /\ Leftover \subseteq [start : 0..(Size - 1), end : 0..(Size - 1), locked : BOOLEAN]
  /\ Null \notin Int /\ Junk \notin Int

Nodes == 0..(N - 1)
Rings == {0, 1}
First == 2     \* local + 0x10

VARIABLES
  pc,
  base,        \* shmem_start_address, where each node has the shared pages
  mem,         \* the shared pages
  freeList, prev, curr,        \* of each node, as in module Heap
  mbox,        \* the mailbox that each node makes
  start, end, locked, buf,     \* the header, lock and payload of each ring
  index, free, left,           \* `start' or `end', `free' and `size' of the
               \* copy to or from a ring
  addr,        \* the offset that a node has read
  untouched,   \* history: no other node has allocated since SCCInit
  outOfTurn    \* history: nodes that used a ring before its owner was up,
               \* read one with nothing in it, allocated in a heap that
               \* was not untouched, or missed what another had written

heap    == <<freeList, prev, curr, untouched>>
ring    == <<start, end, locked, buf, index, free, left>>
vars    == <<pc, base, mem, heap, mbox, ring, addr, outOfTurn>>

MadeIn(n)  == IF n = 0 THEN 0 ELSE 1   \* the ring for the own mailbox
ReadIn(n)  == IF n = 0 THEN 1 ELSE 0   \* the ring for that of another
Greeting(n) == IF n = 0 THEN "Griasti" ELSE "TSCHUSS"

(* Slip: the other is given back what it has written. *)
Echo(n) == IF n = 0 THEN "TSCHUSS" ELSE "Griasti"

Answer(n) == IF n = 0 THEN "CIAO" ELSE "Hoila"

nothing == [junk |-> TRUE]
Header(next, size) == [next |-> next, size |-> size]

(* SCCInit asks for this address, and gets it (MAP_FIXED). *)
nkAddr == 100

(* Slip: the system chooses, as in the line that is commented out. *)
Anywhere(n) == nkAddr + 50 * n

(* Where the pages are mapped. *)
local(n) == nkAddr

Nunits(n) == (n + 8 - 1) \div 8 + 1

-----------------------------------------------------------------------------
Fresh == [u \in 0..(First + Units - 1) |-> nothing]

(* A run leaves a mailbox and its string in the shared pages. *)
LastRun ==
  [u \in 0..(First + Units - 1) |->
     CASE u = First     -> Header(First, 2)
       [] u = First + 1 -> [id |-> 102, testString |-> nkAddr + First + 3]
       [] u = First + 2 -> Header(First + 2, 3)
       [] u = First + 3 -> [text |-> "CIAO"]
       [] u = First + 5 -> Header(First + 5, Units - 5)
       [] OTHER         -> nothing]

(* The rings have any header and any lock, as programs before have left    *)
(* them, and if the last of these was this one then the words in them are  *)
(* the offset that every run comes up with.                                *)
Init ==
  /\ pc = [n \in Nodes |-> "off"]
  /\ base = [n \in Nodes |-> 0]
  /\ freeList = [n \in Nodes |-> Null]
  /\ prev = [n \in Nodes |-> Null] /\ curr = [n \in Nodes |-> Null]
  /\ mbox = [n \in Nodes |-> Null]
  /\ \E h \in [Rings -> Leftover] :
       /\ start = [r \in Rings |-> h[r].start] /\ end = [r \in Rings |-> h[r].end]
       /\ locked = [r \in Rings |-> h[r].locked]
  /\ \E found \in {<<Fresh, Junk>>, <<LastRun, First + 1>>} :
       /\ mem = found[1]
       /\ buf = [r \in Rings |-> [i \in 0..(Size - 1) |-> <<found[2], i % 2>>]]
  /\ index = [n \in Nodes |-> 0] /\ free = index /\ left = index
  /\ addr = [n \in Nodes |-> Junk]
  /\ untouched = [n \in Nodes |-> FALSE]
  /\ outOfTurn = {}

At(n, label)   == pc[n] = label
Goto(n, label) == pc' = [pc EXCEPT ![n] = label]

(* The offset of a pointer, and the pointer to an offset. *)
get_ptr(n, p)  == p - base[n]
get_addr(n, i) == base[n] + i

(* The pointer leads into the pages, to something of this kind (a field of *)
(* the record there).                                                      *)
Leads(n, p, kind) ==
  /\ p \notin {Null, Junk}
  /\ get_ptr(n, p) \in DOMAIN mem
  /\ kind \in DOMAIN mem[get_ptr(n, p)]

(* Following any other pointer ends this process, or worse. *)
GoAstray(n) == Goto(n, "astray")

(* SccInit is through: the ring with this number is reset, and the node    *)
(* has written to the shared pages.                                        *)
Up(n) == pc[n] \notin {"off", "reset", "init"}

(* Slip: START stays where it is. *)
KeepStart(n) ==
  /\ At(n, "off") /\ Goto(n, "reset")
  /\ UNCHANGED <<base, mem, heap, mbox, start, end, locked, buf, index, free, left, addr, outOfTurn>>

(* SccInit resets the ring of the node, START before END, ... *)
Boot(n) ==
  /\ At(n, "off") /\ Goto(n, "reset")
  /\ start' = [r \in Rings |-> IF r = n THEN 0 ELSE start[r]]
  /\ UNCHANGED <<base, mem, heap, mbox, end, locked, buf, index, free, left, addr, outOfTurn>>

ResetEnd(n) ==
  /\ At(n, "reset") /\ Goto(n, "init")
  /\ end' = [r \in Rings |-> IF r = n THEN 0 ELSE end[r]]
  /\ UNCHANGED <<base, mem, heap, mbox, start, locked, buf, index, free, left, addr, outOfTurn>>

(* Slip: who finds a heap there keeps it. *)
SCCInitOnce(n) ==
  /\ At(n, "init") /\ Goto(n, IF n = 0 THEN "box" ELSE "get")
  /\ base' = [base EXCEPT ![n] = local(n)]
  /\ freeList' = [freeList EXCEPT ![n] = First]
  /\ mem' = IF mem[First] # nothing THEN mem ELSE [mem EXCEPT ![First] = Header(First, Units)]
  /\ untouched' = [untouched EXCEPT ![n] = TRUE]
  /\ locked' = [r \in Rings |-> locked[r] /\ r # n]
  /\ UNCHANGED <<prev, curr, mbox, start, end, buf, index, free, left, addr, outOfTurn>>

(* ... has SCCInit map the pages and lay a heap over them, and releases    *)
(* the lock.                                                               *)
SCCInit(n) ==
  /\ At(n, "init") /\ Goto(n, IF n = 0 THEN "box" ELSE "get")
  /\ base' = [base EXCEPT ![n] = local(n)]
  /\ freeList' = [freeList EXCEPT ![n] = First]
  /\ mem' = [mem EXCEPT ![First] = Header(First, Units)]
  /\ untouched' = [untouched EXCEPT ![n] = TRUE]
  /\ locked' = [r \in Rings |-> locked[r] /\ r # n]
  /\ UNCHANGED <<prev, curr, mbox, start, end, buf, index, free, left, addr, outOfTurn>>

(***************************************************************************)
(* SCCMallocPtr, as module Heap has it, in two steps: the look at freeList *)
(* and the rest.  The first block in the list is large enough, or is the   *)
(* one that another node has cut to the same size.                         *)
(***************************************************************************)
Look(n, from, to) ==
  /\ At(n, from)
  /\ IF freeList[n] = Null
       THEN GoAstray(n) /\ UNCHANGED <<prev, curr>>
       ELSE /\ Goto(n, to)
            /\ prev' = [prev EXCEPT ![n] = freeList[n]]
            /\ curr' = [curr EXCEPT ![n] = mem[freeList[n]].next]
  /\ UNCHANGED <<base, mem, freeList, untouched, mbox, ring, addr, outOfTurn>>

Take(n, nunits) ==
  LET c    == curr[n]
      new  == c + nunits
      last == IF prev[n] = c THEN new ELSE prev[n]
  IN  /\ IF mem[c].size = nunits
           THEN /\ freeList' = [freeList EXCEPT ![n] = IF prev[n] = c THEN Null ELSE prev[n]]
                /\ mem' = IF prev[n] = c THEN mem ELSE [mem EXCEPT ![prev[n]].next = mem[c].next]
           ELSE /\ freeList' = [freeList EXCEPT ![n] = last]
                /\ mem' = [mem EXCEPT ![new] = Header(IF last = new THEN new ELSE mem[c].next,
                                                      mem[c].size - nunits),
                                      ![c].size = nunits,
                                      ![last].next = new]
      /\ untouched' = [m \in Nodes |-> untouched[m] /\ m = n]
      /\ outOfTurn' = IF untouched[n] THEN outOfTurn ELSE outOfTurn \cup {n}
      /\ UNCHANGED <<base, prev, curr, ring, addr>>

(* The caller's pointer to the block. *)
Granted(n) == base[n] + curr[n] + 1

(* Where the shared pages are read, the node may get something older than  *)
(* what another has written there since the start of this run.  What comes *)
(* of that, for all of them, is not followed.                              *)
Miss(n) ==
  /\ pc[n] \in {"box", "takeBox", "string", "takeString", "greet", "wait", "visit"}
  /\ \E m \in Nodes \ {n} : Up(m)
  /\ pc' = [m \in Nodes |-> "stale"]
  /\ outOfTurn' = outOfTurn \cup {n}
  /\ UNCHANGED <<base, mem, heap, mbox, ring, addr>>

-----------------------------------------------------------------------------
(* LpelMailboxCreate. *)
TakeBox(n) ==
  /\ At(n, "takeBox") /\ Goto(n, "id")
  /\ Take(n, Nunits(8))
  /\ mbox' = [mbox EXCEPT ![n] = Granted(n)]

(* The mailbox gets its ID ... *)
SetID(n) ==
  /\ At(n, "id") /\ Goto(n, "string")
  /\ mem' = [mem EXCEPT ![get_ptr(n, mbox[n])] =
               [id |-> 102, testString |-> IF "testString" \in DOMAIN @ THEN @.testString ELSE Junk]]
  /\ UNCHANGED <<base, heap, mbox, ring, addr, outOfTurn>>

(* ... and room for a string. *)
TakeString(n) ==
  /\ At(n, "takeString") /\ Goto(n, "name")
  /\ Take(n, Nunits(10))
  /\ UNCHANGED mbox

SetString(n) ==
  /\ At(n, "name") /\ Goto(n, "greet")
  /\ mem' = [mem EXCEPT ![get_ptr(n, mbox[n])].testString = Granted(n)]
  /\ UNCHANGED <<base, heap, mbox, ring, addr, outOfTurn>>

(* strcpy through a pointer that is read from the mailbox at p. *)
WriteString(n, p, text) ==
  LET s == mem[get_ptr(n, p)].testString
  IN  IF s # Junk /\ get_ptr(n, s) \in DOMAIN mem
        THEN mem' = [mem EXCEPT ![get_ptr(n, s)] = [text |-> text]]
        ELSE UNCHANGED mem

Greet(n) ==
  /\ At(n, "greet") /\ Goto(n, "put")
  /\ WriteString(n, mbox[n], Greeting(n))
  /\ left' = [left EXCEPT ![n] = 2]
  /\ UNCHANGED <<base, heap, mbox, start, end, locked, buf, index, free, addr, outOfTurn>>

Room(s, e) == IF e < s THEN s - e - 1 ELSE Size - e - (IF s = 0 THEN 1 ELSE 0)

(* The ring r that node n uses has been reset by its owner. *)
InTime(n, r) == outOfTurn' = IF Up(r) THEN outOfTurn ELSE outOfTurn \cup {n}

(* cpy_mem_to_mpb without start_write_node: what there is room for of the  *)
(* offset goes to where END is, ...                                        *)
Put(n) ==
  LET r    == MadeIn(n)
      room == IF Room(start[r], end[r]) < left[n] THEN Room(start[r], end[r]) ELSE left[n]
  IN  /\ At(n, "put") /\ room > 0 /\ Goto(n, "publish")
      /\ index' = [index EXCEPT ![n] = end[r]]
      /\ free' = [free EXCEPT ![n] = room]
      /\ buf' = [buf EXCEPT ![r] = [i \in 0..(Size - 1) |->
                   IF i \in end[r]..(end[r] + room - 1)
                     THEN <<get_ptr(n, mbox[n]), i - end[r] + 2 - left[n]>> ELSE @[i]]]
      /\ InTime(n, r)
      /\ UNCHANGED <<base, mem, heap, mbox, start, end, locked, left, addr>>

(* ... and END moves on. *)
Publish(n) ==
  /\ At(n, "publish") /\ Goto(n, IF left[n] = free[n] THEN "wait" ELSE "put")
  /\ end' = [end EXCEPT ![MadeIn(n)] = (index[n] + free[n]) % Size]
  /\ left' = [left EXCEPT ![n] = @ - free[n]]
  /\ UNCHANGED <<base, mem, heap, mbox, start, locked, buf, index, free, addr, outOfTurn>>

(* With no room, it releases a lock that it may not have, and takes it.    *)
Yield(n) ==
  /\ At(n, "put") /\ Room(start[MadeIn(n)], end[MadeIn(n)]) = 0 /\ Goto(n, "relock")
  /\ locked' = [locked EXCEPT ![MadeIn(n)] = FALSE]
  /\ InTime(n, MadeIn(n))
  /\ UNCHANGED <<base, mem, heap, mbox, start, end, buf, index, free, left, addr>>

Relock(n) ==
  /\ At(n, "relock") /\ ~locked[MadeIn(n)] /\ Goto(n, "put")
  /\ locked' = [locked EXCEPT ![MadeIn(n)] = TRUE]
  /\ UNCHANGED <<base, mem, heap, mbox, start, end, buf, index, free, left, addr, outOfTurn>>

(* The string in the own mailbox is no longer what it was. *)
Changed(n) ==
  LET s == mem[get_ptr(n, mbox[n])].testString
  IN  mem[get_ptr(n, s)] # [text |-> Greeting(n)]

Wait(n) ==
  /\ At(n, "wait") /\ Changed(n)
  /\ Goto(n, IF n = 0 THEN "get" ELSE "done")
  /\ UNCHANGED <<base, mem, heap, mbox, ring, addr, outOfTurn>>

Used(s, e) == IF s <= e THEN e - s ELSE e + Size - s

(* cpy_mpb_to_mem: the word where START is, published or not, ...  The end *)
(* of the payload is passed if END does not lie before START.              *)
Get(n) ==
  LET r == ReadIn(n)
      s == start[r]
      a == buf[r][s]
      b == CASE s + 1 < Size                -> buf[r][s + 1]
             [] s + 1 = Size /\ end[r] < s  -> buf[r][0]
             [] OTHER                       -> <<Junk, 1>>
  IN  /\ At(n, "get") /\ Goto(n, "release")
      /\ index' = [index EXCEPT ![n] = s]
      /\ addr' = [addr EXCEPT ![n] = IF a[1] = b[1] /\ a[2] < b[2] THEN a[1] ELSE Junk]
      /\ IF Used(s, end[r]) < 2 THEN outOfTurn' = outOfTurn \cup {n} ELSE InTime(n, r)
      /\ UNCHANGED <<base, mem, heap, mbox, start, end, locked, buf, free, left>>

(* ... and START moves on. *)
Release(n) ==
  /\ At(n, "release") /\ Goto(n, "visit")
  /\ start' = [start EXCEPT ![ReadIn(n)] = (index[n] + 2) % Size]
  /\ UNCHANGED <<base, mem, heap, mbox, end, locked, buf, index, free, left, addr, outOfTurn>>

(* The other's mailbox and its string are read, and the string replaced.   *)
Visit(n) ==
  /\ At(n, "visit")
  /\ LET p == get_addr(n, addr[n])
     IN  IF /\ addr[n] # Junk /\ Leads(n, p, "testString")
            /\ Leads(n, mem[get_ptr(n, p)].testString, "text")
           THEN /\ Goto(n, IF n = 0 THEN "done" ELSE "box")
                /\ WriteString(n, p, Answer(n))
           ELSE GoAstray(n) /\ UNCHANGED mem
  /\ UNCHANGED <<base, heap, mbox, ring, addr, outOfTurn>>

-----------------------------------------------------------------------------
Make(n) ==
  \/ Look(n, "box", "takeBox") \/ TakeBox(n) \/ SetID(n)
  \/ Look(n, "string", "takeString") \/ TakeString(n) \/ SetString(n) \/ Greet(n)
  \/ Put(n) \/ Publish(n) \/ Yield(n) \/ Relock(n)

Reply(n) == Get(n) \/ Release(n) \/ Visit(n)

Main(n) == ResetEnd(n) \/ SCCInit(n) \/ Make(n) \/ Reply(n)

Next == \E n \in Nodes : Boot(n) \/ Main(n) \/ Wait(n) \/ Miss(n)

(* Nodes 0 and 1 are started, the others may be; and what runs goes on.    *)
(* That a node which waits ever sees its string change is up to the caches.*)
Spec ==
  /\ Init /\ [][Next]_vars
  /\ \A n \in Nodes : WF_vars(Main(n))
  /\ WF_vars(Boot(0)) /\ WF_vars(Boot(1))

-----------------------------------------------------------------------------
(***************************************************************************)
(* Properties.                                                             *)
(***************************************************************************)

(* A process follows a null or a wild pointer, or waits for room in a ring *)
(* (which would release a lock it does not have), only if one has read a   *)
(* ring with nothing in it, which moves START past END for all the others  *)
(* too, has used a ring with the header of an earlier run, has found the   *)
(* heap changed by another since its SCCInit, or has missed such a change. *)
(* When nobody has, it is because they all make one and the same mailbox:  *)
(* every SCCInit lays the heap out anew.                                   *)
InTurnAllShareOneMailbox ==
  outOfTurn = {} =>
    /\ \A n \in Nodes : pc[n] \notin {"astray", "relock"}
    /\ \A m, n \in Nodes : mbox[m] # Null /\ mbox[n] # Null => mbox[m] = mbox[n]

(* If nobody comes out of turn, and nobody waits for ever for a string     *)
(* that has changed, node 0 gets its answer and gives one, and so does     *)
(* node 1 unless a third node takes the answer or its place.               *)
Finishes ==
  [](outOfTurn = {}) /\ (\A n \in Nodes : []<>~(At(n, "wait") /\ Changed(n))) =>
    /\ <>(pc[0] = "done")
    /\ [](\A n \in Nodes \ {0, 1} : pc[n] = "off") => <>(pc[1] = "done")
=============================================================================

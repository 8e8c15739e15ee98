------------------------------ MODULE LutAlloc ------------------------------
(***************************************************************************)
(* The allocator of remote LUT entries in sccmalloc.c: SCCMallocLut and    *)
(* SCCFreeLut on the table lutState, in which the first and the last entry *)
(* of every run of pages carry the run's length and whether it is free.    *)
(* The other entries are whatever malloc or earlier runs left there.       *)
(*                                                                         *)
(* A caller is given the number of a LUT entry, makes it a pointer with    *)
(* SCCAddr2Ptr, and returns the pointer to SCCFree, which has to find out  *)
(* by its value which of the two allocators it came from.  All of this is  *)
(* 32-bit arithmetic: a LUT has 256 entries because that many pages make   *)
(* up the addresses there are, and a distance between two pointers is a    *)
(* signed number, negative from 2 GiB on.                                  *)
(*                                                                         *)
(* The state belongs to one process, and one call runs at a time.  The     *)
(* search of SCCMallocLut is one step per entry it looks at.               *)
(***************************************************************************)
EXTENDS Integers

CONSTANTS
  RemotePages,   \* remote_pages, an unsigned char
  Sizes,         \* the lengths that callers ask for
  Garbage,       \* what the memory of the table can hold before SCCInit
  PageSize,      \* PAGE_SIZE
  HalfLut,       \* half of the entries of a LUT, 128
  LOCAL_LUT,     \* the first entry of the local pages, 0x14
  LocalPages,    \* local_pages
  Local,         \* `local', where SCCInit has the local pages mapped
  Bases,         \* where the kernel may map the remote pages
  Null           \* the null pointer

Entries == 2 * HalfLut           \* 256, the values of an unsigned char as well
Half    == HalfLut * PageSize    \* 2^31
Word    == Entries * PageSize    \* 2^32, the addresses there are

Entry == [free : BOOLEAN, size : 0..(Entries - 1)]

(* A length of 0 is not asked for: SCCMallocLut would write in front of    *)
(* the table.  The kernel maps whole pages, which neither overlap nor      *)
(* begin one byte behind one another, and none at the top of the addresses.*)
ASSUME LutAssumption ==
  /\ RemotePages \in Nat \ {0} /\ LocalPages \in Nat \ {0}
  /\ LOCAL_LUT \in Nat /\ HalfLut \in Nat
  /\ LOCAL_LUT + LocalPages + RemotePages < Entries
  /\ LocalPages < HalfLut
  /\ Sizes \subseteq Nat \ {0}
  /\ Garbage \subseteq Entry
  /\ PageSize \in Nat \ {0} /\ Local \in Nat /\ Null \notin Nat
  /\ Local + LocalPages * PageSize + 1 < Word
  /\ \A base \in Bases :
       /\ base \in Nat
       /\ base + RemotePages * PageSize < Word
       /\ \/ base + RemotePages * PageSize <= Local
          \/ Local + LocalPages * PageSize = base
          \/ Local + LocalPages * PageSize + 1 < base

VARIABLES
  lutState,   \* lutState[0 .. remote_pages - 1]
  remote,     \* where the remote pages are mapped, or MAP_FAILED
  pc,         \* "boot", "idle", "scan" in the loop of SCCMallocLut, "exited"
  curr,       \* `curr', as an index
  size,       \* `size' of the call under way, 0 without one
  held,       \* history: the runs of pages handed out, as sets of indices
  strayed,    \* history: a pointer has been taken for one of the other kind
  missed      \* history: the runs that came back but not to their entries

vars == <<lutState, remote, pc, curr, size, held, strayed, missed>>

Index == 0..(RemotePages - 1)
Run(s, n) == s..(s + n - 1)

(* The table has gone wrong; the model makes no further calls. *)
Astray == strayed \/ missed # {}

-----------------------------------------------------------------------------
(***************************************************************************)
(* Pointers and LUT addresses.                                             *)
(***************************************************************************)
REMOTE_LUT == LOCAL_LUT + LocalPages
MAP_FAILED == Word - 1

(* The bounds that SCCFree and SCCPtr2Addr test: both include the first    *)
(* byte behind the pages.  No pointer is within the bounds of a mapping    *)
(* that failed, whose end has wrapped round.                               *)
InLocal(p)  == Local <= p /\ p <= Local + LocalPages * PageSize
InRemote(p) == remote <= p /\ p <= (remote + RemotePages * PageSize) % Word

(* The distance between two pointers, d if it could be written without a   *)
(* sign; and C's division and remainder by PAGE_SIZE, which truncate.      *)
Signed(d) == IF d < Half THEN d ELSE d - Word
Quot(d)   == IF d >= 0 THEN d \div PageSize ELSE -((-d) \div PageSize)

(* Slip: the remainder is never negative, as after a mask. *)
RemMasked(d) == d % PageSize

Rem(d) == IF d >= 0 THEN d % PageSize ELSE -((-d) % PageSize)

(* The LUT address of the byte at distance d from what LUT entry `first'   *)
(* is mapped to.                                                           *)
AddrAt(first, d) == [lut |-> (first + Quot(d)) % Entries, offset |-> Rem(d) % Word]

(* Slip: remote entries are counted from LOCAL_LUT. *)
LutFromLocal(p) ==
  IF InLocal(p) THEN AddrAt(LOCAL_LUT, Signed(p - Local)) ELSE AddrAt(LOCAL_LUT, Signed(p - remote))

(* Of pointers into neither mapping nothing is said: their result is       *)
(* whatever the stack holds.                                               *)
SCCPtr2Addr(p) ==
  IF InLocal(p) THEN AddrAt(LOCAL_LUT, Signed(p - Local)) ELSE AddrAt(REMOTE_LUT, Signed(p - remote))

SCCAddr2Ptr(addr) ==
  IF LOCAL_LUT <= addr.lut /\ addr.lut < LOCAL_LUT + LocalPages
    THEN ((addr.lut - LOCAL_LUT) * PageSize + addr.offset + Local) % Word
  ELSE IF REMOTE_LUT <= addr.lut /\ addr.lut < REMOTE_LUT + RemotePages
    THEN ((addr.lut - REMOTE_LUT) * PageSize + addr.offset + remote) % Word
  ELSE Null

(* What SCCMallocLut returns for index i, as the pointer it stands for. *)
Pointer(i) == SCCAddr2Ptr([lut |-> (REMOTE_LUT + i) % Entries, offset |-> 0])

-----------------------------------------------------------------------------
Init ==
  /\ lutState \in [Index -> Garbage]
  /\ remote = Null
  /\ pc = "boot" /\ curr = 0 /\ size = 0
  /\ held = {} /\ strayed = FALSE /\ missed = {}

(* SCCInit maps the pages and makes all remote ones one free run.  It does *)
(* not recognise that the kernel had no room for them.                     *)
SCCInit ==
  /\ pc = "boot" /\ pc' = "idle"
  /\ remote' \in Bases \cup {MAP_FAILED}
  /\ lutState' = [lutState EXCEPT ![0] = [free |-> TRUE, size |-> RemotePages],
                                  ![RemotePages - 1] = [free |-> TRUE, size |-> RemotePages]]
  /\ UNCHANGED <<curr, size, held, strayed, missed>>

(* SNetMemAlloc finds no memory for the table. *)
NoMemory ==
  /\ pc = "boot" /\ pc' = "exited"
  /\ UNCHANGED <<lutState, remote, curr, size, held, strayed, missed>>

(* A program calls SCCMallocLut(n). *)
Malloc(n) ==
  /\ pc = "idle" /\ ~Astray
  /\ pc' = "scan" /\ curr' = 0 /\ size' = n
  /\ UNCHANGED <<lutState, remote, held, strayed, missed>>

Suits == lutState[curr].free /\ lutState[curr].size >= size

(* SCCMallocLut returns the entry it is at. *)
Grant ==
  /\ pc' = "idle" /\ curr' = 0 /\ size' = 0
  /\ held' = held \cup {Run(curr, size)}
  /\ UNCHANGED <<remote, strayed, missed>>

(* Slip: the front entry still says that the run is free. *)
TakeAllStillFree ==
  /\ pc = "scan" /\ Suits
  /\ lutState[curr].size = size
  /\ lutState' = [lutState EXCEPT ![curr + size - 1].free = (size = 1)]
  /\ Grant

(* The free run at curr is of the very length. *)
TakeAll ==
  /\ pc = "scan" /\ Suits
  /\ lutState[curr].size = size
  /\ lutState' = [lutState EXCEPT ![curr].free = FALSE,
                                  ![curr + size - 1].free = FALSE]
  /\ Grant

(* It is longer: its rear part remains free. *)
TakeFront ==
  /\ pc = "scan" /\ Suits
  /\ lutState[curr].size > size
  /\ LET next == curr + size
         rest == [free |-> TRUE, size |-> lutState[curr].size - size]
         taken == [free |-> FALSE, size |-> size]
     IN  lutState' = [lutState EXCEPT ![next] = rest,
                                      ![next + rest.size - 1] = rest,
                                      ![curr] = taken,
                                      ![curr + size - 1] = taken]
  /\ Grant

(* Slip: the search starts again at the end. *)
SkipAround ==
  /\ pc = "scan" /\ ~Suits
  /\ curr' = (curr + lutState[curr].size) % RemotePages
  /\ UNCHANGED <<lutState, remote, pc, size, held, strayed, missed>>

(* The run at curr will not do: on to the next, or give up at the end. *)
Skip ==
  /\ pc = "scan" /\ ~Suits
  /\ IF curr + lutState[curr].size < RemotePages
       THEN curr' = curr + lutState[curr].size /\ UNCHANGED <<pc, size>>
       ELSE pc' = "idle" /\ curr' = 0 /\ size' = 0
  /\ UNCHANGED <<lutState, remote, held, strayed, missed>>

(* Slip: the run behind is left alone. *)
AbsorbNothing(lut) == lutState

(* SCCFreeLut of the run that starts at entry lut: it absorbs the run      *)
(* behind it, then is absorbed by the run before it, if they are free.     *)
AbsorbNext(lut) ==
  LET next == lut + lutState[lut].size
  IN  IF next < RemotePages /\ lutState[next].free
        THEN [lutState EXCEPT ![lut].size = @ + lutState[next].size]
        ELSE lutState

SCCFreeLut(lut) ==
  LET table == AbsorbNext(lut)
      back  == 0 < lut /\ table[lut - 1].free
      first == IF back THEN lut - table[lut - 1].size ELSE lut
      whole == IF back
                 THEN table[first].size + table[first + table[first].size].size
                 ELSE table[first].size
      run   == [free |-> TRUE, size |-> whole]
  IN  lutState' = [table EXCEPT ![first] = run, ![first + whole - 1] = run]

(* The entry that SCCFreeLut works on. *)
EntryOf(p) == Quot(Signed(p - remote))

(* Slips: the upper bound is not tested; the first byte is left out. *)
FreeUnbounded(r, p) ==
  /\ \/ Local <= p /\ strayed' = TRUE /\ UNCHANGED <<lutState, missed>>
     \/ ~(Local <= p) /\ InRemote(p) /\ SCCFreeLut(EntryOf(p)) /\ UNCHANGED <<strayed, missed>>
  /\ held' = held \ {r}

FreeBehindStart(r, p) ==
  /\ \/ InLocal(p) /\ strayed' = TRUE /\ UNCHANGED <<lutState, missed>>
     \/ /\ ~InLocal(p) /\ InRemote(p) /\ p # remote /\ EntryOf(p) \in Index
        /\ SCCFreeLut(EntryOf(p)) /\ UNCHANGED <<strayed, missed>>
     \/ /\ ~InLocal(p) /\ ~(InRemote(p) /\ p # remote /\ EntryOf(p) \in Index)
        /\ missed' = missed \cup {r} /\ UNCHANGED <<lutState, strayed>>
  /\ held' = held \ {r}

(* SCCFree of the pointer p, to the run r.  SCCFreePtr, the heap's, gets   *)
(* what is in the bounds of the local pages, and the run stays taken; a    *)
(* pointer into a mapping that failed is in no bounds, or in those of the  *)
(* local pages; and where SCCFreeLut counts backwards, it works on         *)
(* whatever lies in front of the table.                                    *)
SCCFree(r, p) ==
  /\ \/ InLocal(p) /\ strayed' = TRUE /\ UNCHANGED <<lutState, missed>>
     \/ /\ ~InLocal(p) /\ InRemote(p) /\ EntryOf(p) \in Index
        /\ SCCFreeLut(EntryOf(p)) /\ UNCHANGED <<strayed, missed>>
     \/ /\ ~InLocal(p) /\ ~(InRemote(p) /\ EntryOf(p) \in Index)
        /\ missed' = missed \cup {r} /\ UNCHANGED <<lutState, strayed>>
  /\ held' = held \ {r}

(* A program returns a run that it holds. *)
Return(r) ==
  /\ pc = "idle" /\ ~Astray
  /\ \E i \in r : (\A j \in r : i <= j) /\ SCCFree(r, Pointer(i))
  /\ UNCHANGED <<remote, pc, curr, size>>

(* A program frees a block of the heap whose header is in the last or in   *)
(* none of the units of the local pages: the heap extends 16 bytes beyond  *)
(* them.  If the remote pages begin there, entry 0 is freed.               *)
ReturnOverhang(p) ==
  /\ pc = "idle" /\ ~Astray
  /\ p > Local + LocalPages * PageSize
  /\ strayed' = InRemote(p)
  /\ IF InRemote(p) THEN SCCFreeLut(EntryOf(p)) ELSE UNCHANGED lutState
  /\ UNCHANGED <<remote, pc, curr, size, held, missed>>

-----------------------------------------------------------------------------
Search == TakeAll \/ TakeFront \/ Skip

Exited == pc = "exited" /\ UNCHANGED vars
Stop   == Astray /\ UNCHANGED vars

Next ==
  \/ SCCInit \/ NoMemory
  \/ \E n \in Sizes : Malloc(n)
  \/ Search
  \/ \E r \in held : Return(r)
  \/ ReturnOverhang(Local + LocalPages * PageSize + 1)
  \/ Exited \/ Stop

(* A call that has begun goes on. *)
Spec == Init /\ [][Next]_vars /\ WF_vars(Search)

-----------------------------------------------------------------------------
(***************************************************************************)
(* Properties.                                                             *)
(***************************************************************************)

(* A longest run of pages that nobody holds. *)
FreeRun(s, n) ==
  /\ n > 0
  /\ Run(s, n) \subseteq Index
  /\ \A i \in Run(s - 1, n + 2) \cap Index : (i \in Run(s, n)) <=> i \notin UNION held

(* Entry i and entry j are the two ends of a run of that kind. *)
Tagged(s, n, free) ==
  /\ lutState[s] = [free |-> free, size |-> n]
  /\ lutState[s + n - 1] = [free |-> free, size |-> n]

(* The table says at both ends of every run handed out, and at both ends   *)
(* of every longest free run, what it is: so frees have merged all that    *)
(* can be merged, and no stale entry lies where SCCFreeLut looks.          *)
TagsMatchHeld ==
  pc \in {"idle", "scan"} /\ ~Astray =>
    \A s \in Index, n \in 1..RemotePages :
      /\ Run(s, n) \in held => Tagged(s, n, FALSE)
      /\ FreeRun(s, n) => Tagged(s, n, TRUE)

(* What is freed comes back to the allocator and the entries it is from.   *)
(* SCCFree takes no pointer for one of the other allocator's, unless the   *)
(* kernel has put the remote pages right behind the local ones; and it     *)
(* finds the entries of every run that begins less than 2 GiB behind       *)
(* `remote' -- but for remote pages that are not mapped at all.            *)
FreesComeBack ==
  remote # MAP_FAILED =>
    /\ strayed => remote = Local + LocalPages * PageSize
    /\ \A r \in missed : \A i \in r : i >= HalfLut

(* Pointers and LUT addresses convert into each other, wherever the pages  *)
(* are mapped.  Byte o of page i has the address that says so, in an entry *)
(* of its own mapping, and is led back to -- but beyond 2 GiB only if it   *)
(* is the first of its page.  The others there get the entry behind theirs *)
(* and an offset that takes a page off again, which leads back as long as  *)
(* there is an entry behind.                                               *)
PointersRoundTrip ==
  pc \in {"idle", "scan"} =>
    \A o \in 0..(PageSize - 1) :
      /\ \A i \in 0..(LocalPages - 1) :
           LET p == Local + i * PageSize + o
           IN  /\ SCCPtr2Addr(p) = [lut |-> LOCAL_LUT + i, offset |-> o]
               /\ SCCAddr2Ptr(SCCPtr2Addr(p)) = p
      /\ \A i \in Index :
           LET p == remote + i * PageSize + o
               exact == i < HalfLut \/ o = 0
           IN  remote # MAP_FAILED =>
                 /\ exact => SCCPtr2Addr(p) = [lut |-> REMOTE_LUT + i, offset |-> o]
                 /\ exact \/ i + 1 < RemotePages => SCCAddr2Ptr(SCCPtr2Addr(p)) = p

(* Disjoint runs, and a refusal only if no run of that length is free. *)
Pages == INSTANCE Regions WITH Units <- Index, asked <- size, broken <- Astray

PagesSpec == Pages!Spec

(* Every call of SCCMallocLut returns. *)
MallocReturns == pc = "scan" ~> pc = "idle"
=============================================================================

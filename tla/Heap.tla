-------------------------------- MODULE Heap --------------------------------
(***************************************************************************)
(* The heap in the pages that the cores share: SCCMallocPtr and SCCFreePtr *)
(* of sccmalloc.c, as one process uses it.  A block is a header of one     *)
(* unit, [next, size], and size - 1 units for the caller; the free blocks  *)
(* form a circular list in the order of their addresses, which freeList    *)
(* points somewhere into.  Addresses are counted in units from the start   *)
(* of the mapping.  The heap is as long as the mapping, but begins a bit   *)
(* behind its start: its last units lie beyond the end of what is mapped.  *)
(*                                                                         *)
(* The searches of both are one step per block they look at.  From the     *)
(* moment that SCCFreePtr leaves freeList pointing at a header that is no  *)
(* longer the start of a block (`dangling') nothing is claimed, and the    *)
(* model makes no further calls.                                           *)
(***************************************************************************)
EXTENDS Integers

CONSTANTS
  First,       \* where the heap begins: 0x10 bytes into the mapping
  Units,       \* its length, as SCCInit computes it, and that of the mapping
  UnitBytes,   \* sizeof(block_t)
  SizeMod,     \* 2^w for the w bits of a size_t
  Sizes,       \* the sizes that callers ask for, in bytes
  Null, Junk   \* no block; memory that is no header

ASSUME HeapAssumption ==
  /\ First \in Nat /\ Units \in Nat \ {0} /\ UnitBytes \in Nat \ {0}
  /\ SizeMod \in Nat \ {0} /\ Sizes \subseteq 0..(SizeMod - 1)
  /\ Null \notin Int

VARIABLES
  hdr,        \* what each unit holds: a header or Junk
  freeList,
  pc,         \* "idle", "fit" and "place": the loops of malloc and free
  prev, curr, \* the loops' variables
  size,       \* argument of the SCCMallocPtr under way
  nunits,     \* `nunits' of that call, 0 without one
  block,      \* `block' of the SCCFreePtr under way
  held,       \* history: the blocks handed out, as sets of units
  lost,       \* history: those of them that SCCFree did not take back
  dangling    \* history: freeList is no longer the start of a free block

vars == <<hdr, freeList, pc, prev, curr, size, nunits, block, held, lost, dangling>>

Heap == First..(First + Units - 1)
Run(s, n) == s..(s + n - 1)

(* Slip: the quotient is not rounded up. *)
NunitsDown(n) == n \div UnitBytes + 1

(* The block for n bytes: the sum is one of size_t. *)
Nunits(n) == ((n + UnitBytes - 1) % SizeMod) \div UnitBytes + 1

-----------------------------------------------------------------------------
(* SCCInit. *)
Init ==
  /\ hdr = [i \in Heap |-> IF i = First THEN [next |-> First, size |-> Units] ELSE Junk]
  /\ freeList = First
  /\ pc = "idle" /\ prev = Null /\ curr = Null
  /\ size = 0 /\ nunits = 0 /\ block = Null
  /\ held = {} /\ lost = {} /\ dangling = FALSE

(* A call returns, and its variables are gone. *)
Done ==
  /\ pc' = "idle"
  /\ prev' = Null /\ curr' = Null /\ size' = 0 /\ nunits' = 0 /\ block' = Null

(***************************************************************************)
(* SCCMallocPtr.                                                           *)
(***************************************************************************)

(* With no free block at all it says so, and then follows the null pointer *)
(* all the same.                                                           *)
Malloc(n) ==
  /\ pc = "idle" /\ ~dangling
  /\ IF freeList = Null
       THEN pc' = "crashed" /\ UNCHANGED <<prev, curr, size, nunits>>
       ELSE /\ pc' = "fit" /\ size' = n /\ nunits' = Nunits(n)
            /\ prev' = freeList /\ curr' = hdr[freeList].next
  /\ UNCHANGED <<hdr, freeList, block, held, lost, dangling>>

(* The caller gets the block at curr, and writes all over it, the header   *)
(* excepted; the allocator has left h in the headers.                      *)
Grant(h) ==
  /\ hdr' = [i \in Heap |-> IF i \in Run(curr + 1, nunits - 1) THEN Junk ELSE h[i]]
  /\ held' = held \cup {Run(curr, nunits)}
  /\ Done
  /\ UNCHANGED <<lost, dangling>>

(* Slip: the last block to go is not told from any other. *)
TakeAllNull ==
  /\ pc = "fit" /\ hdr[curr].size = nunits
  /\ freeList' = Null /\ Grant([hdr EXCEPT ![prev].next = hdr[curr].next])

(* A block of the very size leaves the list. *)
TakeAll ==
  /\ pc = "fit" /\ hdr[curr].size = nunits
  /\ IF prev = curr
       THEN freeList' = Null /\ Grant(hdr)
       ELSE freeList' = prev /\ Grant([hdr EXCEPT ![prev].next = hdr[curr].next])

(* Slip: the rear part is not linked from the block before. *)
TakeFrontUnlinked ==
  /\ pc = "fit" /\ hdr[curr].size > nunits
  /\ LET new == curr + nunits
         cut == [hdr EXCEPT ![new] = [hdr[curr] EXCEPT !.size = @ - nunits],
                            ![curr].size = nunits]
         last == IF prev = curr THEN new ELSE prev
     IN  freeList' = last /\ Grant(cut)

(* A larger one is split: the rear part takes its place in the list. *)
TakeFront ==
  /\ pc = "fit" /\ hdr[curr].size > nunits
  /\ LET new == curr + nunits
         cut == [hdr EXCEPT ![new] = [hdr[curr] EXCEPT !.size = @ - nunits],
                            ![curr].size = nunits]
         last == IF prev = curr THEN new ELSE prev
     IN  freeList' = last /\ Grant([cut EXCEPT ![last].next = new])

(* Slip: the search goes round for ever. *)
TooSmallAgain ==
  /\ pc = "fit" /\ hdr[curr].size < nunits
  /\ prev' = curr /\ curr' = hdr[curr].next
  /\ UNCHANGED <<hdr, freeList, pc, size, nunits, block, held, lost, dangling>>

(* The header of the rear part lies beyond the mapping, where there may be *)
(* no memory.                                                              *)
Fault ==
  /\ pc = "fit" /\ hdr[curr].size > nunits
  /\ curr + nunits >= Units
  /\ pc' = "crashed"
  /\ UNCHANGED <<hdr, freeList, prev, curr, size, nunits, block, held, lost, dangling>>

(* Too small: the next block, or NULL once round. *)
TooSmall ==
  /\ pc = "fit" /\ hdr[curr].size < nunits
  /\ IF curr # freeList
       THEN prev' = curr /\ curr' = hdr[curr].next /\ UNCHANGED <<pc, size, nunits, block>>
       ELSE Done
  /\ UNCHANGED <<hdr, freeList, held, lost, dangling>>

(***************************************************************************)
(* SCCFreePtr.                                                             *)
(***************************************************************************)

(* If no other block is free, that is all there is to do. *)
SCCFreePtr(first, r) ==
  IF freeList = Null
    THEN /\ freeList' = first
         /\ hdr' = [hdr EXCEPT ![first].next = first]
         /\ held' = held \ {r}
         /\ UNCHANGED <<pc, curr, block>>
    ELSE /\ pc' = "place" /\ curr' = freeList /\ block' = first
         /\ UNCHANGED <<hdr, freeList, held>>

(* Slip: the first byte behind the local pages is not local. *)
FreeWithin(r) ==
  /\ pc = "idle" /\ ~dangling
  /\ \E first \in r :
       /\ \A i \in r : first <= i
       /\ \/ first + 1 < Units /\ SCCFreePtr(first, r) /\ UNCHANGED lost
          \/ first + 1 >= Units /\ lost' = lost \cup {r}
             /\ UNCHANGED <<hdr, freeList, pc, curr, block, held>>
  /\ UNCHANGED <<prev, size, nunits, dangling>>

(* A program passes block r, which it holds, to SCCFree, as a pointer one  *)
(* unit behind its header.  A pointer beyond the local pages is not taken. *)
Free(r) ==
  /\ pc = "idle" /\ ~dangling
  /\ \E first \in r :
       /\ \A i \in r : first <= i
       /\ \/ first + 1 <= Units /\ SCCFreePtr(first, r) /\ UNCHANGED lost
          \/ first + 1 > Units /\ lost' = lost \cup {r}
             /\ UNCHANGED <<hdr, freeList, pc, curr, block, held>>
  /\ UNCHANGED <<prev, size, nunits, dangling>>

(* The freed block belongs behind curr: between it and its successor, or   *)
(* at an end of the list.                                                  *)
BelongsHere ==
  LET next == hdr[curr].next
  IN  \/ curr < block /\ block < next
      \/ curr >= next /\ (curr < block \/ block < next)

Advance ==
  /\ pc = "place" /\ ~BelongsHere
  /\ curr' = hdr[curr].next
  /\ UNCHANGED <<hdr, freeList, pc, prev, size, nunits, block, held, lost, dangling>>

(* It absorbs its successor if that adjoins, and is absorbed by curr.  If  *)
(* the successor is curr itself, freeList remains on what was absorbed.    *)
MergedWithNext ==
  LET next == hdr[curr].next
  IN  IF block + hdr[block].size = next
        THEN [hdr EXCEPT ![block] =
                [next |-> IF curr = next THEN block ELSE hdr[next].next,
                 size |-> hdr[block].size + hdr[next].size]]
        ELSE [hdr EXCEPT ![block].next = next]

(* Slip: the block before does not absorb the freed one. *)
JoinedOnlyNext ==
  [MergedWithNext EXCEPT ![curr].next = block]

(* The headers once block is in the list. *)
Joined ==
  LET h == MergedWithNext
  IN  IF curr + h[curr].size = block
        THEN [h EXCEPT ![curr] = [next |-> h[block].next,
                                  size |-> h[curr].size + h[block].size]]
        ELSE [h EXCEPT ![curr].next = block]

Place ==
  /\ pc = "place" /\ BelongsHere
  /\ hdr' = Joined
  /\ freeList' = curr
  /\ dangling' = (hdr[curr].next = curr /\ block + hdr[block].size = curr)
  /\ held' = {r \in held : block \notin r}
  /\ Done
  /\ UNCHANGED lost

-----------------------------------------------------------------------------
Searching == TakeAll \/ TakeFront \/ TooSmall \/ Advance \/ Place

Next ==
  \/ \E n \in Sizes : Malloc(n)
  \/ \E r \in held \ lost : Free(r)
  \/ Searching \/ Fault

(* A call that has begun goes on. *)
Spec == Init /\ [][Next]_vars /\ WF_vars(Searching)

-----------------------------------------------------------------------------
(***************************************************************************)
(* Properties.                                                             *)
(***************************************************************************)

(* The units that nobody holds, and where longest runs of them begin. *)
Idle == Heap \ UNION held
Starts == {s \in Idle : s - 1 \notin Idle}

(* The list is what SCCMallocPtr and SCCFreePtr take it for: one header    *)
(* per longest run of free units, with its length, linked in the order of  *)
(* addresses all the way round, freeList on one of them; every block       *)
(* handed out still has its length, though callers write all over theirs.  *)
(* So it is up to the moment that freeList dangles.                        *)
FreeListSound ==
  ~dangling =>
    /\ IF Idle = {} THEN freeList = Null ELSE freeList \in Starts
    /\ \A s \in Starts :
         LET next == hdr[s].next
             end  == s + hdr[s].size
         IN  /\ Run(s, hdr[s].size) \subseteq Idle /\ end \notin Idle
             /\ next \in Starts
             /\ \A t \in Starts :
                  IF s < next THEN t <= s \/ next <= t ELSE next <= t /\ t <= s
    /\ \A r \in held : \E s \in r : r = Run(s, hdr[s].size)

(* Disjoint blocks, and NULL only if no run of that length is free: up to  *)
(* the moment that freeList dangles.                                       *)
Blocks == INSTANCE Regions WITH Units <- Heap, asked <- nunits, broken <- dangling

BlocksSpec == Blocks!Spec

(* A program crashes in SCCMallocPtr only with every unit handed out, or   *)
(* when the block it gets reaches to the very end of the mapping.          *)
CrashOnlyAtTheEnd ==
  pc = "crashed" => \/ Idle = {}
                    \/ curr # Null /\ curr + nunits >= Units

(* SCCFree gives back whatever lies in the mapping, be it with a single    *)
(* unit: only blocks wholly behind its end leak.                           *)
LeaksOnlyBehindTheEnd == \A r \in lost : r \cap 0..(Units - 1) = {}

(* That the heap begins behind the start of the mapping but is as long as  *)
(* the mapping does no other harm than these.                              *)
HarmOnlyAtTheEnd == CrashOnlyAtTheEnd /\ LeaksOnlyBehindTheEnd

(* The block searched for has room for what was asked, as long as the sum  *)
(* in the computation of nunits does not exceed a size_t.                  *)
RoomForRequest ==
  pc = "fit" => \/ (nunits - 1) * UnitBytes >= size
                \/ size > SizeMod - UnitBytes

(* Every call that does not crash returns. *)
CallsReturn == pc \in {"fit", "place"} ~> pc \in {"idle", "crashed"}
=============================================================================

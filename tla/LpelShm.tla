------------------------------ MODULE LpelShm -------------------------------
(***************************************************************************)
(* The allocator of off-chip shared memory in LPEL_shmalloc.c: a circular  *)
(* list of blocks in the order of their addresses.  The sequence `blocks'  *)
(* is that list from the block after the tail round to the tail, which is  *)
(* thus the last.                                                          *)
(*                                                                         *)
(* free_size is 0 for a block handed out.  The tail ends the list: what it *)
(* has left may be 0, and its own address is never handed out then.        *)
(*                                                                         *)
(* The search of LPEL_shmalloc and that of LPEL_shfree are one step per    *)
(* block they look at.                                                     *)
(***************************************************************************)
EXTENDS Integers, Sequences

CONSTANTS
  Size,      \* bytes of managed memory (256 K in LPEL_shmalloc_init)
  Sizes,     \* the sizes that callers ask for, 0 included
  Stray      \* addresses that callers free without holding them

ASSUME LpelAssumption ==
  /\ Size \in Nat \ {0}
  /\ Sizes \subseteq Nat
  /\ Stray \subseteq 0..Size

VARIABLES
  blocks,    \* the list: [space, free_size], the tail last
  pc,        \* "idle", "fit" and "find": the loops of shmalloc and shfree
  b,         \* index of the block b1->next in the loop
  size,      \* argument of the shmalloc under way, 0 without one
  ptr,       \* argument of the shfree under way
  held       \* history: what was handed out, as sets of addresses

vars == <<blocks, pc, b, size, ptr, held>>

Bytes == 0..(Size - 1)
Run(s, n) == s..(s + n - 1)

Block(space, free_size) == [space |-> space, free_size |-> free_size]

tail == Len(blocks)

(* The sequence s with the elements from i to j replaced by those of t.    *)
Splice(s, i, j, t) == SubSeq(s, 1, i - 1) \o t \o SubSeq(s, j + 1, Len(s))

-----------------------------------------------------------------------------
Init ==
  /\ blocks = <<Block(0, Size)>>
  /\ pc = "idle" /\ b = 0 /\ size = 0 /\ ptr = 0
  /\ held = {}

(* A call returns. *)
Done == pc' = "idle" /\ b' = 0 /\ size' = 0 /\ ptr' = 0

(***************************************************************************)
(* LPEL_shmalloc.                                                          *)
(***************************************************************************)

(* A call for 0 bytes returns at once. *)
Malloc(n) ==
  /\ pc = "idle"
  /\ IF n = 0 THEN UNCHANGED <<pc, b, size>>
              ELSE pc' = "tail" /\ size' = n /\ b' = 1
  /\ UNCHANGED <<blocks, ptr, held>>

(* The tail has enough: its rest, be it nothing, becomes the new tail. *)
TakeFromTail ==
  /\ pc = "tail" /\ blocks[tail].free_size >= size
  /\ LET t == blocks[tail]
     IN  /\ blocks' = Splice(blocks, tail, tail,
                        <<Block(t.space, 0), Block(t.space + size, t.free_size - size)>>)
         /\ held' = held \cup {Run(t.space, size)}
  /\ Done

PassTail ==
  /\ pc = "tail" /\ blocks[tail].free_size < size
  /\ pc' = "fit"
  /\ UNCHANGED <<blocks, b, size, ptr, held>>

(* The block at b is too small: the next, or NULL after the tail. *)
SkipBlock ==
  /\ pc = "fit" /\ blocks[b].free_size < size
  /\ IF b = tail THEN Done ELSE b' = b + 1 /\ UNCHANGED <<pc, size, ptr>>
  /\ UNCHANGED <<blocks, held>>

(* Slip: what is left over is not reduced by what is taken. *)
DivideUncut(t) ==
  IF t.free_size > size
    THEN <<Block(t.space, 0), Block(t.space + size, t.free_size)>>
    ELSE <<Block(t.space, 0)>>

(* What becomes of a block t: what is too much is a block of its own. *)
Divide(t) ==
  IF t.free_size > size
    THEN <<Block(t.space, 0), Block(t.space + size, t.free_size - size)>>
    ELSE <<Block(t.space, 0)>>

(* The block at b is large enough. *)
TakeBlock ==
  /\ pc = "fit" /\ blocks[b].free_size >= size
  /\ blocks' = Splice(blocks, b, b, Divide(blocks[b]))
  /\ held' = held \cup {Run(blocks[b].space, size)}
  /\ Done

(***************************************************************************)
(* LPEL_shfree.                                                            *)
(***************************************************************************)

(* A program frees what it holds, or an address that it does not hold. *)
Free(p) ==
  /\ pc = "idle"
  /\ p \in Stray \/ \E r \in held : p \in r /\ \A i \in r : p <= i
  /\ pc' = "find" /\ ptr' = p /\ b' = 1
  /\ UNCHANGED <<blocks, size, held>>

Pass ==
  /\ pc = "find" /\ b # tail /\ blocks[b].space # ptr
  /\ b' = b + 1
  /\ UNCHANGED <<blocks, pc, size, ptr, held>>

(* Nothing is freed at the tail. *)
NotFound ==
  /\ pc = "find" /\ b = tail
  /\ Done
  /\ UNCHANGED <<blocks, held>>

(* Slip: a tail with nothing left is not merged. *)
JoinsFree(i) == blocks[i].free_size > 0

(* The block at i joins the freed block before it: it is free or the tail. *)
Joins(i) == blocks[i].free_size > 0 \/ i = tail

(* Slip: a block that is free already counts twice. *)
SpanKept(i) == blocks[i].free_size + (blocks[i + 1].space - blocks[i].space)

(* The whole of the block at i. *)
Span(i) == blocks[i + 1].space - blocks[i].space

(* The block is freed and merged with the block before it, if that is      *)
(* free, and with the block behind it, if that joins.                      *)
Release ==
  /\ pc = "find" /\ b # tail /\ blocks[b].space = ptr
  /\ LET j1 == b > 1 /\ blocks[b - 1].free_size > 0
         j2 == Joins(b + 1)
         b1 == IF j1 THEN blocks[b - 1] ELSE Block(ptr, 0)
         b3 == IF j2 THEN blocks[b + 1].free_size ELSE 0
     IN  blocks' = Splice(blocks,
                     IF j1 THEN b - 1 ELSE b,
                     IF j2 THEN b + 1 ELSE b,
                     <<Block(b1.space, b1.free_size + Span(b) + b3)>>)
  /\ held' = {r \in held : ptr \notin r}
  /\ Done

-----------------------------------------------------------------------------
Working == TakeFromTail \/ PassTail \/ SkipBlock \/ TakeBlock \/ Pass \/ NotFound \/ Release

Next ==
  \/ \E n \in Sizes : Malloc(n)
  \/ \E p \in 0..Size : Free(p)
  \/ Working

Spec == Init /\ [][Next]_vars

-----------------------------------------------------------------------------
(***************************************************************************)
(* Properties.                                                             *)
(***************************************************************************)

(* "A block is either completely malloced (free_size = 0), or completely   *)
(* free (free_size > 0).  The space field always points to the beginning   *)
(* of the block": the list tiles the memory, and all that can be merged    *)
(* has been, so that no two blocks in a row are free.                      *)
BlocksTile ==
  /\ blocks[1].space = 0
  /\ blocks[tail].space + blocks[tail].free_size = Size
  /\ \A i \in 1..(tail - 1) :
       LET run == blocks[i].space..(blocks[i + 1].space - 1)
       IN  /\ run # {}
           /\ IF blocks[i].free_size = 0
                THEN run \in held
                ELSE /\ blocks[i].free_size = blocks[i + 1].space - blocks[i].space
                     /\ run \cap UNION held = {}
                     /\ i + 1 # tail /\ blocks[i + 1].free_size = 0

(* Disjoint runs, and NULL only if no run of that length is free. *)
Shm == INSTANCE Regions WITH Units <- Bytes, asked <- size, broken <- FALSE

ShmSpec == Shm!Spec

(* Freeing an address that nobody holds, a second free included, changes   *)
(* nothing.                                                                *)
StrayFreeIsHarmless ==
  [][pc = "find" /\ held' = held => blocks' = blocks]_vars

=============================================================================

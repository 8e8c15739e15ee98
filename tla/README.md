# SCC-SHM: a verification project

SCC-SHM is a small C library for Intel's Single-chip Cloud Computer: 48 cores
on 24 tiles, no cache coherence, a message passing buffer (MPB) of 8 KB per
core, a test-and-set lock register per core, atomic increment registers (AIR)
in an FPGA, and off-chip memory that cores share by pointing entries of their
lookup tables (LUT) at the same physical pages. The library lets cores send
each other bytes through rings in the MPB and allocate in the shared memory.

This directory holds TLA+ modules for that library, TLC configurations that
check small instances, and TLAPS proofs for all instances.

## 1. Inventory

| Part | Code | State | Operations | Who else touches it |
|---|---|---|---|---|
| Message ring | `scc.h` 20-27, 57-163 | START, END, WRITING and B_SIZE bytes in a node's MPB; its lock register | `lock`, `unlock`, `start_write_node`, `cpy_mem_to_mpb`, `stop_write_node`, `cpy_mpb_to_mem` | every core writes, the owner (by intent) reads |
| Heap | `sccmalloc.c` 18-24, 103-105, 124-195 | headers in the shared pages; `freeList`, one per process | `SCCMallocPtr`, `SCCFreePtr` | every process, on the same pages |
| Remote LUT allocator | `sccmalloc.c` 26-29, 107-112, 197-243 | `lutState`, private | `SCCMallocLut`, `SCCFreeLut` | nobody |
| LPEL allocator | `LPEL_shmalloc.c` | circular block list, private | `LPEL_shmalloc_init`, `LPEL_shmalloc`, `LPEL_shfree` | nobody; collective by convention |
| Core map | `scc.c` 22-69, `SCCAPI.h` 50-144, `SCCAPI.c` 136-195 | `node_location`, `mpbs`, `locks`, `irq_pins`, `luts` | first half of `SccInit`, `MallocConfigReg`, `MPBalloc`, `SccCleanup` | fixed after start-up |
| Start-up | `scc.c` 22-103, `sccmalloc.c` 73-113 | LUT entries, ring header, heap header, AIRs | `SccInit`, `SCCInit` | peers that are ahead |
| AIR | `scc.c` 36-38, 55-68, 126-159 | registers in the FPGA | `atomic_inc/dec/read/write` | every core |
| Address translation | `sccmalloc.c` 41-71, 245-263 | none of its own | `SCCPtr2Addr`, `SCCAddr2Ptr`, `SCCFree`, `get_ptr`, `get_addr` | |
| Configuration registers | `SCCAPI.c` 60-126 | the chip's registers | `SetConfigBit`, `SetConfigReg`, `ReadConfigReg` | every core |
| Mailbox demonstration | `mailbox.c` | a mailbox and a string per node in shared memory | `main` | two nodes |
| AIR tests | `air.c` | | `test`, `test1` | any number of nodes |
| Copy routines | `scc.c` 187-248 | | `memcpy_get`, `memcpy_put` | called by nobody |

Parts meet as follows. `SccInit` fills the tables through which the ring
operations reach another core's MPB and lock, copies ten LUT entries of one
core so that everybody's first ten local pages are the same memory, resets the
core's own ring and calls `SCCInit`, which lays the heap over the local pages
and the LUT allocator over the remaining ones. A program then allocates in the
heap, turns the pointer into an offset (`get_ptr`), sends the offset through a
ring, and the receiver turns it back (`get_addr`).

What is hard here:

* **Interleaving.** Writers of a ring exclude each other by a spinlock *and* a
  flag, because a writer that finds no room gives up the lock in the middle of
  its message; the reader takes no lock at all.
* **Boundaries.** START = END means empty; one byte stays free, but only
  where it has to; copies stop at the end of the ring; LUT runs, heap blocks
  and LPEL blocks are split and merged at both ends; the remote pages make up more
  than half of the addresses there are, and distances between pointers are signed.
* **Ordering at start-up.** There is no barrier. A node resets its ring, and
  node 0 all AIRs, whenever it gets there; the chip keeps what the last
  program left.
* **Incoherent caches.** A header field or byte is fresh only where a `flush`
  or `FOOL_WRITE_COMBINE` makes it so, and an unlock is not held up by either.
  The shared pages are mapped through the caches and flushed by nobody.
* **Sharing without a protocol.** Every process lays its own heap over the
  shared pages and keeps its own `freeList` for it.
* **Failure.** A program that exits in `cpy_mem_to_mpb` keeps the lock; failed
  mappings of memory are not noticed. The chip keeps headers, locks, words and pages
  for the next run.
* **Long sequences of calls.** The allocators' invariants must survive any order
  of requests and releases.

`PROJECT.json` lists each hazard with its line and the properties that cover
it, or why none does yet.

## 2. Modules

| Module | What it is |
|---|---|
| `ByteFifo` | abstract: a bounded lossless FIFO of bytes |
| `MpbRing`, `MCMpbRing` | the ring of `scc.h`, writers and a reader; refines `ByteFifo` |
| `MpbVisibility`, `MCMpbVisibility` | the same ring with L1 caches and write-combining buffers; refines `MpbRing` |
| `Boot`, `MCBoot` | the owner's `SccInit` against cores that already send; extends `MpbRing` |
| `Mailbox`, `MCMailbox` | the program `mailbox.c`: rings without the lock and as an earlier run left them, pointers, one heap for all |
| `Regions` | abstract: disjoint runs of units, a refusal only if nothing fits |
| `Heap` | `SCCMallocPtr`/`SCCFreePtr`; refines `Regions` until `freeList` dangles |
| `LutAlloc`, `MCLutAlloc` | `SCCMallocLut`/`SCCFreeLut`, address translation and the dispatch of `SCCFree`; refines `Regions` |
| `LpelShm` | `LPEL_shmalloc`/`LPEL_shfree`; refines `Regions` |
| `CoreMap` | tile ID, address macros, tables, copied LUT entries, windows of memory, clean-up |
| `Air`, `MCAir` | atomic increment registers under the protocol of `test1` in `air.c` |
| `MpbRingProofs` | the ring: types, mutual exclusion, race freedom, the refinement; WRITING, contiguity and order |
| `MpbVisibilityProofs` | what caches and buffers hold; the refinement of the ring |
| `BootProofs` | the ring after a reset, the lock as it was left, and the bounds |
| `MailboxProofs` | the one mailbox, while nobody comes out of turn |
| `SccInitProofs` | tables, shared pages and clean-up of a core; the AIRs and the gate |
| `LutAllocProofs` | the table of the remote LUT entries; addresses; the refinement |
| `LpelShmProofs` | the block list; stray frees; the refinement |
| `HeapProofs` | the free list until it dangles; the end of the mapping; the refinement |

Definitions headed *Slip* in a module are plausible wrong versions of the
definition after them. No specification uses them: putting one in the place of
the right one must break the property that PROJECT.json names with it, which
shows that the property can fail.

### The ring (`MpbRing`)

One action per atomic piece of code, named for what it does:
`Send` (the call), `Acquire` (the read of the lock register that succeeds),
`BackOff` and `Admit` (the test of WRITING in `start_write_node`), `Exit` and
`Raise` (the head of `cpy_mem_to_mpb`), `Reserve` and `Wait` (a round of its
loop, up to the memcpy or the unlock), `Relock`, `Copy`, `Publish`, `Stop`;
`ReadCall`, `ReadChunk`, `ReadReturn` for `cpy_mpb_to_mem`. `pc[w]` says which
comes next. The locals `size`, `end`, `free` of `cpy_mem_to_mpb` are `left`,
`wend`, `free`; those of `cpy_mpb_to_mem` are `rstart`, `rend`, `rleft`, `rdst`.

A byte is `<<core, number of the message, bytes to come>>`, so that order, loss
and duplication are visible. History variables: `stream` and `delivered` (what
was published and handed out), `overread` (a caller asked for more than was
published; the code does not check) and `split` (messages that gave up the lock
with WRITING down).

Memory is coherent here: `flush` and `FOOL_WRITE_COMBINE` do nothing, and a
store is visible at once; `MpbVisibility` justifies that. A memcpy is one step:
`WindowsDisjoint` shows that no two overlap, so nothing can tell; after an
over-read nothing but the types is claimed. The store of END and that of WRITING
(scc.h:159-160) are one step: the reader never looks at WRITING, and writers look
at it with the lock, which the publishing core holds.

What the code does and what it does not:

* It is a FIFO, races are excluded, and what one core sends arrives complete
  and in order (`FifoSpec`, `WindowsDisjoint`, `PerCoreOrder`).
* A message is *not* always contiguous. `Publish` lowers WRITING after the first
  part (scc.h:160), so if the writer then waits for room another core can come
  in between. `WholeUnlessSplit` and `SoleWriterUntilSplit` say that this is the
  only way.
* A message of no bytes leaves WRITING up (scc.h:135, 138): `WritingComesDown` says
  that nothing else does. A message of B_SIZE bytes or more leaves the lock
  taken (131): `ExitBlocksTheRing`.

### The ring and the caches (`MpbVisibility`)

The same operations, with every `flush` and `FOOL_WRITE_COMBINE` at its place and
each load and store taken through the core's L1 and its write-combining buffer
(`l1`, `wcb`; `mem` is what lies in the message buffer). `RingSpec` is the
refinement of `MpbRing`: a header field changes, for the ring, when its write is
drained. `NothingHeldBack` says that a core without the lock has nothing left to
drain; the lock register bypasses both caches, so an unlock could overtake. It is about
the write-combining buffer. `NoWriteStaysInL1` is about the L1: no store hits a line that
is there, where it would stay.

The hardware is external to `src/` and modelled from what the macros count on,
at its worst: a line that was read stays in L1 until `flush`; a write that hits L1
stays there; the buffer holds one line, is drained when another line is written,
and may be drained at any time before. Start and end are read from one line, hence
together. Readers ask for published bytes only.

### Start-up against senders (`Boot`)

`Boot` adds to `MpbRing` the last part of the owner's `SccInit` (scc.c:91-100), one
step per store (`ResetStart`, `ResetEnd`, `ResetWriting`, `Unlock`), and its
restart at any time; the header, the lock and the payload begin with whatever the
last program left. Senders know nothing of it. Writing `taken` for "the lock was
taken by nobody who runs", `raced` for "somebody was sending, or got the lock, while
`SccInit` was at work", and `gone` for the cores that had exited by then:

* `FreshUnlessRaced`: unless raced, the ring is as new, whatever was in it.
* `TakenLockProtects`: with the lock left taken there is no race. With the lock
  free there can be, and then two writers may have the lock. The comment at
  scc.c:93 speaks of avoiding a cross-core race, but of HANDLING, which nobody
  reads; nothing in the repository claims that the reset is safe under senders, so
  this is no finding: the run's properties say what remains true.
* `StaysInRing`: even when raced no index or memcpy leaves the ring.
* `SendersGetThrough`: a restart of the owner cures a lock that an exited core
  has left; without a race no sender waits for ever.

`HANDLING` itself is left out.

### A program on all of it (`Mailbox`)

`mailbox.c` sends a word through rings without `start_write_node`, and follows
pointers into memory in which all nodes run the allocator. Each node: `Boot` and `ResetEnd`
(its own ring, START before END), `SCCInit` and the unlock, then
*make* (two allocations, the string, the offset into the ring, the wait) and *reply*
(an offset from a ring, the other's string replaced), in this order for node 0 and
the other way round for the others. A third node is in the instance, since any
node but 0 takes the second role.

Nothing is clean at the beginning. A ring has any header and any lock until its owner resets
it; the shared pages and the words in the rings are junk or what the last run of this
program left. `Leftover` is the constant for headers and locks: the run takes a word that
nobody has read, START past END, and a full ring, the three that three nodes leave; the proofs
take any. Nor are the pages coherent: they are mapped through the caches
(sccmalloc.c:84, 93), and no `flush` of `scc.h` reaches these. `Miss` is a node that reads
something older than what another has written there. What it then does is anything, and is
not followed.

That it works at all rests on a coincidence the model brings out: every `SCCInit`
writes the heap's first header anew, so that both nodes allocate *the same* mailbox
and the same string in it, and the handshake is over one string. `outOfTurn` is the
history of what breaks it: a read from an empty ring (the code does not check), the use of a
ring that its owner has not reset yet, an allocation in a heap that another has allocated from
since, a change of the shared pages missed.
`InTurnAllShareOneMailbox` says that nothing else leads to a wild pointer or to the
wait for room that would unlock a foreign lock; `Finishes` that the handshake ends, if
none of this happens and no node goes on waiting for ever although its string has changed.
Both are statements about runs that go well in these respects: the code takes care of none of
them. `sleep` orders nothing and is left out.

### The allocators (`Heap`, `LutAlloc`, `LpelShm`)

Each is one process's view. A call is a step that starts it, one step per block
or run that its search looks at, and a step that changes the structure and
returns. `held`, the history of what callers have, maps to `held` of `Regions`.

* `LutAlloc`: `lutState` is the C array, entries inside runs keep what was there;
  Init lets the fresh table hold misleading entries. `TagsMatchHeld`: both ends of
  every run handed out, and of every longest free run, are tagged right.
  Callers hold pointers, and `SCCFree` has to tell by its value which allocator a
  pointer is from. Its test of the local range includes the first byte behind it
  (sccmalloc.c:247), so if the kernel maps the remote pages there, their first page
  goes to the wrong allocator. `FreesComeBack` says that this is the only way,
  also for pointers to heap blocks at the overhang, but for remote pages that could not be
  mapped: SCCInit does not notice (line 100), and the table hands out entries all the same.

  Arithmetic is that of the machine. A LUT has 256 entries of 16 MiB, all the addresses of
  32 bits (`Word`), and SCCFreeLut, SCCPtr2Addr and SCCAddr2Ptr compute with signed
  distances, quotients and remainders that truncate towards zero (`Signed`, `Quot`, `Rem`). The
  remote pages can be 142, more than the 128 that make 2 GiB; whether the kernel ever
  finds that many addresses in one piece is its affair. From entry 128 on the index that
  SCCFreeLut computes is negative, and it works in front of the table.
  `FreesComeBack` says also that only runs that begin there, or were not mapped, get lost.
  `PointersRoundTrip`: which bytes convert into the address they should and back; beyond 2 GiB
  only the first of each page gets its address, and the last page does not convert back.
  What a free in front of the table destroys depends on what `malloc` put there: the model
  records it (`missed`, as `strayed` does for the wrong allocator) and makes no further calls;
  the other properties are claimed up to there. No text of the repository says how many pages
  can be had or that these conversions are exact, so this is no finding.
* `LpelShm`: the circular list is a sequence that ends with the tail. Frees of
  addresses that were never handed out, or twice, are included.
  `BlocksTile` states the header comment (LPEL_shmalloc.c:71-79).
* `Heap`: `hdr` is the memory, a header where the code put one; a caller
  overwrites its block. `FreeListSound`: the list has exactly one header per
  longest free run, sorted, circular. It holds **until** a block is freed that
  lies directly before the *only* free block: SCCFreePtr then merges the two at the
  freed block, but sets `freeList` to the absorbed one (sccmalloc.c:180-182, 194).
  `p = malloc; free(p); malloc` on a fresh heap does this: the remainder of the heap is the
  only free block and p lies directly before it. The next SCCMallocPtr starts from a
  header inside another block, and memory can be handed out twice. No document
  or test of the repository states the contrary, so this is no *finding* but a
  variable, `dangling`: the model records the moment, makes no further
  calls, and the properties are claimed up to there.
  The heap begins 16 bytes into the mapping but is computed from all of it, so its
  last units lie behind the end. `HarmOnlyAtTheEnd`: a program crashes only by the
  null pointer of line 133, with all memory out, or when its block reaches to the
  end of the mapping, and `SCCFree` fails to take back only what
  lies wholly behind it. `RoomForRequest` names the sizes whose rounding wraps.

### Tables and registers (`CoreMap`, `Air`)

`CoreMap` runs the tile-ID decoding and the table loop on each of the 48 cores.
Addresses are pairs of LUT entry and offset. The reference is the table of
symbols in SCCAPI.h:74-125, row by row, against the computed addresses of
`CRB_ADDR` and `MPB_ADDR`. A mapping is whole pages, so that the property can say
that all 256 entries of a LUT lie in the page mapped (they end at its very end).
The layout of the chip's register is a constant: `CoreMap.cfg` has the layout that
the code assumes, `CoreMapHeader.cfg` the one of SCCAPI.h:211-212.

Then ten LUT entries are copied from core 9 (num_nodes + 1) and `SCCInit` maps its
two windows. `SharedPagesAreShared`: of the 30 pages under the heap (`num_pages`
counts from 20 to 30, and as many are mapped from entry 20 on) the first ten are the same memory
on every core and the others each core's own, none is a page of Linux except on core 9,
and the remote window ends where the message buffers begin.
`CleanupUnmaps`: `SccCleanup` unmaps the 48 message buffers and locks and leaves the
interrupt and LUT registers mapped. A failed mmap of the memory is compared with
NULL (sccmalloc.c:94, 100) and not recognised. Of the local pages it ends in `Crash`, when the
heap's header is written; of the remote pages the program goes on (`LutAlloc`).

`Air` has registers 0 and 1, the reset by node 0 in `SccInit`, and the protocol of `test1` in
`air.c`, a gate behind which the others collect node 0's work. The registers hold anything at
first, and nobody waits for the reset: `early` is the history of nodes that found the gate open
before node 0 had closed it, and `GateShowsWork` says that all the others see node 0's work and nothing
else. The protocol is modelled as that of a client of `scc.c`; there is no such program.
`air.c` does not compile (it passes an `AIR` by value where its `atomic_inc` uses a pointer), that
`atomic_inc` would touch no register, it has its own start-up, and its `main` has the call of
`test1` commented out.

## 3. Runs

| Run | Instance | States | Question |
|---|---|---|---|
| `ring_shared` | 2 cores, 2 messages of 1 or 3 bytes each, ring of 4, reads of 1 or 2 bytes, at most 5 | 2,416,543 | FIFO, races, contiguity, order |
| `ring_fair` | 2 cores, 2 messages each of 0, 2 or 3 (too big) bytes, ring of 3, fair | 42,548 | does traffic flow, does every byte arrive; what odd sizes leave behind |
| `visibility` | 2 cores, 2 messages of 3 or 4 bytes, ring of 4 in lines of 2, at most 7 bytes read | 1,001,309 | is every flush where it must be |
| `boot` | 2 cores, 1 message each of 1, 2 or 3 (too big) bytes, ring of 3, any header left, 1 restart | 367,692 | what a reset under senders breaks and what not |
| `mailbox` | 3 nodes, 2 rings of 8 halves of a word with 3 headers left, heap of 8 units | 1,434,456 | what leads to a crash, and what does not |
| `mailbox_finishes` | the same, with a word left unread in each ring | 602,230 | does the handshake end |
| `lut_alloc` | 7 remote pages of 3 bytes, 2 of them beyond half of the addresses, behind or beyond 1 local one, or nowhere; 1, 2, 4 or 7 at a time | 82,761 | tags, disjointness, refusals, lost runs, pointers |
| `lpel_shm` | 7 bytes; sizes 0, 1, 2, 3, 8 | 24,310 | tiling, disjointness, stray frees |
| `heap` | 6 units of 2 bytes, from unit 2 on, size_t of 4 bits; sizes 0, 1, 3, 15 | 412,860 | free list, disjointness, the end, wrap |
| `core_map` | all 48 cores | 7,631 | tables, macros, shared pages, clean-up |
| `core_map_header` | the header's register layout | violation | finding |
| `air` | 4 nodes, power-up or 2 states left by a run | 17,917 | the gate |

Why the bounds are enough. A ring of 4 bytes has every shape of the free area
(START before, at, after END; START = 0), and messages of 3 bytes fit whole, in
two parts or in three; two messages per core make a split message meet another
core's. Two writers suffice for every conflict (the properties relate two
cores), and MpbRingProofs removes the bound. Six units let a free block have
free, held or no neighbours on either side in every combination, and the sizes
include an exact fit, a split, the whole and more than there is. In `visibility`
the payload has two lines besides the header's, so every store meets a buffer with
another line and with its own; messages of 3 bytes cross a line and wrap.
In `boot` every header of the ring, lock and WRITING included, is an initial state, and
one restart finds the ring in every state that senders can bring it to. In `ring_fair` a
message takes the whole ring, so that all but the first have to wait for the reader, and a core comes
back with its second while the other is kept out. In `mailbox`
the rings are long enough not to come round within a run, as in the program, but what earlier
runs left may come round, or be full; the words are junk or the offset of a run before; the heap
has room for the allocations of one node but not of two, so that it runs out as well;
`MailboxProofs` removes these bounds. In `lut_alloc` a
word is as short as 10 pages of 3 bytes, so that half of it is passed within 7 pages; remote
pages in front of the local ones do not fit into it then, although that is where 142 of them come to lie
if `SCCInit` is given 30 (behind address 2572472320 and 30 pages there is room for 72); for the search, the
table and the distances it makes no difference, and `LutAllocProofs` has both. The
counter bounds (`MaxMsgs`, `MaxRead`, `MaxRestarts`) only stop calls from beginning.

Deadlock is checked except where a program really stops: `ring_fair`, `boot` and
`visibility` (after an exit with the lock held, and once `MaxMsgs` messages are sent),
`heap` (after a crash, and, in the model, once the free list dangles), `mailbox` and
`mailbox_finishes` (the program ends).

### Fairness

`MpbRing!FairSpec`: each core keeps running (WF of its steps); no core loses
every race for the lock register (SF of `Acquire` and `Relock`): the register
is a test-and-set that the mesh arbitrates, and the code has no queue, so this
is an assumption about the hardware; the reader asks for bytes
when enough are there. Liveness is claimed only if the reader never asks for
more than is published, and of the ring as a whole: `TrafficFlows`, with senders at work
another byte is published or they finish (but for a lock kept by an exit and a WRITING left
up by an empty message), and `BytesArrive`, what is published is read. A *single* sender may starve as
long as others keep sending: each time it gets the lock it can find WRITING up and have to
give the lock back (scc.h:84-89). No fairness of the hardware mends that, and nothing is claimed
of it. `Boot`: the same, and `SccInit` runs to its end; nothing obliges anyone to start the owner again.
`Mailbox`: nodes 0 and 1 are started, a third need not be, and what runs goes on, but for
the wait for a string: that it ends is a condition of `Finishes`, as it takes a cache that
lets go of the old one.
`Heap` and `LutAlloc`: a call that has begun goes on (WF). `Air`: each node keeps
running. `LpelShm`, `CoreMap` and `MpbVisibility` claim no liveness.

## 4. Proofs

For all rings of 2 to 65536 bytes, any set of cores, any message and read sizes:

* `TypeCorrect`: `Spec => []TypeOK`, even after an over-read.
* `LockExcludes`: `Spec => []MutualExclusion`. `locked` is equivalent to some core
  being at a label between `lock` and `unlock`, and no two are: inductive together
  with `TypeOK`.
* `NoRacingCopies`: `Spec => []WindowsDisjoint`.
* `RingIsFifo`: `Spec => FifoSpec`.
* `OneWriterUntilSplit`, `WritingGoesDown`, `MessagesWholeUnlessSplit`,
  `BytesInOrder`, `ExitIsFinal`: what is said above of WRITING, of contiguity, of
  order and of an exit (`SoleWriterUntilSplit`, `WritingComesDown`,
  `WholeUnlessSplit`, `PerCoreOrder`, `ExitBlocksTheRing`).

`NoRacingCopies` and `RingIsFifo` need `IInv`, the conjunction of types, mutual
exclusion and `DataInv`:
as long as no caller has asked for too much, `delivered` is a prefix of `stream`,
END is START plus what lies between them (`RingInv`) and the ring holds those
bytes; the writer with the lock has room that its snapshot of START
promised, as the reader can only have made more since, and the room
holds its chunk once copied (`WriterInv`); the reader has copied what follows
`delivered` and its indices are ahead of START by that much (`ReaderInv`).
`FifoSpec` is not inductive without these: that `ReadReturn` delivers the right bytes
depends on what the buffer holds at indices the reader's loop has passed, and those
depend on where writers may write. There is one lemma per action that touches
the data (`ReserveData`, `CopyData`, `PublishData`, `ReadCallData`,
`ReadChunkData`, `ReadReturnData`), one for all others (`QuietData`), and lemmas
for the modular arithmetic of ring positions (`UsedAdvance`, `UsedAdd`, ...). These lemmas
need no more of the lock than that no two cores copy at once (`CopyInv`).
`IInv` was checked with TLC on the instance of `ring_shared` before.

The order theorems have inductive invariants of their own, on top of types and
exclusion, and need nothing of `DataInv`: `SoleInv` (until a split, whoever is about to
raise WRITING finds it down, and whoever waits for room has it up), `DownInv` (a
message with nothing left has either published a byte and lowered WRITING, or published
none), `WholeInv` (if the last byte published is neither the last of its message nor of
a split one, its core has the lock and goes on with the next) and `OrderInv` (a core's
last byte in `stream` is the one before the byte that it publishes next).

Assumption: `RingAssumption` (B_SIZE is 2 to 65536, as START and END
are 16 bits; sizes are naturals, reads are not empty).

For all rings, numbers of cores, and headers and locks that a program can have left
(`BootProofs`, which has the ring's lemmas for the steps of the ring):

* `TakenLockSafe`: `BootSpec => []TakenLockProtects`. Inductive with `Shut`: from a
  start with the lock taken until the unlock it stays taken, and nobody who runs has it.
* `StartsAfresh`: `BootSpec => []FreshUnlessRaced`. Until raced, whoever has the lock and still
  runs is alone (`LiveExclude`), the stores that `SccInit` has done stand (`Cleared`), and once
  the owner is up `RingInv`, `WriterInv` and `ReaderInv` hold (`Fresh`), by the ring's own data
  lemmas. A core that exited before the reset stays at a label with the lock for ever, so that
  `MutualExclusion` is lost: this is why these lemmas assume `CopyInv` instead.
* `NobodyLeavesTheRing`: `BootSpec => []StaysInRing`, with the types as the
  invariant: the free space a writer computes is in the ring for any START and END.

For all rings, lengths of a line, sets of cores and sizes, on caches that nobody keeps coherent
(`MpbVisibilityProofs`, from `VisibilityAssumption`, which adds a line length to `RingAssumption`):

* `CachesUnseen`: `Spec => RingSpec`. Every step is one of `MpbRing`, or none.
* `UnlocksOvertakeNothing`: `Spec => []NothingHeldBack`.
* `WritesPassL1`: `Spec => NoWriteStaysInL1`.
* `CachedRingIsFifo`: `Spec` implements `FifoSpec`, the two refinements together.

`VInv` says by the label of a core what its buffer and its L1 may hold: `Pending` are the cells
that can wait in its buffer, `Written` says of a header field that the new value waits or has been
drained, never that an older one comes after. Whether a load is fresh depends on what the *other*
cores have done since the flush, so `VInv` is not inductive alone. It needs the lock and the room
of the ring, and these are the ring's own `IInv`, read through the refinement mapping
(`Coherent!IInv`). What is proved is `VInv /\ Coherent!IInv`: in such a state each step keeps
`VInv` and is a ring step, and the ring's step lemma then gives `Coherent!IInv` in the next.

For any number of nodes from 2 on, rings that have room for a word of every node, any headers
and locks left in them, and heaps that
have room for a mailbox and its string (`MailboxProofs`, from `MailboxAssumption`):

* `OneMailboxForAll`: `Spec => []InTurnAllShareOneMailbox`.
* `NobodyAnswersFirst`: also only while `outOfTurn = {}`, whoever has come past its read of a ring
  has read what was sent in this run, and not a word that an earlier one left. No run checks it
  separately; it is what the first rests on.

`Turn` is claimed only while `outOfTurn` is empty; the history only grows, so a step that adds to
it has nothing to show. Of a ring it claims nothing until its owner is up (`Unset`); who uses it
before is out of turn, and so is who reads it empty, so that the first word taken in turn is one
of this run. `Finds` says what a node sees of the shared pages by where it is: the same
mailbox and the same string for all, because each node that allocates in turn does so from a
header that its own `SCCInit` has written anew (`Allocates`). The other
nodes write into ring 1 without its lock, so END can go back; `Ring1` bounds it by a word for
each node that has sent (`Count`, counted from `Origin`) and says that all before it are good,
since everybody sends the same offset. This is also why the rings have to be that long.

For each of the 48 cores (`SccInitProofs`):

* `CoresFindThemselves`, `TablesLeadToCores`, `RegistersAreApart`, `TenPagesAreCommon`:
  `LayoutOfCode => (Spec => []P)` for `LocatesItself`, `TablesReachCores`, `AirsApart`,
  `SharedPagesAreShared`.
* `CleanupIsHalf`: `Spec => []CleanupUnmaps`, for either layout.

Here the run is exhaustive and the proofs bound nothing away; they say why it holds: `Tables`
is a loop invariant, with `Tabled(p)` for every core p that the loop has passed, and each
property then follows from the macros at one core, two or its page (`Mapped`, `AirAt`). `LayoutOfCode`, that x
begins at bit 3 of the tile-ID register and y at bit 7, cannot be dropped:
`core_map_header` is the counterexample without it.

For all numbers of nodes and all amounts of work (`SccInitProofs`, from `AirAssumption`):

* `GateIsTight`: `Test1Spec => []GateShowsWork`, whatever the registers held.
  `Gate` says what the registers hold by where node 0 is, once it has reset them.

For tables and local pages of any number that fits a LUT of any length (fewer local ones than
half of it, as they are 30), all page sizes, all lengths asked
for, any content of the fresh table, and all places of the two mappings
(`LutAllocProofs`, from `LutAssumption`: whole pages that do not overlap, no request
for 0 pages):

* `TagsAlwaysMatch`: `Spec => []TagsMatchHeld`.
* `ImplementsRegions`: `Spec => PagesSpec`.
* `NearRunsComeBack`: `Spec => []FreesComeBack`.
* `AddressesLeadBack`: `Spec => []PointersRoundTrip`.

The first two need `LutInv`. `TagsMatchHeld` alone is not inductive in a form a
prover can use: SCCFreeLut looks at the entry before a run and at the one behind it, and has
to find there the *end* of one run and the *beginning* of another. So `TableInv` says
that a block, tagged at both ends, begins wherever a free entry follows a taken one or
the start of the table (`FreeFronts`), that one ends wherever a taken entry or the end
follows (`FreeBacks`), and that held runs are apart and tagged (`HeldBlocks`,
`HeldApart`); `ScanInv` adds that the search stands at the beginning of a block and that
every place before it is of no use for the request, which is what makes a refusal right.
`Granted` and `Freed` say what a change of the table has to do to keep `TableInv`,
whether or not it splits or merges; `FreeLut` shows that each of the four cases of
SCCFreeLut does it. They are claimed until the first free that strays or misses, which
`Near` and `FarFirst` locate: the distance to a run comes out as itself up to half of the
addresses, and negative from there on.

For any amount of memory, any sizes and any addresses that are freed
(`LpelShmProofs`, from `LpelAssumption`):

* `BlocksAlwaysTile`: `Spec => []BlocksTile`.
* `StrayFreesChangeNothing`: `Spec => StrayFreeIsHarmless`.
* `ImplementsRegions`: `Spec => ShmSpec`.

`Sound` speaks of a list and the runs handed out: blocks in the order of their
addresses, the first at 0 and the tail up to the end (`Ends`, `Sorted`, `Covered`), no free
block in front of another (`Merged`), and the taken blocks are what callers hold (`Handed`).
`Search` adds what a call under way has passed over. LPEL_shmalloc and LPEL_shfree both replace
a stretch of the list; `SpliceProperties` says what the model's `Splice` returns,
`SplitSound` and `MergeSound` when the new list is sound again: one serves both ways of
taking memory, the other a release whether or not it joins the neighbours.

For a heap of any place and length, any size of a unit and of size_t, and any sizes
asked for (`HeapProofs`, from `HeapAssumption`):

* `ListIsSound`: `Spec => []FreeListSound`.
* `OnlyTheEndHurts`, `RequestsFit`: `Spec =>` always `HarmOnlyAtTheEnd`, `RoomForRequest`.
* `ImplementsRegions`: `Spec => BlocksSpec`.

`Sound` is stated of headers H and blocks h handed out, so that one lemma serves all
cases: H is right at the start of every longest free run (`Runs`), these cover what is free
(`Covered`), every block handed out has its length (`Handed`), and the links are a circle in the
order of addresses that passes no start (`Circle`). `FreeListSound` says that too, but not
that blocks are disjoint and runs cover all that is free, without which a freed block could
adjoin a free unit that is in nobody's list. The lemmas about circles (`CircleRemove`,
`CircleInsert`, `CircleRename`) do the order, `GrantSound` and `ReleaseSound` the lengths.
`Neighbours` is the heart of SCCFreePtr: the search stops between two blocks, and
the freed one adjoins a free unit only if it adjoins one of these two, so that comparing
with them alone is enough. `PlaceSound` takes the four combinations. It fails for
one block that is its own successor and follows the freed one: that is `dangling`, and the reason
why the invariant ends there. For a refusal, `Search` says that the blocks passed over
(`Passed`: between freeList and prev, going round) are too small.

Each invariant was checked with TLC, on the instance of its run, before it was proved.

Every invariant and every safety property that a passing run checks is stated by a theorem, and so
are the refinements. Only model-checked:

* liveness (`TrafficFlows`, `BytesArrive`, `SendersGetThrough`, `CallsReturn`, `MallocReturns`,
  `AllThrough`, `Finishes`), out of the prover's reach.

## 5. Not modelled

* Freeing by several processes on one heap (no program here does), and the heap
  after `freeList` dangles.
* What a program does after reading something stale from the shared pages, or after a free that
  worked in front of the LUT table.
* A ring with several readers, but for the reads of `mailbox.c`.
* Signals and interrupts: their set-up is commented out, `irq_pins` is mapped and
  unused, and with it `SetConfigBit` and `SetConfigReg`, whose read-modify-write
  nobody calls.
* `atomic_write`, the FPGA helpers of SCCAPI.c and its register names: nothing
  calls or uses them. `atomic_dec` is called by the single-node test of `air.c` alone.
* `memcpy_get`/`memcpy_put` (assembly, unused) and printing.
* `mailbox_old.c`, which the Makefile does not build.

## 6. Plan

Done: the ring, its caches and its start-up; the allocators; the translation between pointers
and addresses; the core map; the AIRs; `mailbox.c`; and proofs about all of them.

What is left: two processes that free on one heap, if a program comes to do so.

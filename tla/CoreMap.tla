------------------------------ MODULE CoreMap -------------------------------
(***************************************************************************)
(* How one core finds itself and the registers and buffers of all cores,   *)
(* gets at the memory that it shares with them, and lets go of it all:     *)
(* SccInit and SccCleanup in scc.c, with the address macros of SCCAPI.h,   *)
(* the mappings of SCCAPI.c and the windows of memory of SCCInit.          *)
(*                                                                         *)
(* The memory of a core has 256 entries of 2^24 bytes each, so an address  *)
(* is a pair <<entry, offset>>.  Of these, the chip leads the ones of the  *)
(* tables SCCAPI.h:74-125 to the message buffers (MPB) and configuration   *)
(* registers (CRB) of the tile they are named for, and the others to pages *)
(* of memory as the core's lookup table (LUT) has them.  A page goes by    *)
(* the name <<core, entry>> of the entry that leads to it at power-up.     *)
(*                                                                         *)
(* What SccInit does to this core's message ring is in module Boot.        *)
(***************************************************************************)
EXTENDS Integers

CONSTANTS
  XposLow, YposLow   \* the chip's tile-ID register: lowest bit of x and of y

ASSUME CoreMapAssumption == XposLow \in {3, 7} /\ YposLow \in {3, 7} \ {XposLow}

NUM_ROWS  == 4
NUM_COLS  == 6
NUM_CORES == 2
CORES     == NUM_ROWS * NUM_COLS * NUM_CORES
MPBSIZE   == 8192
PageBytes == 4096    \* getpagesize()

LINUX_PRIV_PAGES == 20
PAGES_PER_CORE   == 41
MAX_PAGES        == 172
LOCAL_LUT        == 20
num_nodes        == 8

VARIABLES
  tile,            \* where this core is on the chip: [x, y, z]
  pc,              \* "boot", "map" and "copy" in the loops, "init", "up",
                   \* "clean" in SccCleanup, "down", "exited", "crashed"
  cpu,             \* the variable of the loops over the cores
  node_location,
  irq_pins, locks, luts, mpbs,   \* the tables, from the cores mapped so far
  mapped,          \* the pointers of the tables whose pages are mapped
  air,             \* atomic_inc_regs: [counter, init]
  zeroed,          \* the AIRs, by number of their register, that were reset
  lut, num_pages,  \* the variables of the loop over the LUT entries
  own,             \* this core's LUT: the page behind each entry
  local_pages, remote_pages   \* of sccmalloc.c

tables == <<irq_pins, locks, luts, mpbs, mapped>>
airs   == <<air, zeroed>>
memory == <<lut, num_pages, own, local_pages, remote_pages>>
vars   == <<tile, pc, cpu, node_location, tables, airs, memory>>

-----------------------------------------------------------------------------
(***************************************************************************)
(* The macros.                                                             *)
(***************************************************************************)
(* Slip: a row is one tile short. *)
YOfTile(pid) == (pid \div NUM_CORES) \div (NUM_COLS - 1)

PID(x, y, z) == NUM_CORES * NUM_COLS * y + NUM_CORES * x + z
Y_PID(pid)   == (pid \div NUM_CORES) \div NUM_COLS
X_PID(pid)   == (pid \div NUM_CORES) - NUM_COLS * Y_PID(pid)
Z_PID(pid)   == pid % NUM_CORES

Plus(a, n) == <<a[1], a[2] + n>>

CRB_ADDR(x, y)    == <<224 + x + NUM_COLS * y, 0>>
MPB_ADDR(x, y, z) == <<192 + x + NUM_COLS * y, MPBSIZE * z>>
CRB_OWN   == <<248, 0>>
MPB_OWN   == <<216, 0>>
FPGA_BASE == <<249, 0>>

MYTILEID == 256

GLCFG(z) == IF z = 0 THEN 16 ELSE 24
LOCK(z)  == IF z = 0 THEN 512 ELSE 1024
LUT(z)   == IF z = 0 THEN 2048 ELSE 4096

(* Bits low .. low + n - 1 of a register. *)
Bits(reg, low, n) == (reg \div 2^low) % 2^n

(***************************************************************************)
(* MallocConfigReg and MPBalloc map whole pages; what they return is an    *)
(* offset into what was mapped: [at, bytes, offset].                       *)
(***************************************************************************)
Mapped(a, bytes) ==
  [at |-> <<a[1], a[2] - (a[2] % PageBytes)>>, bytes |-> bytes, offset |-> a[2] % PageBytes]

MallocConfigReg(a) == Mapped(a, PageBytes)

(* Whether munmap unmaps the page behind a pointer: it takes an address at *)
(* the start of a page only.                                               *)
Unmaps(p) == p.offset = 0

(* Slip: the register itself is passed to munmap. *)
FreeAsItIs(p) == Unmaps(p)

(* MPBunalloc relies on being at the start, FreeConfigReg goes back there. *)
MPBunalloc(p) == Unmaps(p)
FreeConfigReg(p) == Unmaps([p EXCEPT !.offset = 0])

MPBalloc(x, y, z, isOwnMPB) ==
  Mapped(IF isOwnMPB THEN Plus(MPB_OWN, MPBSIZE * z) ELSE MPB_ADDR(x, y, z), MPBSIZE)

-----------------------------------------------------------------------------
(* The register of a core at tile t, as the chip fills it in. *)
TileId(t) == t.x * 2^XposLow + t.y * 2^YposLow + t.z

(* ReadConfigReg maps the page of the register for this one read. *)
Register(a) == IF a = Plus(CRB_OWN, 256) THEN TileId(tile) ELSE 0

ReadConfigReg(a) ==
  LET p == Mapped(a, PageBytes) IN Register(Plus(p.at, p.offset))

NoAir == [counter |-> << >>, init |-> << >>]

Init ==
  /\ tile \in [x : 0..(NUM_COLS - 1), y : 0..(NUM_ROWS - 1), z : 0..(NUM_CORES - 1)]
  /\ pc = "boot" /\ cpu = 0 /\ node_location = 0
  /\ irq_pins = << >> /\ locks = << >> /\ luts = << >> /\ mpbs = << >>
  /\ mapped = {}
  /\ air = [i \in 0..(2 * CORES - 1) |-> NoAir] /\ zeroed = {}
  /\ lut = 0 /\ num_pages = 0 /\ local_pages = 0 /\ remote_pages = 0
  /\ own = [e \in 0..191 |-> <<PID(tile.x, tile.y, tile.z), e>>]

(* InitAPI, the node's own number, and the two pages of AIRs. *)
FindSelf ==
  /\ pc = "boot" /\ pc' = "map"
  /\ LET reg == ReadConfigReg(Plus(CRB_OWN, MYTILEID))
     IN  node_location' = PID(Bits(reg, 3, 4), Bits(reg, 7, 4), Bits(reg, 0, 3))
  /\ UNCHANGED <<tile, cpu, tables, airs, memory>>

(* A device does not open, or a mapping fails: the program ends. *)
Fail ==
  /\ pc \in {"boot", "map"} /\ pc' = "exited"
  /\ UNCHANGED <<tile, cpu, node_location, tables, airs, memory>>

(* The functions t with the value for this round added. *)
With(t, p) == [i \in 0..cpu |-> IF i = cpu THEN p ELSE t[i]]

(* Slip: rows are not compared. *)
CrbOfColumn(p) ==
  IF X_PID(p) = X_PID(node_location) /\ Z_PID(p) = Z_PID(node_location)
    THEN CRB_OWN ELSE CRB_ADDR(X_PID(p), Y_PID(p))

(* Where the registers of core p are reached. *)
Crb(p) == IF p = node_location THEN CRB_OWN ELSE CRB_ADDR(X_PID(p), Y_PID(p))

(* Slip: words, not pairs of words, are counted. *)
AirAtWord(page, p) ==
  [counter |-> Plus(FPGA_BASE, page + 4 * p), init |-> Plus(FPGA_BASE, page + 4 * (p + 1))]

(* The AIR of core p in the page: two words. *)
AirAt(page, p) ==
  [counter |-> Plus(FPGA_BASE, page + 4 * (2 * p)),
   init    |-> Plus(FPGA_BASE, page + 4 * (2 * p + 1))]

PageE == 57344
PageF == 61440

(* One round of the loop.  Core 0 alone resets the AIRs. *)
MapCore ==
  /\ pc = "map"
  /\ LET z == Z_PID(cpu)
     IN  /\ irq_pins' = With(irq_pins, MallocConfigReg(Plus(Crb(cpu), GLCFG(z))))
         /\ locks'    = With(locks, MallocConfigReg(Plus(Crb(cpu), LOCK(z))))
         /\ luts'     = With(luts, MallocConfigReg(Plus(Crb(cpu), LUT(z))))
         /\ mpbs'     = With(mpbs, MPBalloc(X_PID(cpu), Y_PID(cpu), z, cpu = node_location))
  /\ mapped' = mapped \cup ({"irq_pins", "locks", "luts", "mpbs"} \X {cpu})
  /\ air' = [air EXCEPT ![cpu] = AirAt(PageE, cpu), ![CORES + cpu] = AirAt(PageF, cpu)]
  /\ zeroed' = IF node_location = 0
                 THEN zeroed \cup {air'[cpu].init, air'[CORES + cpu].init}
                 ELSE zeroed
  /\ IF cpu + 1 < CORES
       THEN cpu' = cpu + 1 /\ UNCHANGED <<pc, num_pages>>
       ELSE /\ cpu' = 0 /\ pc' = "copy"
            /\ num_pages' = PAGES_PER_CORE - (LINUX_PRIV_PAGES + 1)
  /\ UNCHANGED <<tile, node_location, lut, own, local_pages, remote_pages>>

(* The page behind entry e of core p, as this core finds it. *)
LutOf(p, e) == IF p = node_location THEN own[e] ELSE <<p, e>>

(* Slip: the source is read at the entry that is written. *)
CopySameEntry ==
  /\ pc = "copy"
  /\ own' = [own EXCEPT ![num_pages] = LutOf(num_nodes + 1, num_pages)]
  /\ num_pages' = num_pages + 1
  /\ lut' = lut + 1
  /\ pc' = IF lut + 1 < 10 THEN "copy" ELSE "init"
  /\ UNCHANGED <<tile, cpu, node_location, tables, airs, local_pages, remote_pages>>

(* One round of the loop that points entries of this core at the first     *)
(* pages of another.                                                       *)
CopyEntry ==
  /\ pc = "copy"
  /\ own' = [own EXCEPT ![num_pages] = LutOf(num_nodes + 1, lut)]
  /\ num_pages' = num_pages + 1
  /\ lut' = lut + 1
  /\ pc' = IF lut + 1 < 10 THEN "copy" ELSE "init"
  /\ UNCHANGED <<tile, cpu, node_location, tables, airs, local_pages, remote_pages>>

(* SCCInit maps local_pages entries from LOCAL_LUT on, and remote_pages    *)
(* from the next on.  What it is given is the number of the next entry.    *)
SCCInit(n) ==
  /\ local_pages' = n
  /\ remote_pages' = MAX_PAGES - n

(* The local pages are mapped.  Whether the remote ones are is not looked  *)
(* at either way (module LutAlloc has what follows if they are not).       *)
MapMemory ==
  /\ pc = "init" /\ pc' = "up"
  /\ SCCInit(num_pages)
  /\ UNCHANGED <<tile, cpu, node_location, tables, airs, lut, num_pages, own>>

(* The mapping of the local pages fails, which is not recognised: the      *)
(* program writes the header of the heap to it.                            *)
Crash ==
  /\ pc = "init" /\ pc' = "crashed"
  /\ SCCInit(num_pages)
  /\ UNCHANGED <<tile, cpu, node_location, tables, airs, lut, num_pages, own>>

(* SccCleanup, which a program may call, one core at a time. *)
Clean ==
  /\ pc \in {"up", "clean"}
  /\ mapped' = mapped \ ((IF MPBunalloc(mpbs[cpu]) THEN {<<"mpbs", cpu>>} ELSE {})
                  \cup (IF FreeConfigReg(locks[cpu]) THEN {<<"locks", cpu>>} ELSE {}))
  /\ mpbs' = [mpbs EXCEPT ![cpu] = << >>]
  /\ IF cpu + 1 < CORES THEN cpu' = cpu + 1 /\ pc' = "clean"
                        ELSE cpu' = 0 /\ pc' = "down"
  /\ UNCHANGED <<tile, node_location, irq_pins, locks, luts, airs, memory>>

Ended == pc \in {"up", "down", "exited", "crashed"} /\ UNCHANGED vars

Next == FindSelf \/ MapCore \/ Fail \/ CopyEntry \/ MapMemory \/ Crash \/ Clean \/ Ended

Spec == Init /\ [][Next]_vars

-----------------------------------------------------------------------------
(***************************************************************************)
(* Properties.                                                             *)
(***************************************************************************)

(* The core knows where it is: the number it goes by is that of its tile,  *)
(* and the macros lead back from the number to the tile.                   *)
LocatesItself ==
  pc \notin {"boot", "exited"} =>
    /\ node_location \in 0..(CORES - 1)
    /\ X_PID(node_location) = tile.x
    /\ Y_PID(node_location) = tile.y
    /\ Z_PID(node_location) = tile.z

(* SCCAPI.h:74-125: the entry named for the leftmost tile of every row. *)
CrbRow == <<224, 230, 236, 242>>
MpbRow == <<192, 198, 204, 210>>

(* The tile [x, y] that the chip leads an entry to. *)
LeadsTo(entry, row, mine, x, y) ==
  \/ entry = row[y + 1] + x
  \/ entry = mine /\ x = tile.x /\ y = tile.y

(* p is a pointer to n bytes at offset a in the entry of core [x, y]; the  *)
(* bytes lie within what was mapped.                                       *)
Reaches(p, row, mine, x, y, a, n) ==
  /\ LeadsTo(p.at[1], row, mine, x, y)
  /\ p.at[2] + p.offset = a
  /\ p.offset + n <= p.bytes

(* The tables are complete. *)
Complete == pc \in {"copy", "init", "up"}

(* Every table leads, for every core there is, to that core's register or  *)
(* buffer and no other, all 256 entries of 8 bytes of a core's LUT and all *)
(* bytes of its buffer within reach.                                       *)
TablesReachCores ==
  Complete =>
    \A x \in 0..(NUM_COLS - 1), y \in 0..(NUM_ROWS - 1), z \in 0..(NUM_CORES - 1) :
      LET p == PID(x, y, z)
      IN  /\ Reaches(irq_pins[p], CrbRow, 248, x, y, GLCFG(z), 4)
          /\ Reaches(locks[p], CrbRow, 248, x, y, LOCK(z), 1)
          /\ Reaches(luts[p], CrbRow, 248, x, y, LUT(z), 256 * 8)
          /\ Reaches(mpbs[p], MpbRow, 216, x, y, MPBSIZE * z, MPBSIZE)

(* The cores' AIRs are registers of their own: no two share a word, and    *)
(* both words of each are in the page that was mapped; and core 0, whoever *)
(* that is, resets each of them, while no other core resets any.           *)
AirsApart ==
  Complete =>
    /\ \A i, j \in 0..(2 * CORES - 1) :
         /\ air[i].init # air[j].counter
         /\ i # j => air[i].init # air[j].init /\ air[i].counter # air[j].counter
    /\ \A i \in 0..(2 * CORES - 1) : \A a \in {air[i].counter, air[i].init} :
         /\ a[1] = 249
         /\ a[2] - (IF i < CORES THEN PageE ELSE PageF) \in 0..(PageBytes - 4)
    /\ zeroed = IF tile = [x |-> 0, y |-> 0, z |-> 0]
                  THEN {air[i].init : i \in 0..(2 * CORES - 1)}
                  ELSE {}

(* The window of entries in which SCCInit maps a kind of pages. *)
Window(from, n) == from..(from + n - 1)

(* Of the pages that the heap is laid over, the first ten are the same     *)
(* memory on every core, core 9 itself included; the others are each       *)
(* core's own.  No core but 9 finds pages of its own Linux among them.     *)
(* The remote pages are the entries that are left, up to the first message *)
(* buffer.                                                                 *)
SharedPagesAreShared ==
  pc = "up" =>
    /\ \A i \in 0..9 : own[LOCAL_LUT + i] = <<9, i>>
    /\ \A e \in Window(LOCAL_LUT + 10, local_pages - 10) : own[e] = <<node_location, e>>
    /\ \A e \in Window(0, LINUX_PRIV_PAGES) :
         /\ own[e] = <<node_location, e>>
         /\ node_location = 9 \/ \A f \in Window(LOCAL_LUT, local_pages) : own[f] # own[e]
    /\ LOCAL_LUT + local_pages + remote_pages = MPB_ADDR(0, 0, 0)[1]

(* SccCleanup unmaps every message buffer and every lock, whatever their   *)
(* place in their pages, and nothing else: interrupt and LUT registers     *)
(* stay mapped.                                                            *)
CleanupUnmaps ==
  pc = "down" => mapped = {"irq_pins", "luts"} \X (0..(CORES - 1))
=============================================================================

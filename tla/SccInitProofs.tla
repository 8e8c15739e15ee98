--------------------------- MODULE SccInitProofs ----------------------------
(***************************************************************************)
(* Proofs about what SccInit sets up: the tables and the shared pages of a *)
(* core, wherever on the chip it is (CoreMap), and the atomic increment    *)
(* registers that programs find afterwards (Air).                          *)
(***************************************************************************)
EXTENDS CoreMap, Air, TLAPS

(* The layout of the tile-ID register that the code assumes.  It cannot be *)
(* dropped: with the one that SCCAPI.h documents, cores mistake themselves *)
(* for others.                                                             *)
LayoutOfCode == XposLow = 3 /\ YposLow = 7

Tiles == [x : 0..(NUM_COLS - 1), y : 0..(NUM_ROWS - 1), z : 0..(NUM_CORES - 1)]
Cores == 0..(CORES - 1)

(* The number of the core at this tile. *)
me == PID(tile.x, tile.y, tile.z)

-----------------------------------------------------------------------------
(***************************************************************************)
(* The invariant.                                                          *)
(***************************************************************************)

(* Until SccCleanup, and before the core has given up. *)
Starting == {"map", "copy", "init", "up", "crashed"}

Shape ==
  /\ tile \in Tiles
  /\ pc \in {"boot", "clean", "down", "exited"} \cup Starting
  /\ cpu \in Cores
  /\ pc \notin {"map", "clean", "exited"} => cpu = 0
  /\ LayoutOfCode /\ pc \notin {"boot", "exited"} => node_location = me
  /\ air = [i \in 0..(2 * CORES - 1) |-> air[i]]

(* How many cores have been through the loop. *)
Ready == IF pc = "map" THEN cpu ELSE CORES

(* What the loop leaves for core p. *)
Tabled(p) ==
  /\ irq_pins[p] = MallocConfigReg(Plus(Crb(p), GLCFG(Z_PID(p))))
  /\ locks[p] = MallocConfigReg(Plus(Crb(p), LOCK(Z_PID(p))))
  /\ luts[p] = MallocConfigReg(Plus(Crb(p), LUT(Z_PID(p))))
  /\ mpbs[p] = MPBalloc(X_PID(p), Y_PID(p), Z_PID(p), p = node_location)
  /\ air[p] = AirAt(PageE, p)
  /\ air[CORES + p] = AirAt(PageF, p)

(* The AIRs of the first n cores. *)
AirsOf(n) == {i \in 0..(2 * CORES - 1) : (IF i < CORES THEN i ELSE i - CORES) < n}

Tables ==
  /\ pc = "boot" => mapped = {} /\ zeroed = {}
  /\ pc \in Starting =>
       /\ \A p \in Cores : p < Ready => Tabled(p)
       /\ mapped = {"irq_pins", "locks", "luts", "mpbs"} \X {p \in Cores : p < Ready}
       /\ zeroed = IF node_location = 0 THEN {air[i].init : i \in AirsOf(Ready)} ELSE {}

(* The first n entries of the window lead to the pages of core 9. *)
LutWith(n) == [e \in 0..191 |-> IF e \in 20..(19 + n) THEN <<9, e - 20>> ELSE <<me, e>>]

Memory ==
  LayoutOfCode =>
    /\ pc \in {"boot", "map"} => lut = 0 /\ own = LutWith(0)
    /\ pc = "copy" => lut \in 0..9 /\ num_pages = 20 + lut /\ own = LutWith(lut)
    /\ pc \in {"init", "up"} => num_pages = 30 /\ own = LutWith(10)
    /\ pc = "up" => local_pages = 30 /\ remote_pages = 142

(* What SccCleanup has still to do. *)
Cleaning ==
  /\ pc = "clean" =>
       /\ \A p \in Cores : p >= cpu => MPBunalloc(mpbs[p]) /\ FreeConfigReg(locks[p])
       /\ mapped = ({"irq_pins", "luts"} \X Cores) \cup ({"locks", "mpbs"} \X {p \in Cores : p >= cpu})
  /\ pc = "down" => mapped = {"irq_pins", "luts"} \X Cores

Inv == Shape /\ Tables /\ Memory /\ Cleaning

-----------------------------------------------------------------------------
(***************************************************************************)
(* Numbers and tiles.                                                      *)
(***************************************************************************)

LEMMA Sizes ==
  /\ NUM_ROWS = 4 /\ NUM_COLS = 6 /\ NUM_CORES = 2 /\ CORES = 48 /\ Cores = 0..47
  /\ MPBSIZE = 8192 /\ PageBytes = 4096
  BY DEF NUM_ROWS, NUM_COLS, NUM_CORES, CORES, Cores, MPBSIZE, PageBytes

(* PID and the macros X_PID, Y_PID and Z_PID are each other's inverse. *)
LEMMA Coordinates ==
  /\ \A x \in 0..5, y \in 0..3, z \in 0..1 :
       /\ PID(x, y, z) \in Cores
       /\ X_PID(PID(x, y, z)) = x /\ Y_PID(PID(x, y, z)) = y /\ Z_PID(PID(x, y, z)) = z
  /\ \A p \in Cores : /\ X_PID(p) \in 0..5 /\ Y_PID(p) \in 0..3 /\ Z_PID(p) \in 0..1
                      /\ p = PID(X_PID(p), Y_PID(p), Z_PID(p))
  <1>1. ASSUME NEW x \in 0..5, NEW y \in 0..3, NEW z \in 0..1
        PROVE  /\ PID(x, y, z) \in Cores
               /\ X_PID(PID(x, y, z)) = x /\ Y_PID(PID(x, y, z)) = y /\ Z_PID(PID(x, y, z)) = z
    <2>1. PID(x, y, z) = 12 * y + 2 * x + z
      BY Sizes DEF PID
    <2>2. Y_PID(PID(x, y, z)) = y
      BY <2>1, Sizes DEF Y_PID
    <2>3. QED
      BY <2>1, <2>2, Sizes DEF X_PID, Z_PID
  <1>2. ASSUME NEW p \in Cores
        PROVE  /\ X_PID(p) \in 0..5 /\ Y_PID(p) \in 0..3 /\ Z_PID(p) \in 0..1
               /\ p = PID(X_PID(p), Y_PID(p), Z_PID(p))
    BY Sizes DEF X_PID, Y_PID, Z_PID, PID
  <1>3. QED
    BY <1>1, <1>2

LEMMA TileIs ==
  ASSUME tile \in Tiles
  PROVE  /\ tile.x \in 0..5 /\ tile.y \in 0..3 /\ tile.z \in 0..1
         /\ me \in Cores /\ X_PID(me) = tile.x /\ Y_PID(me) = tile.y /\ Z_PID(me) = tile.z
         /\ me = 0 <=> tile = [x |-> 0, y |-> 0, z |-> 0]
  <1>1. tile.x \in 0..5 /\ tile.y \in 0..3 /\ tile.z \in 0..1 /\ tile = [x |-> tile.x, y |-> tile.y, z |-> tile.z]
    BY Sizes DEF Tiles
  <1>2. me = 12 * tile.y + 2 * tile.x + tile.z
    BY <1>1, Sizes DEF me, PID
  <1>3. me = 0 <=> (tile.x = 0 /\ tile.y = 0 /\ tile.z = 0)
    BY <1>1, <1>2
  <1>4. QED
    BY <1>1, <1>3, Coordinates DEF me

(* The fields that the code cuts out of the register are where the core is.*)
LEMMA FieldsAre ==
  ASSUME LayoutOfCode, tile \in Tiles
  PROVE  LET reg == ReadConfigReg(Plus(CRB_OWN, MYTILEID))
         IN  PID(Bits(reg, 3, 4), Bits(reg, 7, 4), Bits(reg, 0, 3)) = me
  <1>1. tile.x \in 0..5 /\ tile.y \in 0..3 /\ tile.z \in 0..1
    BY TileIs
  <1>2. 2^3 = 8 /\ 2^7 = 128 /\ 2^4 = 16 /\ 2^0 = 1
    OBVIOUS
  <1>3. TileId(tile) = 8 * tile.x + 128 * tile.y + tile.z
    BY <1>1, <1>2 DEF TileId, LayoutOfCode
  <1>4. ReadConfigReg(Plus(CRB_OWN, MYTILEID)) = TileId(tile)
    BY Sizes DEF ReadConfigReg, Plus, CRB_OWN, MYTILEID, Mapped, Register
  <1> DEFINE reg == 8 * tile.x + 128 * tile.y + tile.z
  <1>5. Bits(reg, 3, 4) = tile.x /\ Bits(reg, 7, 4) = tile.y /\ Bits(reg, 0, 3) = tile.z
    BY <1>1, <1>2 DEF Bits
  <1>6. QED
    BY <1>3, <1>4, <1>5 DEF me

-----------------------------------------------------------------------------
(***************************************************************************)
(* The steps.                                                              *)
(***************************************************************************)

LEMMA InitInv == Init => Inv
  <1> SUFFICES ASSUME Init PROVE Inv
    OBVIOUS
  <1>1. Shape
    BY Sizes DEF Init, Shape, Tiles, Starting
  <1>2. Tables
    BY DEF Init, Tables, Starting
  <1>3. Memory
    BY DEF Init, Memory, LutWith, me
  <1>4. QED
    BY <1>1, <1>2, <1>3 DEF Init, Inv, Cleaning

LEMMA FindSelfStep ==
  ASSUME Inv, FindSelf
  PROVE  Inv'
  <1>1. UNCHANGED <<tile, cpu, irq_pins, locks, luts, mpbs, mapped, air, zeroed, lut, num_pages, own>>
        /\ me' = me /\ pc = "boot" /\ pc' = "map"
    BY DEF FindSelf, tables, airs, memory, me
  <1>2. LayoutOfCode => node_location' = me
    BY FieldsAre DEF FindSelf, Inv, Shape
  <1>3. cpu = 0 /\ tile \in Tiles
    BY <1>1 DEF Inv, Shape
  <1>4. Shape'
    BY <1>1, <1>2 DEF Inv, Shape, Starting
  <1>5. Tables'
    <2>1. Ready' = 0
      BY <1>1, <1>3 DEF Ready
    <2>2. mapped' = {} /\ zeroed' = {}
      BY <1>1 DEF Inv, Tables
    <2>3. AirsOf(0) = {} /\ {p \in Cores : p < 0} = {}
      BY Sizes DEF AirsOf
    <2>4. (\A p \in Cores : ~(p < 0)) /\ {air'[i].init : i \in {}} = {}
          /\ {"irq_pins", "locks", "luts", "mpbs"} \X {} = {}
      BY <2>3
    <2>5. QED
      BY <1>1, <2>1, <2>2, <2>3, <2>4 DEF Tables
  <1>6. Memory'
    BY <1>1 DEF Inv, Memory, LutWith
  <1>7. QED
    BY <1>1, <1>4, <1>5, <1>6 DEF Inv, Cleaning

LEMMA FailStep ==
  ASSUME Inv, Fail
  PROVE  Inv'
  <1>1. Shape'
    BY DEF Inv, Shape, Fail, airs, Starting, me
  <1>2. QED
    BY <1>1 DEF Inv, Fail, Tables, Memory, Cleaning, Starting

(* A round of the loop fills in the row of core cpu and leaves the others. *)
LEMMA MapCoreStep ==
  ASSUME Inv, MapCore
  PROVE  Inv'
  <1>1. /\ pc = "map" /\ cpu \in 0..47 /\ Ready = cpu
        /\ UNCHANGED <<tile, node_location, lut, own, local_pages, remote_pages>> /\ me' = me
    BY Sizes DEF MapCore, Inv, Shape, Ready, me
  <1>2. /\ cpu + 1 < 48 => pc' = "map" /\ cpu' = cpu + 1
        /\ ~(cpu + 1 < 48) => pc' = "copy" /\ cpu' = 0 /\ num_pages' = 20
    BY <1>1, Sizes DEF MapCore, PAGES_PER_CORE, LINUX_PRIV_PAGES
  <1>3. Ready' = cpu + 1
    <2>1. CASE cpu + 1 < 48
      BY <1>2, <2>1 DEF Ready
    <2>2. CASE ~(cpu + 1 < 48)
      <3>1. cpu + 1 = 48 /\ pc' = "copy"
        BY <1>1, <1>2, <2>2
      <3>2. QED
        BY <3>1, Sizes DEF Ready
    <2>3. QED
      BY <2>1, <2>2
  <1>4. air' = [air EXCEPT ![cpu] = AirAt(PageE, cpu), ![48 + cpu] = AirAt(PageF, cpu)]
        /\ air = [i \in 0..95 |-> air[i]]
    BY Sizes DEF MapCore, Inv, Shape
  <1>5. air'[cpu] = AirAt(PageE, cpu) /\ air'[48 + cpu] = AirAt(PageF, cpu)
        /\ \A i \in 0..95 : i # cpu /\ i # 48 + cpu => air'[i] = air[i]
    BY <1>1, <1>4
  <1>6. Shape'
    <2>1. air' = [i \in 0..95 |-> air'[i]]
      BY <1>4
    <2>2. QED
      BY <1>1, <1>2, <2>1, Sizes DEF Inv, Shape, Starting
  <1>7. ASSUME NEW p \in Cores, p < cpu + 1
        PROVE  Tabled(p)'
    <2>1. Crb(p)' = Crb(p)
      BY <1>1 DEF Crb
    <2>2. CASE p = cpu
      <3>1. /\ irq_pins'[p] = MallocConfigReg(Plus(Crb(p), GLCFG(Z_PID(p))))
            /\ locks'[p] = MallocConfigReg(Plus(Crb(p), LOCK(Z_PID(p))))
            /\ luts'[p] = MallocConfigReg(Plus(Crb(p), LUT(Z_PID(p))))
            /\ mpbs'[p] = MPBalloc(X_PID(p), Y_PID(p), Z_PID(p), p = node_location)
        BY <1>1, <2>2 DEF MapCore, With
      <3>2. QED
        BY <1>1, <1>5, <2>1, <2>2, <3>1, Sizes DEF Tabled
    <2>3. CASE p # cpu
      <3>1. p \in 0..cpu /\ p < cpu /\ p \in 0..47
        BY <1>1, <1>7, <2>3, Sizes
      <3>2. Tabled(p)
        BY <1>1, <3>1 DEF Inv, Tables, Starting
      <3>3. irq_pins'[p] = irq_pins[p] /\ locks'[p] = locks[p] /\ luts'[p] = luts[p] /\ mpbs'[p] = mpbs[p]
        BY <2>3, <3>1 DEF MapCore, With
      <3>4. air'[p] = air[p] /\ air'[48 + p] = air[48 + p]
        BY <1>1, <1>5, <2>3, <3>1
      <3>5. QED
        BY <1>1, <2>1, <3>2, <3>3, <3>4, Sizes DEF Tabled
    <2>4. QED
      BY <2>2, <2>3
  <1>8. mapped' = {"irq_pins", "locks", "luts", "mpbs"} \X {p \in Cores : p < cpu + 1}
    <2>1. mapped = {"irq_pins", "locks", "luts", "mpbs"} \X {p \in Cores : p < cpu}
      BY <1>1 DEF Inv, Tables, Starting
    <2>2. {p \in Cores : p < cpu + 1} = {p \in Cores : p < cpu} \cup {cpu}
      BY <1>1, Sizes
    <2>3. mapped' = mapped \cup ({"irq_pins", "locks", "luts", "mpbs"} \X {cpu})
      BY DEF MapCore
    <2>4. QED
      BY <2>1, <2>2, <2>3
  <1>9. zeroed' = IF node_location = 0 THEN {air'[i].init : i \in AirsOf(cpu + 1)} ELSE {}
    <2>1. zeroed = IF node_location = 0 THEN {air[i].init : i \in AirsOf(cpu)} ELSE {}
      BY <1>1 DEF Inv, Tables, Starting
    <2>2. zeroed' = IF node_location = 0 THEN zeroed \cup {air'[cpu].init, air'[48 + cpu].init} ELSE zeroed
      BY Sizes DEF MapCore
    <2>3. AirsOf(cpu + 1) = AirsOf(cpu) \cup {cpu, 48 + cpu} /\ cpu \notin AirsOf(cpu) /\ 48 + cpu \notin AirsOf(cpu)
      BY <1>1, Sizes DEF AirsOf
    <2>4. \A i \in AirsOf(cpu) : air'[i] = air[i]
      BY <1>5, <2>3, Sizes DEF AirsOf
    <2>5. {air[i].init : i \in AirsOf(cpu)} \cup {air'[cpu].init, air'[48 + cpu].init}
            = {air'[i].init : i \in AirsOf(cpu + 1)}
      BY <2>3, <2>4
    <2>6. QED
      BY <2>1, <2>2, <2>5
  <1>10. Tables'
    BY <1>1, <1>2, <1>3, <1>7, <1>8, <1>9 DEF Tables
  <1>11. Memory'
    <2>1. LayoutOfCode => lut = 0 /\ own = LutWith(0) /\ LutWith(0)' = LutWith(0)
      BY <1>1 DEF Inv, Memory, LutWith
    <2>2. QED
      BY <1>1, <1>2, <2>1 DEF Memory
  <1>12. Cleaning'
    BY <1>2 DEF Cleaning
  <1>13. QED
    BY <1>6, <1>10, <1>11, <1>12 DEF Inv

(* What a step keeps that stays in the part after the loop. *)
LEMMA TablesFrame ==
  ASSUME Tables, pc \in Starting \ {"map"}, pc' \in Starting \ {"map"},
         UNCHANGED <<node_location, tables, airs>>
  PROVE  Tables'
  <1>1. Ready' = Ready
    BY DEF Ready, Starting
  <1>2. \A p : Tabled(p)' <=> Tabled(p)
    BY DEF Tabled, Crb, tables, airs
  <1>3. QED
    BY <1>1, <1>2 DEF Tables, tables, airs, Starting

LEMMA CopyEntryStep ==
  ASSUME Inv, CopyEntry
  PROVE  Inv'
  <1>1. /\ pc = "copy" /\ pc' \in {"copy", "init"} /\ me' = me
        /\ UNCHANGED <<tile, cpu, node_location, tables, airs, local_pages, remote_pages>>
    BY DEF CopyEntry, me
  <1>2. Shape'
    BY <1>1 DEF Inv, Shape, airs, Starting
  <1>3. Tables'
    BY <1>1, TablesFrame DEF Inv, Starting
  <1>4. Memory'
    <2> SUFFICES ASSUME LayoutOfCode PROVE Memory'
      BY DEF Memory, LayoutOfCode
    <2>1. lut \in 0..9 /\ num_pages = 20 + lut /\ own = LutWith(lut) /\ node_location = me
      BY <1>1 DEF Inv, Memory, Shape
    <2>2. /\ lut' = lut + 1 /\ num_pages' = 21 + lut
          /\ (lut < 9 => pc' = "copy") /\ (lut = 9 => pc' = "init")
      BY <2>1 DEF CopyEntry
    <2>3. \A e \in 0..191 : own[e] = IF e \in 20..(19 + lut) THEN <<9, e - 20>> ELSE <<me, e>>
      BY <2>1 DEF LutWith
    <2>4. own = [e \in 0..191 |-> own[e]]
      BY <2>1 DEF LutWith
    <2>5. LutOf(num_nodes + 1, lut) = <<9, lut>>
      <3>1. lut \in 0..191 /\ lut \notin 20..(19 + lut)
        BY <2>1
      <3>2. own[lut] = <<me, lut>>
        BY <2>3, <3>1
      <3>3. QED
        BY <2>1, <3>2 DEF LutOf, num_nodes
    <2>6. own' = [own EXCEPT ![20 + lut] = <<9, lut>>]
      BY <2>1, <2>5 DEF CopyEntry
    <2>7. ASSUME NEW e \in 0..191
          PROVE  own'[e] = LutWith(lut + 1)[e]
      <3>1. LutWith(lut + 1)[e] = IF e \in 20..(19 + (lut + 1)) THEN <<9, e - 20>> ELSE <<me, e>>
        BY DEF LutWith
      <3>2. CASE e = 20 + lut
        <4>1. own'[e] = <<9, lut>>
          BY <2>4, <2>6, <3>2
        <4>2. e - 20 = lut /\ e \in 20..(19 + (lut + 1))
          BY <2>1, <3>2
        <4>3. QED
          BY <3>1, <4>1, <4>2
      <3>3. CASE e # 20 + lut
        <4>1. own'[e] = own[e]
          BY <2>4, <2>6, <3>3
        <4>2. e \in 20..(19 + lut) <=> e \in 20..(19 + (lut + 1))
          BY <2>1, <3>3
        <4>3. QED
          BY <2>3, <3>1, <4>1, <4>2
      <3>4. QED
        BY <3>2, <3>3
    <2>8. own' = [e \in 0..191 |-> own'[e]]
      BY <2>4, <2>6
    <2>9. LutWith(lut + 1) = [e \in 0..191 |-> LutWith(lut + 1)[e]]
      BY DEF LutWith
    <2>10. own' = LutWith(lut + 1)
      BY <2>7, <2>8, <2>9
    <2>11. LutWith(lut)' = LutWith(lut + 1) /\ (lut = 9 => LutWith(10)' = LutWith(lut + 1))
      <3>1. lut' = lut + 1 /\ me' = me
        BY <1>1, <2>2
      <3>2. LutWith(lut)' = LutWith(lut + 1)
        BY <3>1 DEF LutWith
      <3>3. ASSUME lut = 9
            PROVE  LutWith(10)' = LutWith(lut + 1)
        <4>1. lut + 1 = 10
          BY <3>3
        <4>2. LutWith(10)' = LutWith(10)
          BY <3>1 DEF LutWith
        <4>3. QED
          BY <4>1, <4>2
      <3>4. QED
        BY <3>2, <3>3
    <2>12. QED
      BY <1>1, <2>1, <2>2, <2>10, <2>11 DEF Memory
  <1>5. QED
    BY <1>1, <1>2, <1>3, <1>4 DEF Inv, Cleaning

LEMMA MapMemoryStep ==
  ASSUME Inv, MapMemory \/ Crash
  PROVE  Inv'
  <1>1. /\ pc = "init" /\ pc' \in {"up", "crashed"} /\ SCCInit(num_pages) /\ me' = me
        /\ UNCHANGED <<tile, cpu, node_location, tables, airs, lut, num_pages, own>>
    BY DEF MapMemory, Crash, me
  <1>2. LayoutOfCode => num_pages = 30 /\ own = LutWith(10) /\ LutWith(10)' = LutWith(10)
    BY <1>1 DEF Inv, Memory, LutWith
  <1>3. LayoutOfCode => local_pages' = 30 /\ remote_pages' = 142
    BY <1>1, <1>2 DEF SCCInit, MAX_PAGES
  <1>4. Memory'
    BY <1>1, <1>2, <1>3 DEF Memory
  <1>5. Shape'
    BY <1>1 DEF Inv, Shape, airs, Starting
  <1>6. Tables'
    BY <1>1, TablesFrame DEF Inv, Starting
  <1>7. QED
    BY <1>1, <1>4, <1>5, <1>6 DEF Inv, Cleaning

(* A message buffer begins a page, so that MPBunalloc unmaps it; and       *)
(* FreeConfigReg goes back to the beginning of one.                        *)
LEMMA AllUnmap ==
  ASSUME Tables, pc = "up"
  PROVE  \A p \in Cores : MPBunalloc(mpbs[p]) /\ FreeConfigReg(locks[p])
  <1>1. TAKE p \in Cores
  <1>2. Tabled(p)
    <2>1. p < Ready
      BY Sizes DEF Ready
    <2>2. QED
      BY <2>1 DEF Tables, Starting
  <1>3. Z_PID(p) \in 0..1
    BY Coordinates
  <1>4. \A z \in 0..1 : (MPBSIZE * z) % PageBytes = 0 /\ (0 + MPBSIZE * z) % PageBytes = 0
    BY Sizes
  <1>5. \A x, y : MPB_ADDR(x, y, Z_PID(p))[2] = MPBSIZE * Z_PID(p)
                  /\ Plus(MPB_OWN, MPBSIZE * Z_PID(p))[2] = 0 + MPBSIZE * Z_PID(p)
    BY DEF MPB_ADDR, Plus, MPB_OWN
  <1>6. mpbs[p].offset = 0
    BY <1>2, <1>3, <1>4, <1>5 DEF Tabled, MPBalloc, Mapped
  <1>7. \A a : FreeConfigReg(MallocConfigReg(a))
    BY DEF FreeConfigReg, MallocConfigReg, Mapped, Unmaps
  <1>8. QED
    BY <1>2, <1>6, <1>7 DEF Tabled, MPBunalloc, Unmaps

LEMMA CleanStep ==
  ASSUME Inv, Clean
  PROVE  Inv'
  <1>1. /\ pc \in {"up", "clean"} /\ cpu \in Cores /\ me' = me
        /\ UNCHANGED <<tile, node_location, locks, air>> /\ mpbs' = [mpbs EXCEPT ![cpu] = << >>]
    BY DEF Clean, Inv, Shape, airs, me
  <1> DEFINE Still(n) == ({"irq_pins", "luts"} \X Cores) \cup ({"locks", "mpbs"} \X {p \in Cores : p >= n})
  <1>2. /\ \A p \in Cores : p >= cpu => MPBunalloc(mpbs[p]) /\ FreeConfigReg(locks[p])
        /\ mapped = Still(cpu)
    <2>1. CASE pc = "up"
      <3>1. cpu = 0 /\ Ready = 48 /\ Tables
        BY <2>1, Sizes DEF Inv, Shape, Ready
      <3>2. mapped = {"irq_pins", "locks", "luts", "mpbs"} \X {p \in Cores : p < 48}
        BY <2>1, <3>1 DEF Tables, Starting
      <3>3. {p \in Cores : p < 48} = Cores /\ {p \in Cores : p >= 0} = Cores
        BY Sizes
      <3>4. mapped = Still(cpu)
        BY <3>1, <3>2, <3>3
      <3>5. QED
        BY <2>1, <3>1, <3>4, AllUnmap
    <2>2. CASE pc = "clean"
      BY <2>2 DEF Inv, Cleaning
    <2>3. QED
      BY <1>1, <2>1, <2>2
  <1>3. mapped' = mapped \ {<<"mpbs", cpu>>, <<"locks", cpu>>}
    <2>1. cpu >= cpu
      BY <1>1, Sizes
    <2>2. MPBunalloc(mpbs[cpu]) /\ FreeConfigReg(locks[cpu])
      BY <1>1, <1>2, <2>1
    <2>3. QED
      BY <2>2 DEF Clean
  <1>4. mapped' = Still(cpu + 1)
    <2>1. \A p \in Cores : p >= cpu + 1 <=> (p >= cpu /\ p # cpu)
      BY <1>1, Sizes
    <2>2. {p \in Cores : p >= cpu + 1} = {p \in Cores : p >= cpu} \ {cpu}
      BY <2>1
    <2>3. QED
      BY <1>2, <1>3, <2>2
  <1>5. CASE cpu + 1 < 48
    <2>1. pc' = "clean" /\ cpu' = cpu + 1
      BY <1>5, Sizes DEF Clean
    <2>2. ASSUME NEW p \in Cores, p >= cpu + 1
          PROVE  MPBunalloc(mpbs[p])' /\ FreeConfigReg(locks[p])'
      <3>1. p # cpu /\ p >= cpu
        BY <1>1, <2>2, Sizes
      <3>2. mpbs'[p] = mpbs[p] /\ locks'[p] = locks[p]
        BY <1>1, <3>1
      <3>3. QED
        BY <1>2, <3>1, <3>2 DEF MPBunalloc, FreeConfigReg, Unmaps
    <2>3. Cleaning'
      BY <1>4, <2>1, <2>2 DEF Cleaning
    <2>4. Shape'
      <3>1. cpu' \in Cores
        BY <1>1, <1>5, <2>1, Sizes
      <3>2. QED
        BY <1>1, <2>1, <3>1 DEF Inv, Shape, Starting
    <2>5. QED
      BY <2>1, <2>3, <2>4 DEF Inv, Tables, Memory, Starting
  <1>6. CASE ~(cpu + 1 < 48)
    <2>1. pc' = "down" /\ cpu' = 0
      BY <1>6, Sizes DEF Clean
    <2>2. \A p \in Cores : ~(p >= cpu + 1)
      BY <1>1, <1>6, Sizes
    <2>3. mapped' = {"irq_pins", "luts"} \X Cores
      BY <1>4, <2>2
    <2>4. Shape'
      <3>1. cpu' \in Cores
        BY <2>1, Sizes
      <3>2. QED
        BY <1>1, <2>1, <3>1 DEF Inv, Shape, Starting
    <2>5. QED
      BY <2>1, <2>3, <2>4 DEF Inv, Tables, Memory, Cleaning, Starting
  <1>7. QED
    BY <1>5, <1>6

LEMMA Inductive == Inv /\ [Next]_vars => Inv'
  <1> SUFFICES ASSUME Inv, [Next]_vars PROVE Inv'
    OBVIOUS
  <1>1. CASE UNCHANGED vars
    <2>1. /\ UNCHANGED <<tile, pc, cpu, node_location, irq_pins, locks, luts, mpbs, mapped, air, zeroed>>
          /\ UNCHANGED <<lut, num_pages, own, local_pages, remote_pages>> /\ me' = me
      BY <1>1 DEF vars, tables, airs, memory, me
    <2>2. Shape'
      BY <2>1 DEF Inv, Shape, Starting
    <2>3. Memory'
      <3>1. \A n : LutWith(n)' = LutWith(n)
        BY <2>1 DEF LutWith
      <3>2. LutWith(lut)' = LutWith(lut)
        BY <2>1 DEF LutWith
      <3>3. QED
        BY <2>1, <3>1, <3>2 DEF Inv, Memory
    <2>4. Cleaning'
      BY <2>1 DEF Inv, Cleaning, MPBunalloc, FreeConfigReg, Unmaps
    <2>5. Ready' = Ready /\ \A p : Tabled(p)' <=> Tabled(p)
      BY <2>1 DEF Ready, Tabled, Crb
    <2>6. Tables'
      BY <2>1, <2>5 DEF Inv, Tables, Starting
    <2>7. QED
      BY <2>2, <2>3, <2>4, <2>6 DEF Inv
  <1>2. CASE FindSelf
    BY <1>2, FindSelfStep
  <1>3. CASE MapCore
    BY <1>3, MapCoreStep
  <1>4. CASE Fail
    BY <1>4, FailStep
  <1>5. CASE CopyEntry
    BY <1>5, CopyEntryStep
  <1>6. CASE MapMemory \/ Crash
    BY <1>6, MapMemoryStep
  <1>7. CASE Clean
    BY <1>7, CleanStep
  <1>8. QED
    BY <1>1, <1>2, <1>3, <1>4, <1>5, <1>6, <1>7 DEF Next, Ended

LEMMA Always == Spec => []Inv
  BY InitInv, Inductive, PTL DEF Spec

-----------------------------------------------------------------------------
(***************************************************************************)
(* What it says.                                                           *)
(***************************************************************************)

(* A core goes by the number of its tile, and the macros lead back from    *)
(* the number to the tile.                                                 *)
THEOREM CoresFindThemselves ==
  ASSUME LayoutOfCode
  PROVE  Spec => []LocatesItself
  <1>1. Inv => LocatesItself
    BY TileIs, Sizes DEF Inv, Shape, LocatesItself
  <1>2. QED
    BY <1>1, Always, PTL

(* The first ten pages under the heap are the same on every core, the      *)
(* others its own; but on core 9, whose Linux they are, none is its Linux. *)
(* The remote pages end where the message buffers begin.                   *)
THEOREM TenPagesAreCommon ==
  ASSUME LayoutOfCode
  PROVE  Spec => []SharedPagesAreShared
  <1>1. Inv => SharedPagesAreShared
    <2> SUFFICES ASSUME Inv, pc = "up" PROVE SharedPagesAreShared
      BY DEF SharedPagesAreShared
    <2>1. node_location = me /\ own = LutWith(10) /\ local_pages = 30 /\ remote_pages = 142
      BY DEF Inv, Shape, Memory
    <2>2. ASSUME NEW e \in 0..191
          PROVE  /\ e \in 20..29 => own[e] = <<9, e - 20>>
                 /\ e \notin 20..29 => own[e] = <<me, e>>
      <3>1. own[e] = IF e \in 20..(19 + 10) THEN <<9, e - 20>> ELSE <<me, e>>
        BY <2>1 DEF LutWith
      <3>2. e \in 20..(19 + 10) <=> e \in 20..29
        OBVIOUS
      <3>3. QED
        BY <3>1, <3>2
    <2>3. LOCAL_LUT = 20 /\ LINUX_PRIV_PAGES = 20 /\ MPB_ADDR(0, 0, 0)[1] = 192
      BY Sizes DEF LOCAL_LUT, LINUX_PRIV_PAGES, MPB_ADDR
    <2>4. \A i \in 0..9 : own[LOCAL_LUT + i] = <<9, i>>
      <3>1. \A i \in 0..9 : 20 + i \in 0..191 /\ 20 + i \in 20..29 /\ (20 + i) - 20 = i
        OBVIOUS
      <3>2. QED
        BY <2>2, <2>3, <3>1
    <2>5. \A e \in Window(LOCAL_LUT + 10, local_pages - 10) : own[e] = <<node_location, e>>
      <3>1. Window(LOCAL_LUT + 10, local_pages - 10) = 30..49
        BY <2>1, <2>3 DEF Window
      <3>2. \A e \in 30..49 : e \in 0..191 /\ e \notin 20..29
        OBVIOUS
      <3>3. QED
        BY <2>1, <2>2, <3>1, <3>2
    <2>6. ASSUME NEW e \in Window(0, LINUX_PRIV_PAGES)
          PROVE  /\ own[e] = <<node_location, e>>
                 /\ node_location = 9 \/ \A f \in Window(LOCAL_LUT, local_pages) : own[f] # own[e]
      <3>1. e \in 0..19 /\ e \in 0..191 /\ e \notin 20..29
        BY <2>3 DEF Window
      <3>2. own[e] = <<me, e>>
        BY <2>2, <3>1
      <3>3. ASSUME NEW f \in Window(LOCAL_LUT, local_pages), me # 9
            PROVE  own[f] # own[e]
        <4>1. f \in 20..49 /\ f \in 0..191 /\ f # e
          BY <2>1, <2>3, <3>1 DEF Window
        <4>2. CASE f \in 20..29
          BY <2>2, <3>2, <3>3, <4>1, <4>2
        <4>3. CASE f \notin 20..29
          BY <2>2, <3>2, <4>1, <4>3
        <4>4. QED
          BY <4>2, <4>3
      <3>4. QED
        BY <2>1, <3>2, <3>3
    <2>7. QED
      BY <2>1, <2>3, <2>4, <2>5, <2>6 DEF SharedPagesAreShared
  <1>2. QED
    BY <1>1, Always, PTL

(* SccCleanup unmaps all message buffers and locks, and leaves the others. *)
THEOREM CleanupIsHalf == Spec => []CleanupUnmaps
  <1>1. Inv => CleanupUnmaps
    BY DEF Inv, Cleaning, CleanupUnmaps, Cores
  <1>2. QED
    BY <1>1, Always, PTL

(* The entry through which the registers of a core are reached. *)
LEMMA CrbLeads ==
  ASSUME tile \in Tiles, node_location = me, NEW x \in 0..5, NEW y \in 0..3, NEW z \in 0..1
  PROVE  LET p == PID(x, y, z)
         IN  /\ LeadsTo(Crb(p)[1], CrbRow, 248, x, y) /\ Crb(p)[2] = 0
             /\ p = me => x = tile.x /\ y = tile.y
             /\ LeadsTo(MPB_ADDR(x, y, z)[1], MpbRow, 216, x, y)
  <1> DEFINE p == PID(x, y, z)
  <1>1. p \in Cores /\ X_PID(p) = x /\ Y_PID(p) = y /\ Z_PID(p) = z
    BY Coordinates
  <1>2. X_PID(me) = tile.x /\ Y_PID(me) = tile.y
    BY TileIs
  <1> HIDE DEF p
  <1>3. p = me => x = tile.x /\ y = tile.y
    BY <1>1, <1>2
  <1>4. CrbRow[y + 1] + x = 224 + x + 6 * y /\ MpbRow[y + 1] + x = 192 + x + 6 * y
    <2>1. y = 0 \/ y = 1 \/ y = 2 \/ y = 3
      OBVIOUS
    <2>2. QED
      BY <2>1 DEF CrbRow, MpbRow
  <1>5. LeadsTo(MPB_ADDR(x, y, z)[1], MpbRow, 216, x, y)
    BY <1>4, Sizes DEF LeadsTo, MPB_ADDR
  <1>6. LeadsTo(Crb(p)[1], CrbRow, 248, x, y) /\ Crb(p)[2] = 0
    <2>1. CASE p = me
      BY <1>3, <2>1 DEF Crb, CRB_OWN, LeadsTo
    <2>2. CASE p # me
      BY <1>1, <1>4, <2>2, Sizes DEF Crb, CRB_ADDR, LeadsTo
    <2>3. QED
      BY <2>1, <2>2
  <1>7. QED
    BY <1>3, <1>5, <1>6 DEF p

(* A pointer from MallocConfigReg or MPBalloc is where it should be. *)
LEMMA MappedReaches ==
  ASSUME NEW row, NEW mine, NEW x, NEW y, NEW e, NEW a \in Nat, NEW n, NEW bytes,
         LeadsTo(e, row, mine, x, y), (a % PageBytes) + n <= bytes
  PROVE  Reaches(Mapped(<<e, a>>, bytes), row, mine, x, y, a, n)
  BY Sizes DEF Reaches, Mapped

(* The four tables lead, for each of the 48 cores, to that core's register *)
(* or buffer, wherever on the chip the core is that has mapped them.       *)
THEOREM TablesLeadToCores ==
  ASSUME LayoutOfCode
  PROVE  Spec => []TablesReachCores
  <1>1. Inv => TablesReachCores
    <2> SUFFICES ASSUME Inv, Complete, NEW x \in 0..5, NEW y \in 0..3, NEW z \in 0..1
                 PROVE  LET p == PID(x, y, z)
                        IN  /\ Reaches(irq_pins[p], CrbRow, 248, x, y, GLCFG(z), 4)
                            /\ Reaches(locks[p], CrbRow, 248, x, y, LOCK(z), 1)
                            /\ Reaches(luts[p], CrbRow, 248, x, y, LUT(z), 256 * 8)
                            /\ Reaches(mpbs[p], MpbRow, 216, x, y, MPBSIZE * z, MPBSIZE)
      BY Sizes DEF TablesReachCores
    <2> DEFINE p == PID(x, y, z)
    <2>1. p \in Cores /\ X_PID(p) = x /\ Y_PID(p) = y /\ Z_PID(p) = z
      BY Coordinates
    <2>2. tile \in Tiles /\ node_location = me
      BY DEF Inv, Shape, Complete
    <2>3. /\ LeadsTo(Crb(p)[1], CrbRow, 248, x, y) /\ Crb(p)[2] = 0
          /\ p = me => x = tile.x /\ y = tile.y
          /\ LeadsTo(MPB_ADDR(x, y, z)[1], MpbRow, 216, x, y)
      BY <2>2, CrbLeads
    <2> HIDE DEF p
    <2>4. Tabled(p)
      <3>1. p < Ready
        BY <2>1, Sizes DEF Ready, Complete
      <3>2. QED
        BY <2>1, <3>1 DEF Inv, Tables, Starting, Complete
    <2>5. \A a \in Nat : Plus(Crb(p), a) = <<Crb(p)[1], a>>
      BY <2>3 DEF Plus
    <2>6. GLCFG(z) \in {16, 24} /\ LOCK(z) \in {512, 1024} /\ LUT(z) \in {2048, 4096}
      BY DEF GLCFG, LOCK, LUT
    <2>7. Reaches(irq_pins[p], CrbRow, 248, x, y, GLCFG(z), 4)
      <3>1. irq_pins[p] = Mapped(<<Crb(p)[1], GLCFG(z)>>, PageBytes)
        BY <2>1, <2>4, <2>5, <2>6 DEF Tabled, MallocConfigReg
      <3>2. GLCFG(z) \in Nat /\ (GLCFG(z) % PageBytes) + 4 <= PageBytes
        BY <2>6, Sizes
      <3>3. QED
        BY <2>3, <3>1, <3>2, MappedReaches
    <2>8. Reaches(locks[p], CrbRow, 248, x, y, LOCK(z), 1)
      <3>1. locks[p] = Mapped(<<Crb(p)[1], LOCK(z)>>, PageBytes)
        BY <2>1, <2>4, <2>5, <2>6 DEF Tabled, MallocConfigReg
      <3>2. LOCK(z) \in Nat /\ (LOCK(z) % PageBytes) + 1 <= PageBytes
        BY <2>6, Sizes
      <3>3. QED
        BY <2>3, <3>1, <3>2, MappedReaches
    <2>9. Reaches(luts[p], CrbRow, 248, x, y, LUT(z), 256 * 8)
      <3>1. luts[p] = Mapped(<<Crb(p)[1], LUT(z)>>, PageBytes)
        BY <2>1, <2>4, <2>5, <2>6 DEF Tabled, MallocConfigReg
      <3>2. LUT(z) \in Nat /\ (LUT(z) % PageBytes) + 256 * 8 <= PageBytes
        BY <2>6, Sizes
      <3>3. QED
        BY <2>3, <3>1, <3>2, MappedReaches
    <2>10. Reaches(mpbs[p], MpbRow, 216, x, y, MPBSIZE * z, MPBSIZE)
      <3>1. mpbs[p] = MPBalloc(x, y, z, p = me)
        BY <2>1, <2>2, <2>4 DEF Tabled
      <3>2. MPBSIZE * z \in Nat /\ ((MPBSIZE * z) % PageBytes) + MPBSIZE <= MPBSIZE
        BY Sizes
      <3>3. CASE p = me
        <4>1. mpbs[p] = Mapped(<<216, MPBSIZE * z>>, MPBSIZE)
          <5>1. 0 + MPBSIZE * z = MPBSIZE * z
            BY Sizes
          <5>2. QED
            BY <3>1, <3>3, <5>1 DEF MPBalloc, Plus, MPB_OWN
        <4>2. LeadsTo(216, MpbRow, 216, x, y)
          BY <2>3, <3>3 DEF LeadsTo
        <4>3. QED
          BY <3>2, <4>1, <4>2, MappedReaches
      <3>4. CASE p # me
        <4>1. mpbs[p] = Mapped(<<MPB_ADDR(x, y, z)[1], MPBSIZE * z>>, MPBSIZE)
          BY <3>1, <3>4 DEF MPBalloc, MPB_ADDR
        <4>2. QED
          BY <2>3, <3>2, <4>1, MappedReaches
      <3>5. QED
        BY <3>3, <3>4
    <2>11. QED
      BY <2>7, <2>8, <2>9, <2>10 DEF p
  <1>2. QED
    BY <1>1, Always, PTL

(* Where the two words of an AIR are. *)
LEMMA WordsAre ==
  ASSUME NEW page \in Nat, NEW p \in Nat
  PROVE  AirAt(page, p) = [counter |-> <<249, page + 8 * p>>, init |-> <<249, page + 8 * p + 4>>]
  <1>1. 0 + (page + 4 * (2 * p)) = page + 8 * p /\ 0 + (page + 4 * (2 * p + 1)) = page + 8 * p + 4
    OBVIOUS
  <1>2. QED
    BY <1>1 DEF AirAt, Plus, FPGA_BASE

(* No two cores' AIRs share a word, all words are in the two pages mapped, *)
(* and the core of number 0, and no other, resets them all.                *)
THEOREM RegistersAreApart ==
  ASSUME LayoutOfCode
  PROVE  Spec => []AirsApart
  <1>1. Inv => AirsApart
    <2> SUFFICES ASSUME Inv, Complete PROVE AirsApart
      BY DEF AirsApart
    <2>1. Ready = 48 /\ tile \in Tiles /\ node_location = me
      BY Sizes DEF Inv, Shape, Ready, Complete
    <2> DEFINE Word(i) == IF i < 48 THEN 57344 + 8 * i ELSE 61440 + 8 * (i - 48)
    <2>2. /\ \A i \in 0..47 : Word(i) = 57344 + 8 * i
          /\ \A i \in 0..95 : ~(i < 48) => Word(i) = 61440 + 8 * (i - 48)
          /\ \A i \in 0..95 : Word(i) \in Nat
      OBVIOUS
    <2>3. \A i, j \in 0..95 : /\ Word(i) + 4 # Word(j)
                              /\ i # j => Word(i) # Word(j) /\ Word(i) + 4 # Word(j) + 4
      OBVIOUS
    <2> HIDE DEF Word
    <2>5. ASSUME NEW i \in 0..95
          PROVE  air[i].counter = <<249, Word(i)>> /\ air[i].init = <<249, Word(i) + 4>>
      <3>1. ASSUME NEW p \in 0..47
            PROVE  Tabled(p)
        BY <2>1, Sizes DEF Inv, Tables, Starting, Complete
      <3>2. CASE i < 48
        <4>1. i \in 0..47 /\ PageE = 57344 /\ PageE \in Nat /\ Word(i) = PageE + 8 * i
          BY <2>2, <3>2 DEF PageE
        <4>2. air[i] = AirAt(PageE, i)
          BY <3>1, <4>1 DEF Tabled
        <4>3. AirAt(PageE, i) = [counter |-> <<249, PageE + 8 * i>>, init |-> <<249, PageE + 8 * i + 4>>]
          <5>1. PageE \in Nat /\ i \in Nat
            BY <4>1
          <5>2. QED
            BY <5>1, WordsAre
        <4>4. QED
          BY <4>1, <4>2, <4>3
      <3>3. CASE ~(i < 48)
        <4> DEFINE p == i - 48
        <4>1. p \in 0..47 /\ PageF = 61440 /\ PageF \in Nat /\ 48 + p = i /\ Word(i) = PageF + 8 * p
          BY <2>2, <3>3 DEF PageF
        <4> HIDE DEF p
        <4>2. air[i] = AirAt(PageF, p)
          BY <3>1, <4>1, Sizes DEF Tabled
        <4>3. AirAt(PageF, p) = [counter |-> <<249, PageF + 8 * p>>, init |-> <<249, PageF + 8 * p + 4>>]
          <5>1. PageF \in Nat /\ p \in Nat
            BY <4>1
          <5>2. QED
            BY <5>1, WordsAre
        <4>4. QED
          BY <4>1, <4>2, <4>3
      <3>4. QED
        BY <3>2, <3>3
    <2>6. ASSUME NEW i \in 0..95, NEW j \in 0..95
          PROVE  /\ air[i].init # air[j].counter
                 /\ i # j => air[i].init # air[j].init /\ air[i].counter # air[j].counter
      <3>1. /\ air[i].counter = <<249, Word(i)>> /\ air[i].init = <<249, Word(i) + 4>>
            /\ air[j].counter = <<249, Word(j)>> /\ air[j].init = <<249, Word(j) + 4>>
        BY <2>5
      <3>2. Word(i) + 4 # Word(j) /\ (i # j => Word(i) # Word(j) /\ Word(i) + 4 # Word(j) + 4)
        BY <2>3
      <3>3. QED
        BY <3>1, <3>2
    <2> DEFINE InItsPage(i, a) ==
                 a[1] = 249 /\ a[2] - (IF i < CORES THEN PageE ELSE PageF) \in 0..(PageBytes - 4)
    <2>7. ASSUME NEW i \in 0..95
          PROVE  InItsPage(i, air[i].counter) /\ InItsPage(i, air[i].init)
      <3>1. CORES = 48 /\ PageBytes - 4 = 4092 /\ PageE = 57344 /\ PageF = 61440
        BY Sizes DEF PageE, PageF
      <3>2. /\ Word(i) \in Nat
            /\ i < 48 => Word(i) = 57344 + 8 * i
            /\ ~(i < 48) => Word(i) = 61440 + 8 * (i - 48)
        BY <2>2
      <3>3. ASSUME NEW w \in {Word(i), Word(i) + 4}
            PROVE  w - (IF i < CORES THEN PageE ELSE PageF) \in 0..(PageBytes - 4)
        BY <3>1, <3>2
      <3>4. InItsPage(i, <<249, Word(i)>>) /\ InItsPage(i, <<249, Word(i) + 4>>)
        BY <3>3
      <3>5. QED
        BY <2>5, <3>4
    <2>8. AirsOf(48) = 0..95
      BY Sizes DEF AirsOf
    <2>9. zeroed = IF node_location = 0 THEN {air[i].init : i \in 0..95} ELSE {}
      BY <2>1, <2>8 DEF Inv, Tables, Starting, Complete
    <2>10. node_location = 0 <=> tile = [x |-> 0, y |-> 0, z |-> 0]
      BY <2>1, TileIs
    <2>11. 2 * CORES - 1 = 95 /\ CORES = 48 /\ PageBytes - 4 = 4092
      BY Sizes
    <2>12. zeroed = IF tile = [x |-> 0, y |-> 0, z |-> 0] THEN {air[i].init : i \in 0..95} ELSE {}
      BY <2>9, <2>10
    <2>13. /\ \A i, j \in 0..(2 * CORES - 1) :
                /\ air[i].init # air[j].counter
                /\ i # j => air[i].init # air[j].init /\ air[i].counter # air[j].counter
           /\ \A i \in 0..(2 * CORES - 1) : \A a \in {air[i].counter, air[i].init} :
                /\ a[1] = 249
                /\ a[2] - (IF i < CORES THEN PageE ELSE PageF) \in 0..(PageBytes - 4)
           /\ zeroed = IF tile = [x |-> 0, y |-> 0, z |-> 0]
                         THEN {air[i].init : i \in 0..(2 * CORES - 1)} ELSE {}
      <3>0. 0..(2 * CORES - 1) = 0..95
        BY <2>11
      <3>1. \A i, j \in 0..(2 * CORES - 1) :
              /\ air[i].init # air[j].counter
              /\ i # j => air[i].init # air[j].init /\ air[i].counter # air[j].counter
        BY <2>6, <3>0
      <3>2. \A i \in 0..(2 * CORES - 1) : \A a \in {air[i].counter, air[i].init} :
              /\ a[1] = 249
              /\ a[2] - (IF i < CORES THEN PageE ELSE PageF) \in 0..(PageBytes - 4)
        <4> HIDE DEF InItsPage
        <4>1. \A i \in 0..(2 * CORES - 1) : \A a \in {air[i].counter, air[i].init} : InItsPage(i, a)
          BY <2>7, <3>0
        <4>2. QED
          BY <4>1 DEF InItsPage
      <3>3. QED
        BY <2>12, <3>0, <3>1, <3>2
    <2>14. QED
      BY <2>13 DEF AirsApart
  <1>2. QED
    BY <1>1, Always, PTL

-----------------------------------------------------------------------------
(***************************************************************************)
(* The gate of test1, for any number of nodes, any amount of work and any  *)
(* values that earlier programs left in the registers.                     *)
(***************************************************************************)

(* From its reset on, where node 0 is says what is in the registers;       *)
(* whoever is through the gate since then has seen it at its end.          *)
GateTypes ==
  /\ regs \in [{0, 1} -> Nat]
  /\ indx \in Nat
  /\ label \in [Nodes -> {"SccInit", "reset1", "work", "gate", "look", "done"}]
  /\ seen \in [Nodes -> Nat]
  /\ early \subseteq Others

Gate ==
  /\ label[0] \in {"SccInit", "reset1", "work", "done"}
  /\ label[0] \in {"reset1", "work"} => regs[0] = 0
  /\ label[0] \in {"SccInit", "reset1"} => indx = 0
  /\ label[0] = "work" => regs[1] = indx /\ indx <= Work
  /\ label[0] = "done" => regs[1] = Work
  /\ \A n \in Others \ early : label[n] \in {"look", "done"} => label[0] = "done"
  /\ \A n \in Others \ early : label[n] = "done" => seen[n] = Work

GateInv == GateTypes /\ Gate

LEMMA ZeroIsANode == 0 \in Nodes /\ Work \in Nat
  BY AirAssumption

LEMMA GateInit == Test1Init => GateInv
  BY AirAssumption, ZeroIsANode DEF Test1Init, GateInv, GateTypes, Gate, Others

LEMMA GateStep == GateInv /\ [Test1Next]_test1Vars => GateInv'
  <1> SUFFICES ASSUME GateInv, [Test1Next]_test1Vars
               PROVE  GateInv'
    OBVIOUS
  <1> USE ZeroIsANode DEF Others, Goto
  <1>1. CASE Reset
    BY <1>1 DEF GateInv, GateTypes, Gate, Reset
  <1>2. CASE DoWork
    BY <1>2 DEF GateInv, GateTypes, Gate, DoWork, atomic_inc
  <1>3. CASE OpenGate
    BY <1>3 DEF GateInv, GateTypes, Gate, OpenGate, atomic_inc
  <1>4. ASSUME NEW n \in Others, Start(n)
        PROVE  GateInv'
    BY <1>4 DEF GateInv, GateTypes, Gate, Start
  <1>5. ASSUME NEW n \in Others, Look(n)
        PROVE  GateInv'
    BY <1>5 DEF GateInv, GateTypes, Gate, Look, FindClosed, FindOpen, atomic_read
  <1>6. ASSUME NEW n \in Others, Collect(n)
        PROVE  GateInv'
    BY <1>6 DEF GateInv, GateTypes, Gate, Collect, atomic_read
  <1>7. CASE UNCHANGED test1Vars
    BY <1>7 DEF GateInv, GateTypes, Gate, test1Vars
  <1>8. QED
    BY <1>1, <1>2, <1>3, <1>4, <1>5, <1>6, <1>7 DEF Test1Next, Step, AllDone

(* Every node that passes the gate after node 0 has closed it reads what   *)
(* node 0's work amounts to, no less and no more (air.c:95).               *)
THEOREM GateIsTight == Test1Spec => []GateShowsWork
  <1>1. GateInv => GateShowsWork
    BY DEF GateInv, GateTypes, Gate, GateShowsWork
  <1>2. QED
    BY GateInit, GateStep, <1>1, PTL DEF Test1Spec
=============================================================================

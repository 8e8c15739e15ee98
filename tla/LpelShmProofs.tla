---------------------------- MODULE LpelShmProofs ----------------------------
(***************************************************************************)
(* Proofs about the allocator of off-chip shared memory, for any amount of *)
(* memory, any sizes that are asked for and any addresses that are freed.  *)
(***************************************************************************)
EXTENDS LpelShm, SequenceTheorems, TLAPS

-----------------------------------------------------------------------------
(***************************************************************************)
(* The inductive invariant, of a list bl and the runs h handed out.        *)
(***************************************************************************)
BlockType == [space : Nat, free_size : Nat]

(* Where the block at i ends. *)
EndOf(bl, i) == IF i = Len(bl) THEN Size ELSE bl[i + 1].space

Bounds(bl, i) == bl[i].space..(EndOf(bl, i) - 1)

ListType(bl) == bl \in Seq(BlockType) /\ Len(bl) >= 1
Ends(bl)     == bl[1].space = 0 /\ bl[Len(bl)].space + bl[Len(bl)].free_size = Size
Sorted(bl)   == \A i, j \in 1..Len(bl) : i < j => bl[i].space < bl[j].space
Covered(bl)  == \A x \in Bytes : \E i \in 1..Len(bl) : bl[i].space <= x /\ x < EndOf(bl, i)

(* No free block is in front of another, or of the tail. *)
Merged(bl) ==
  \A i \in 1..(Len(bl) - 1) : bl[i].free_size # 0 =>
    /\ bl[i].free_size = EndOf(bl, i) - bl[i].space
    /\ i + 1 # Len(bl) /\ bl[i + 1].free_size = 0

(* The blocks that count as handed out are those that callers have. *)
Handed(bl, h) ==
  /\ \A i \in 1..(Len(bl) - 1) : bl[i].free_size = 0 => Bounds(bl, i) \in h
  /\ \A r \in h : \E i \in 1..(Len(bl) - 1) : bl[i].free_size = 0 /\ r = Bounds(bl, i)

Sound(bl, h) ==
  ListType(bl) /\ Ends(bl) /\ Sorted(bl) /\ Covered(bl) /\ Merged(bl) /\ Handed(bl, h)

(* What the searches have passed over was of no use. *)
Search ==
  /\ pc \in {"idle", "tail", "fit", "find"}
  /\ pc \in {"idle", "find"} => size = 0
  /\ pc \in {"tail", "fit"} => size \in Nat \ {0}
  /\ pc \in {"tail", "fit", "find"} => b \in 1..tail
  /\ pc = "fit" => blocks[tail].free_size < size /\ \A i \in 1..(b - 1) : blocks[i].free_size < size
  /\ pc = "tail" => b = 1
  /\ ptr \in Nat

Inv == Sound(blocks, held) /\ Search

-----------------------------------------------------------------------------
(***************************************************************************)
(* What Splice makes of a list.                                            *)
(***************************************************************************)
LEMMA SpliceProperties ==
  ASSUME NEW S, NEW s \in Seq(S), NEW t \in Seq(S),
         NEW i \in 1..Len(s), NEW j \in i..Len(s)
  PROVE  LET u == Splice(s, i, j, t)
         IN  /\ u \in Seq(S)
             /\ Len(u) = Len(s) - (j - i + 1) + Len(t)
             /\ \A k \in 1..(i - 1) : u[k] = s[k]
             /\ \A k \in 1..Len(t) : u[i - 1 + k] = t[k]
             /\ \A k \in (j + 1)..Len(s) : u[k - (j - i + 1) + Len(t)] = s[k]
  <1>1. /\ Len(s) \in Nat /\ Len(t) \in Nat /\ i \in Int /\ j \in Int
        /\ 1 <= i /\ i <= j /\ j <= Len(s)
        /\ \A k \in 1..Len(s) : s[k] \in S
    BY LenProperties
  <1>2. PICK front : front = SubSeq(s, 1, i - 1)
    OBVIOUS
  <1>3. PICK back : back = SubSeq(s, j + 1, Len(s))
    OBVIOUS
  <1>4. /\ front \in Seq(S) /\ Len(front) = i - 1
        /\ \A k \in 1..(i - 1) : front[k] = s[k]
    <2>1. \A k \in 1..(i - 1) : s[k] \in S
      BY <1>1
    <2>2. /\ SubSeq(s, 1, i - 1) \in Seq(S)
          /\ Len(SubSeq(s, 1, i - 1)) = IF 1 <= i - 1 THEN (i - 1) - 1 + 1 ELSE 0
          /\ \A k \in 1..((i - 1) - 1 + 1) : SubSeq(s, 1, i - 1)[k] = s[1 + k - 1]
      BY <1>1, <2>1, SubSeqProperties
    <2>3. QED
      BY <1>1, <1>2, <2>2
  <1>5. /\ back \in Seq(S) /\ Len(back) = Len(s) - j
        /\ \A k \in 1..(Len(s) - j) : back[k] = s[j + k]
    <2>1. \A k \in (j + 1)..Len(s) : s[k] \in S
      BY <1>1
    <2>2. /\ SubSeq(s, j + 1, Len(s)) \in Seq(S)
          /\ Len(SubSeq(s, j + 1, Len(s))) = IF j + 1 <= Len(s) THEN Len(s) - (j + 1) + 1 ELSE 0
          /\ \A k \in 1..(Len(s) - (j + 1) + 1) : SubSeq(s, j + 1, Len(s))[k] = s[(j + 1) + k - 1]
      BY <1>1, <2>1, SubSeqProperties
    <2>3. QED
      BY <1>1, <1>3, <2>2
  <1>6. PICK most : most = front \o t
    OBVIOUS
  <1>7. /\ most \in Seq(S) /\ Len(most) = (i - 1) + Len(t)
        /\ \A k \in 1..((i - 1) + Len(t)) : most[k] = IF k <= i - 1 THEN front[k] ELSE t[k - (i - 1)]
    BY <1>4, <1>6, ConcatProperties
  <1>8. PICK u : u = most \o back
    OBVIOUS
  <1>9. /\ u \in Seq(S) /\ Len(u) = Len(most) + Len(back)
        /\ \A k \in 1..(Len(most) + Len(back)) :
             u[k] = IF k <= Len(most) THEN most[k] ELSE back[k - Len(most)]
    BY <1>5, <1>7, <1>8, ConcatProperties
  <1>10. Splice(s, i, j, t) = u
    BY <1>2, <1>3, <1>6, <1>8 DEF Splice
  <1>11. Len(u) = Len(s) - (j - i + 1) + Len(t)
    BY <1>1, <1>5, <1>7, <1>9
  <1>12. \A k \in 1..(i - 1) : u[k] = s[k]
    <2> SUFFICES ASSUME NEW k \in 1..(i - 1) PROVE u[k] = s[k]
      OBVIOUS
    <2>1. /\ k \in 1..(Len(most) + Len(back)) /\ k <= Len(most)
          /\ k \in 1..((i - 1) + Len(t)) /\ k <= i - 1
      BY <1>1, <1>5, <1>7
    <2>2. u[k] = most[k]
      BY <2>1, <1>9
    <2>3. most[k] = front[k]
      BY <2>1, <1>7
    <2>4. QED
      BY <2>2, <2>3, <1>4
  <1>13. \A k \in 1..Len(t) : u[i - 1 + k] = t[k]
    <2> SUFFICES ASSUME NEW k \in 1..Len(t) PROVE u[i - 1 + k] = t[k]
      OBVIOUS
    <2>m. PICK m \in Int : m = i - 1 + k
      BY <1>1
    <2>1. /\ m \in 1..(Len(most) + Len(back)) /\ m <= Len(most)
          /\ m \in 1..((i - 1) + Len(t)) /\ ~(m <= i - 1) /\ m - (i - 1) = k
      BY <1>1, <1>5, <1>7, <2>m
    <2>2. u[m] = most[m]
      BY <2>1, <1>9
    <2>3. most[m] = t[m - (i - 1)]
      BY <2>1, <1>7
    <2>4. QED
      BY <2>1, <2>2, <2>3, <2>m
  <1>14. \A k \in (j + 1)..Len(s) : u[k - (j - i + 1) + Len(t)] = s[k]
    <2> SUFFICES ASSUME NEW k \in (j + 1)..Len(s) PROVE u[k - (j - i + 1) + Len(t)] = s[k]
      OBVIOUS
    <2>0. k - (j - i + 1) + Len(t) \in Int
      BY <1>1
    <2>m. PICK m \in Int : m = k - (j - i + 1) + Len(t)
      BY <2>0
    <2>1. /\ m \in 1..(Len(most) + Len(back)) /\ ~(m <= Len(most)) /\ m - Len(most) = k - j
          /\ k - j \in 1..(Len(s) - j) /\ j + (k - j) = k
      BY <1>1, <1>5, <1>7, <2>m
    <2>2. u[m] = back[m - Len(most)]
      BY <2>1, <1>9
    <2>n. PICK n \in 1..(Len(s) - j) : n = k - j
      BY <2>1
    <2>3. back[n] = s[j + n]
      BY <1>5
    <2>4. QED
      BY <2>1, <2>2, <2>3, <2>m, <2>n
  <1>15. QED
    BY <1>9, <1>10, <1>11, <1>12, <1>13, <1>14

-----------------------------------------------------------------------------
(***************************************************************************)
(* The order of the blocks.                                                *)
(***************************************************************************)
(* Block i has numbers, and lies inside the memory; no block but the tail  *)
(* is empty.                                                               *)
LEMMA BlockFacts ==
  ASSUME NEW bl, NEW h, Sound(bl, h), NEW i \in 1..Len(bl)
  PROVE  /\ Len(bl) \in Nat \ {0} /\ i \in Nat /\ Size \in Nat
         /\ bl[i].space \in Nat /\ bl[i].free_size \in Nat
         /\ bl[i] = Block(bl[i].space, bl[i].free_size)
         /\ bl[i].space <= Size
         /\ EndOf(bl, i) \in Nat /\ EndOf(bl, i) <= Size
         /\ i # Len(bl) => bl[i].space < EndOf(bl, i)
         /\ i = Len(bl) => bl[i].space + bl[i].free_size = EndOf(bl, i)
  <1>1. bl \in Seq(BlockType) /\ Len(bl) \in Nat \ {0} /\ i \in Nat /\ 1 <= i /\ i <= Len(bl)
    BY LenProperties DEF Sound, ListType
  <1>2. \A k \in 1..Len(bl) : bl[k] \in BlockType
    BY <1>1
  <1>3. Size \in Nat
    BY LpelAssumption
  <1>4. \A k \in 1..Len(bl) : bl[k].space \in Nat /\ bl[k].free_size \in Nat
    BY <1>2 DEF BlockType
  <1>5. bl[i] = Block(bl[i].space, bl[i].free_size)
    BY <1>2 DEF BlockType, Block
  <1>6. /\ bl[Len(bl)].space + bl[Len(bl)].free_size = Size
        /\ bl[Len(bl)].space \in Nat /\ bl[Len(bl)].free_size \in Nat
    BY <1>1, <1>4 DEF Sound, Ends
  <1>7. \A k \in 1..Len(bl) : bl[k].space <= bl[Len(bl)].space
    <2> SUFFICES ASSUME NEW k \in 1..Len(bl) PROVE bl[k].space <= bl[Len(bl)].space
      OBVIOUS
    <2>1. bl[k].space \in Nat /\ bl[Len(bl)].space \in Nat
      BY <1>4, <1>6
    <2>2. k < Len(bl) => bl[k].space < bl[Len(bl)].space
      BY <1>1 DEF Sound, Sorted
    <2>3. k = Len(bl) \/ k < Len(bl)
      BY <1>1
    <2>4. QED
      BY <2>1, <2>2, <2>3
  <1>8. \A k \in 1..Len(bl) : bl[k].space <= Size
    <2> SUFFICES ASSUME NEW k \in 1..Len(bl) PROVE bl[k].space <= Size
      OBVIOUS
    <2>1. bl[k].space \in Nat /\ bl[k].space <= bl[Len(bl)].space
      BY <1>4, <1>7
    <2>2. QED
      BY <2>1, <1>6, <1>3
  <1>9. CASE i = Len(bl)
    BY <1>1, <1>3, <1>4, <1>5, <1>6, <1>8, <1>9 DEF EndOf
  <1>10. CASE i # Len(bl)
    <2>1. i + 1 \in 1..Len(bl) /\ i < i + 1
      BY <1>1, <1>10
    <2>2. bl[i].space < bl[i + 1].space
      BY <2>1 DEF Sound, Sorted
    <2>3. bl[i + 1].space \in Nat /\ bl[i + 1].space <= Size
      BY <2>1, <1>4, <1>8
    <2>4. EndOf(bl, i) = bl[i + 1].space
      BY <1>10 DEF EndOf
    <2>5. QED
      BY <2>2, <2>3, <2>4, <1>1, <1>3, <1>4, <1>5, <1>8, <1>10
  <1>11. QED
    BY <1>9, <1>10

(* A block ends where a later one begins, or before. *)
LEMMA BlockOrder ==
  ASSUME NEW bl, NEW h, Sound(bl, h), NEW i \in 1..Len(bl), NEW j \in 1..Len(bl), i <= j
  PROVE  /\ bl[i].space <= bl[j].space
         /\ EndOf(bl, i) <= EndOf(bl, j)
         /\ i # j => EndOf(bl, i) <= bl[j].space /\ bl[i].space < bl[j].space
  <1>1. /\ Len(bl) \in Nat /\ i \in Nat /\ 1 <= i /\ i <= Len(bl)
        /\ bl[i].space \in Nat /\ EndOf(bl, i) \in Nat
    BY BlockFacts
  <1>2. /\ j \in Nat /\ 1 <= j /\ j <= Len(bl) /\ bl[j].space \in Nat /\ EndOf(bl, j) \in Nat
        /\ Size \in Nat /\ bl[j].space <= Size
        /\ j # Len(bl) => bl[j].space < EndOf(bl, j)
        /\ j = Len(bl) => EndOf(bl, j) = Size
    BY BlockFacts DEF EndOf
  <1>3. CASE i = j
    BY <1>1, <1>2, <1>3
  <1>4. CASE i # j
    <2>1. i < j /\ i # Len(bl) /\ i + 1 \in 1..Len(bl)
      BY <1>1, <1>2, <1>4
    <2>2. EndOf(bl, i) = bl[i + 1].space
      BY <2>1 DEF EndOf
    <2>3. i + 1 # j => bl[i + 1].space < bl[j].space
      BY <2>1, <1>1, <1>2 DEF Sound, Sorted
    <2>4. EndOf(bl, i) <= bl[j].space
      BY <2>2, <2>3, <1>1, <1>2
    <2>5. bl[i].space < bl[j].space
      BY <2>1 DEF Sound, Sorted
    <2>6. QED
      BY <2>4, <2>5, <1>1, <1>2
  <1>5. QED
    BY <1>3, <1>4

(* Two blocks have no byte in common. *)
LEMMA BlocksApart ==
  ASSUME NEW bl, NEW h, Sound(bl, h), NEW i \in 1..Len(bl), NEW j \in 1..Len(bl),
         NEW x \in Int, bl[i].space <= x, x < EndOf(bl, i), bl[j].space <= x, x < EndOf(bl, j)
  PROVE  i = j
  <1>1. i \in Nat /\ bl[i].space \in Nat /\ EndOf(bl, i) \in Nat
    BY BlockFacts
  <1>2. j \in Nat /\ bl[j].space \in Nat /\ EndOf(bl, j) \in Nat
    BY BlockFacts
  <1>3. CASE i < j
    <2>1. EndOf(bl, i) <= bl[j].space
      BY <1>1, <1>2, <1>3, BlockOrder
    <2>2. QED
      BY <2>1, <1>1, <1>2
  <1>4. CASE j < i
    <2>1. EndOf(bl, j) <= bl[i].space
      BY <1>1, <1>2, <1>4, BlockOrder
    <2>2. QED
      BY <2>1, <1>1, <1>2
  <1>5. QED
    BY <1>1, <1>2, <1>3, <1>4

-----------------------------------------------------------------------------
(***************************************************************************)
(* Blocks lo to hi become one block with f bytes free: what is handed out  *)
(* of the old list goes on, and the new block is handed out if it is not   *)
(* free.                                                                   *)
(***************************************************************************)
LEMMA MergeSound ==
  ASSUME NEW bl, NEW h, Sound(bl, h), NEW lo \in 1..Len(bl), NEW hi \in lo..Len(bl),
         NEW f \in Nat, NEW h2,
         hi = Len(bl) => bl[lo].space + f = Size,
         hi # Len(bl) /\ f # 0 =>
           /\ f = EndOf(bl, hi) - bl[lo].space
           /\ hi + 1 # Len(bl) /\ bl[hi + 1].free_size = 0,
         lo > 1 /\ bl[lo - 1].free_size # 0 => hi # Len(bl) /\ f = 0,
         \A i \in 1..(Len(bl) - 1) :
           bl[i].free_size = 0 /\ (i < lo \/ i > hi) => Bounds(bl, i) \in h2,
         hi # Len(bl) /\ f = 0 => bl[lo].space..(EndOf(bl, hi) - 1) \in h2,
         \A r \in h2 :
           \/ hi # Len(bl) /\ f = 0 /\ r = bl[lo].space..(EndOf(bl, hi) - 1)
           \/ \E i \in 1..(Len(bl) - 1) :
                bl[i].free_size = 0 /\ (i < lo \/ i > hi) /\ r = Bounds(bl, i)
  PROVE  Sound(Splice(bl, lo, hi, <<Block(bl[lo].space, f)>>), h2)
  <1>1. /\ Len(bl) \in Nat /\ lo \in Nat /\ hi \in Nat
        /\ 1 <= lo /\ lo <= hi /\ hi <= Len(bl) /\ hi \in 1..Len(bl)
        /\ bl \in Seq(BlockType) /\ Size \in Nat
    BY BlockFacts DEF Sound, ListType
  <1>2. PICK t : t = <<Block(bl[lo].space, f)>>
    OBVIOUS
  <1>3. t \in Seq(BlockType) /\ Len(t) = 1 /\ t[1] = Block(bl[lo].space, f)
    <2>1. bl[lo].space \in Nat
      BY BlockFacts
    <2>2. Block(bl[lo].space, f) \in BlockType
      BY <2>1 DEF Block, BlockType
    <2>3. QED
      BY <1>2, <2>2
  <1>4. PICK c : c = Splice(bl, lo, hi, t)
    OBVIOUS
  <1>5. PICK d \in Nat : d = hi - lo
    BY <1>1
  <1>6. /\ c \in Seq(BlockType)
        /\ Len(c) = Len(bl) - (hi - lo + 1) + Len(t)
        /\ \A k \in 1..(lo - 1) : c[k] = bl[k]
        /\ \A k \in 1..Len(t) : c[lo - 1 + k] = t[k]
        /\ \A k \in (hi + 1)..Len(bl) : c[k - (hi - lo + 1) + Len(t)] = bl[k]
    <2>1. /\ Splice(bl, lo, hi, t) \in Seq(BlockType)
          /\ Len(Splice(bl, lo, hi, t)) = Len(bl) - (hi - lo + 1) + Len(t)
          /\ \A k \in 1..(lo - 1) : Splice(bl, lo, hi, t)[k] = bl[k]
          /\ \A k \in 1..Len(t) : Splice(bl, lo, hi, t)[lo - 1 + k] = t[k]
          /\ \A k \in (hi + 1)..Len(bl) :
               Splice(bl, lo, hi, t)[k - (hi - lo + 1) + Len(t)] = bl[k]
      <3>1. bl \in Seq(BlockType) /\ t \in Seq(BlockType)
        BY <1>1, <1>3
      <3>2. QED
        BY <3>1, SpliceProperties, ZenonT(60)
    <2>2. QED
      BY <2>1, <1>4
  <1>7. /\ Len(c) \in Nat /\ Len(c) = Len(bl) - d /\ lo <= Len(c) /\ 1 <= Len(c)
        /\ hi = lo + d /\ (lo = Len(c) <=> hi = Len(bl))
    <2>1. Len(c) = Len(bl) - d /\ hi = lo + d
      BY <1>1, <1>3, <1>5, <1>6
    <2>2. QED
      BY <2>1, <1>1, <1>5
  <1>8. \A k \in 1..Len(c) : k > lo => c[k] = bl[k + d]
    <2> SUFFICES ASSUME NEW k \in 1..Len(c), k > lo PROVE c[k] = bl[k + d]
      OBVIOUS
    <2>1. PICK m \in (hi + 1)..Len(bl) : m = k + d
      BY <1>1, <1>7
    <2>2. c[m - (hi - lo + 1) + Len(t)] = bl[m]
      BY <1>6
    <2>3. m - (hi - lo + 1) + Len(t) = k
      BY <2>1, <1>1, <1>3, <1>7
    <2>4. QED
      BY <2>1, <2>2, <2>3
  <1>9. c[lo] = Block(bl[lo].space, f)
    <2>1. 1 \in 1..Len(t) /\ lo - 1 + 1 = lo
      BY <1>1, <1>3
    <2>2. QED
      BY <2>1, <1>3, <1>6
  <1>10. c[lo].space = bl[lo].space /\ c[lo].free_size = f
    BY <1>9 DEF Block
  <1>11. \A k \in 1..Len(c) : k < lo => c[k] = bl[k]
    BY <1>1, <1>6
  (* The first and the last old block in the block k. *)
  <1> DEFINE From(k) == IF k <= lo THEN k ELSE k + d
             To(k)   == IF k < lo THEN k ELSE k + d
  <1>12. ASSUME NEW k \in 1..Len(c)
         PROVE  /\ From(k) \in 1..Len(bl) /\ To(k) \in 1..Len(bl) /\ From(k) <= To(k)
                /\ k = Len(c) <=> To(k) = Len(bl)
                /\ k # Len(c) => k + 1 \in 1..Len(c) /\ From(k + 1) = To(k) + 1
    <2>0. k \in Nat /\ 1 <= k /\ k <= Len(c)
      BY <1>7
    <2>1. From(k) \in 1..Len(bl) /\ To(k) \in 1..Len(bl) /\ From(k) <= To(k)
      BY <2>0, <1>1, <1>7
    <2>2. k = Len(c) <=> To(k) = Len(bl)
      BY <2>0, <1>1, <1>7
    <2>3. ASSUME k # Len(c) PROVE k + 1 \in 1..Len(c) /\ From(k + 1) = To(k) + 1
      <3>0. Len(c) \in Nat
        BY <1>7
      <3>1. k + 1 \in 1..Len(c) /\ k + 1 \in Nat
        BY <2>0, <2>3, <3>0
      <3>2. CASE k < lo
        BY <3>1, <3>2, <2>0, <1>1
      <3>3. CASE ~(k < lo)
        <4>1. ~(k + 1 <= lo)
          BY <3>3, <2>0, <1>1
        <4>2. QED
          BY <4>1, <3>1, <3>3, <2>0
      <3>4. QED
        BY <3>2, <3>3, <3>1
    <2>4. QED
      BY <2>1, <2>2, <2>3
  <1>13. ASSUME NEW k \in 1..Len(c) PROVE c[k].space = bl[From(k)].space
    <2>1. k < lo \/ k = lo \/ k > lo
      BY <1>1, <1>7
    <2>2. CASE k < lo
      BY <2>2, <1>11
    <2>3. CASE k = lo
      BY <2>3, <1>10
    <2>4. CASE k > lo
      <3>1. c[k] = bl[k + d] /\ From(k) = k + d
        BY <2>4, <1>1, <1>8
      <3>2. QED
        BY <3>1
    <2>5. QED
      BY <2>1, <2>2, <2>3, <2>4
  <1>14. ASSUME NEW k \in 1..Len(c) PROVE EndOf(c, k) = EndOf(bl, To(k))
    <2>1. CASE k = Len(c)
      BY <2>1, <1>12 DEF EndOf
    <2>2. CASE k # Len(c)
      <3>1. k + 1 \in 1..Len(c) /\ From(k + 1) = To(k) + 1 /\ To(k) # Len(bl)
        BY <2>2, <1>12
      <3>2. c[k + 1].space = bl[From(k + 1)].space
        BY <3>1, <1>13
      <3>3. QED
        BY <2>2, <3>1, <3>2 DEF EndOf
    <2>3. QED
      BY <2>1, <2>2
  <1>15. ListType(c)
    BY <1>6, <1>7 DEF ListType
  <1>16. Ends(c)
    <2>1. c[1].space = bl[1].space
      <3>1. 1 \in 1..Len(c) /\ From(1) = 1
        BY <1>1, <1>7
      <3>2. QED
        BY <3>1, <1>13
    <2>2. CASE hi = Len(bl)
      BY <2>1, <2>2, <1>7, <1>10 DEF Sound, Ends
    <2>3. CASE hi # Len(bl)
      <3>0. lo # Len(c)
        BY <2>3, <1>7
      <3>1. Len(c) \in 1..Len(c) /\ Len(c) > lo /\ Len(c) + d = Len(bl)
        <4>1. Len(c) \in Nat /\ 1 <= Len(c) /\ lo \in Nat /\ lo <= Len(c) /\ Len(c) = Len(bl) - d
          BY <1>1, <1>7
        <4>2. Len(bl) \in Nat /\ d \in Nat
          BY <1>1
        <4>3. QED
          BY <4>1, <4>2, <3>0
      <3>2. c[Len(c)] = bl[Len(bl)]
        <4>1. c[Len(c)] = bl[Len(c) + d]
          BY <3>1, <1>8
        <4>2. QED
          BY <4>1, <3>1
      <3>3. QED
        BY <2>1, <3>2 DEF Sound, Ends
    <2>4. QED
      BY <2>2, <2>3
  <1>17. Sorted(c)
    <2> SUFFICES ASSUME NEW i \in 1..Len(c), NEW j \in 1..Len(c), i < j
                 PROVE  c[i].space < c[j].space
      BY DEF Sorted
    <2>1. /\ From(i) \in 1..Len(bl) /\ From(j) \in 1..Len(bl) /\ From(i) < From(j)
      BY <1>1, <1>7
    <2>2. bl[From(i)].space < bl[From(j)].space
      <3> HIDE DEF From
      <3>1. QED
        BY <2>1 DEF Sound, Sorted
    <2>3. c[i].space = bl[From(i)].space /\ c[j].space = bl[From(j)].space
      BY <1>13
    <2>4. QED
      BY <2>2, <2>3
  <1>18. Covered(c)
    <2> SUFFICES ASSUME NEW x \in Bytes
                 PROVE  \E k \in 1..Len(c) : c[k].space <= x /\ x < EndOf(c, k)
      BY DEF Covered
    <2>1. PICK i \in 1..Len(bl) : bl[i].space <= x /\ x < EndOf(bl, i)
      BY DEF Sound, Covered
    <2>2. PICK k \in 1..Len(c) : From(k) <= i /\ i <= To(k)
      <3>1. CASE i < lo
        <4>1. i \in 1..Len(c) /\ From(i) <= i /\ i <= To(i)
          BY <3>1, <1>1, <1>7
        <4>2. QED
          BY <4>1
      <3>2. CASE lo <= i /\ i <= hi
        <4>1. lo \in 1..Len(c) /\ From(lo) <= i /\ i <= To(lo)
          BY <3>2, <1>1, <1>7
        <4>2. QED
          BY <4>1
      <3>3. CASE i > hi
        <4>1. i - d \in 1..Len(c) /\ From(i - d) <= i /\ i <= To(i - d)
          BY <3>3, <1>1, <1>7
        <4>2. QED
          BY <4>1
      <3>4. QED
        BY <3>1, <3>2, <3>3, <1>1
    <2>3. PICK u, v : u = From(k) /\ v = To(k)
      OBVIOUS
    <2>4. u \in 1..Len(bl) /\ v \in 1..Len(bl) /\ u <= i /\ i <= v
      BY <2>2, <2>3, <1>12
    <2>5. c[k].space = bl[u].space /\ EndOf(c, k) = EndOf(bl, v)
      BY <2>3, <1>13, <1>14
    <2>6. bl[u].space <= bl[i].space /\ bl[u].space \in Nat /\ bl[i].space \in Nat
      BY <2>4, BlockOrder, BlockFacts
    <2>7. EndOf(bl, i) <= EndOf(bl, v) /\ EndOf(bl, i) \in Nat /\ EndOf(bl, v) \in Nat
      BY <2>4, BlockOrder, BlockFacts
    <2>8. x \in Int
      BY <1>1 DEF Bytes
    <2> HIDE DEF From, To
    <2>9. bl[u].space <= x
      BY <2>1, <2>6, <2>8
    <2>10. x < EndOf(bl, v)
      BY <2>1, <2>7, <2>8
    <2>11. QED
      BY <2>5, <2>9, <2>10
  <1>19. Merged(c)
    <2> SUFFICES ASSUME NEW k \in 1..(Len(c) - 1), c[k].free_size # 0
                 PROVE  /\ c[k].free_size = EndOf(c, k) - c[k].space
                        /\ k + 1 # Len(c) /\ c[k + 1].free_size = 0
      BY DEF Merged
    <2>1. k \in 1..Len(c) /\ k # Len(c) /\ k \in Nat /\ k + 1 \in 1..Len(c)
      BY <1>7
    <2>2. c[k].space = bl[From(k)].space /\ EndOf(c, k) = EndOf(bl, To(k))
      BY <2>1, <1>13, <1>14
    <2>3. CASE k < lo
      <3>1. k \in 1..(Len(bl) - 1) /\ From(k) = k /\ To(k) = k /\ c[k] = bl[k]
        <4>1. k \in 1..(Len(bl) - 1) /\ From(k) = k /\ To(k) = k
          BY <2>1, <2>3, <1>1
        <4>2. c[k] = bl[k]
          BY <2>1, <2>3, <1>11
        <4>3. QED
          BY <4>1, <4>2
      <3>2. /\ bl[k].free_size = EndOf(bl, k) - bl[k].space
            /\ k + 1 # Len(bl) /\ bl[k + 1].free_size = 0
        BY <3>1 DEF Sound, Merged
      <3>3. CASE k + 1 < lo
        <4>1. c[k + 1] = bl[k + 1]
          BY <2>1, <3>3, <1>11
        <4>2. k + 1 # Len(c)
          BY <2>1, <3>3, <1>1, <1>7
        <4>3. QED
          BY <4>1, <4>2, <3>1, <3>2, <2>2
      <3>4. CASE k + 1 = lo
        <4>1. lo > 1 /\ lo - 1 = k
          BY <2>1, <3>4, <1>1
        <4>2. hi # Len(bl) /\ f = 0
          BY <4>1, <3>1
        <4>3. QED
          BY <4>2, <3>1, <3>2, <3>4, <2>2, <1>7, <1>10
      <3>5. QED
        BY <3>3, <3>4, <2>3, <2>1, <1>1
    <2>4. CASE k = lo
      <3>1. hi # Len(bl) /\ f # 0 /\ From(k) = lo /\ To(k) = hi
        BY <2>1, <2>4, <1>7, <1>10
      <3>2. f = EndOf(bl, hi) - bl[lo].space /\ hi + 1 # Len(bl) /\ bl[hi + 1].free_size = 0
        BY <3>1
      <3>3. c[k + 1] = bl[k + 1 + d] /\ k + 1 + d = hi + 1 /\ (k + 1 # Len(c))
        BY <2>1, <2>4, <3>2, <1>1, <1>7, <1>8
      <3>4. QED
        BY <2>2, <2>4, <3>1, <3>2, <3>3, <1>10
    <2>5. CASE k > lo
      <3>1. /\ k + d \in 1..(Len(bl) - 1) /\ From(k) = k + d /\ To(k) = k + d
            /\ c[k] = bl[k + d]
        BY <2>1, <2>5, <1>1, <1>7, <1>8
      <3>2. PICK m \in 1..(Len(bl) - 1) : m = k + d
        BY <3>1
      <3>3. /\ bl[m].free_size = EndOf(bl, m) - bl[m].space
            /\ m + 1 # Len(bl) /\ bl[m + 1].free_size = 0
        BY <3>1, <3>2 DEF Sound, Merged
      <3>4. c[k + 1] = bl[m + 1] /\ k + 1 # Len(c)
        <4>1. c[k + 1] = bl[k + 1 + d] /\ k + 1 + d = m + 1
          BY <2>1, <2>5, <3>2, <1>1, <1>7, <1>8
        <4>2. k + 1 # Len(c)
          BY <2>1, <3>2, <3>3, <1>1, <1>7
        <4>3. QED
          BY <4>1, <4>2
      <3>5. QED
        BY <2>2, <3>1, <3>2, <3>3, <3>4
    <2>6. QED
      BY <2>1, <2>3, <2>4, <2>5, <1>1
  <1>20. Handed(c, h2)
    <2>1. ASSUME NEW k \in 1..(Len(c) - 1), c[k].free_size = 0
          PROVE  Bounds(c, k) \in h2
      <3>1. k \in 1..Len(c) /\ k # Len(c) /\ k \in Nat
        BY <1>7
      <3>2. c[k].space = bl[From(k)].space /\ EndOf(c, k) = EndOf(bl, To(k))
        BY <3>1, <1>13, <1>14
      <3>3. CASE k < lo
        <4>1. k \in 1..(Len(bl) - 1) /\ From(k) = k /\ To(k) = k /\ c[k] = bl[k]
          BY <3>1, <3>3, <1>1, <1>7, <1>11
        <4>2. Bounds(c, k) = Bounds(bl, k)
          BY <4>1, <3>2 DEF Bounds
        <4>3. QED
          BY <2>1, <3>3, <4>1, <4>2
      <3>4. CASE k = lo
        <4>1. hi # Len(bl) /\ f = 0 /\ From(k) = lo /\ To(k) = hi
          BY <2>1, <3>1, <3>4, <1>7, <1>10
        <4>2. QED
          BY <4>1, <3>2 DEF Bounds
      <3>5. CASE k > lo
        <4>1. /\ k + d \in 1..(Len(bl) - 1) /\ From(k) = k + d /\ To(k) = k + d
              /\ c[k] = bl[k + d] /\ k + d > hi
          BY <3>1, <3>5, <1>1, <1>7, <1>8
        <4>2. PICK m \in 1..(Len(bl) - 1) : m = k + d
          BY <4>1
        <4>3. Bounds(c, k) = Bounds(bl, m)
          BY <4>1, <4>2, <3>2 DEF Bounds
        <4>4. bl[m].free_size = 0 /\ m > hi
          BY <2>1, <4>1, <4>2
        <4>5. QED
          BY <4>3, <4>4
      <3>6. QED
        BY <3>1, <3>3, <3>4, <3>5, <1>1
    <2>2. ASSUME NEW r \in h2
          PROVE  \E k \in 1..(Len(c) - 1) : c[k].free_size = 0 /\ r = Bounds(c, k)
      <3>1. CASE hi # Len(bl) /\ f = 0 /\ r = bl[lo].space..(EndOf(bl, hi) - 1)
        <4>1. lo \in 1..(Len(c) - 1) /\ lo \in 1..Len(c) /\ From(lo) = lo /\ To(lo) = hi
          BY <3>1, <1>1, <1>7
        <4>2. c[lo].space = bl[lo].space /\ EndOf(c, lo) = EndOf(bl, hi)
          BY <4>1, <1>10, <1>14
        <4>3. c[lo].free_size = 0 /\ r = Bounds(c, lo)
          BY <3>1, <4>2, <1>10 DEF Bounds
        <4>4. QED
          BY <4>1, <4>3
      <3>2. CASE \E i \in 1..(Len(bl) - 1) :
                   bl[i].free_size = 0 /\ (i < lo \/ i > hi) /\ r = Bounds(bl, i)
        <4>1. PICK i \in 1..(Len(bl) - 1) :
                     bl[i].free_size = 0 /\ (i < lo \/ i > hi) /\ r = Bounds(bl, i)
          BY <3>2
        <4>2. PICK k \in 1..(Len(c) - 1) :
                     k # lo /\ From(k) = i /\ To(k) = i
          <5>1. CASE i < lo
            <6>1. i \in 1..(Len(c) - 1) /\ i # lo /\ From(i) = i /\ To(i) = i
              BY <5>1, <1>1, <1>7
            <6>2. QED
              BY <6>1
          <5>2. CASE i > hi
            <6>1. i - d \in 1..(Len(c) - 1) /\ i - d # lo /\ From(i - d) = i /\ To(i - d) = i
              BY <5>2, <1>1, <1>7
            <6>2. QED
              BY <6>1
          <5>3. QED
            BY <5>1, <5>2, <4>1
        <4>3. k \in 1..Len(c)
          BY <1>7
        <4>4. c[k].space = bl[i].space /\ EndOf(c, k) = EndOf(bl, i)
          BY <4>2, <4>3, <1>13, <1>14
        <4>5. c[k] = bl[i]
          <5>1. CASE k < lo
            BY <5>1, <4>2, <4>3, <1>11
          <5>2. CASE k > lo
            <6>1. k + d = i
              BY <5>2, <4>2, <4>3, <1>1, <1>7
            <6>2. c[k] = bl[k + d]
              BY <5>2, <4>3, <1>8
            <6>3. QED
              BY <6>1, <6>2
          <5>3. k < lo \/ k > lo
            BY <4>2, <4>3, <1>1, <1>7
          <5>4. QED
            BY <5>1, <5>2, <5>3
        <4>6. QED
          BY <4>1, <4>4, <4>5 DEF Bounds
      <3>3. QED
        BY <3>1, <3>2
    <2>3. QED
      BY <2>1, <2>2 DEF Handed
  <1>21. QED
    BY <1>2, <1>4, <1>15, <1>16, <1>17, <1>18, <1>19, <1>20 DEF Sound

-----------------------------------------------------------------------------
(***************************************************************************)
(* The first n bytes of the free block at i are handed out and the rest,   *)
(* which only the tail may use up, is a block of its own.                  *)
(***************************************************************************)
LEMMA SplitSound ==
  ASSUME NEW bl, NEW h, Sound(bl, h), NEW i \in 1..Len(bl), NEW n \in Nat \ {0},
         n <= bl[i].free_size, i # Len(bl) => n < bl[i].free_size
  PROVE  Sound(Splice(bl, i, i, <<Block(bl[i].space, 0), Block(bl[i].space + n, bl[i].free_size - n)>>),
               h \cup {Run(bl[i].space, n)})
  <1>1. /\ Len(bl) \in Nat /\ i \in Nat /\ 1 <= i /\ i <= Len(bl)
        /\ bl \in Seq(BlockType) /\ Size \in Nat
    BY BlockFacts DEF Sound, ListType
  <1>2. PICK sp, fs : sp = bl[i].space /\ fs = bl[i].free_size
    OBVIOUS
  <1>3. /\ sp \in Nat /\ fs \in Nat /\ n \in Nat /\ n # 0 /\ n <= fs /\ fs - n \in Nat
        /\ EndOf(bl, i) \in Nat
        /\ i # Len(bl) => n < fs
        /\ i = Len(bl) => sp + fs = EndOf(bl, i)
    BY <1>2, BlockFacts
  <1>4. i # Len(bl) => fs = EndOf(bl, i) - sp /\ i + 1 # Len(bl) /\ bl[i + 1].free_size = 0
    <2>1. ASSUME i # Len(bl)
          PROVE  fs = EndOf(bl, i) - sp /\ i + 1 # Len(bl) /\ bl[i + 1].free_size = 0
      <3>1. i \in 1..(Len(bl) - 1) /\ bl[i].free_size # 0
        BY <2>1, <1>1, <1>2, <1>3
      <3>2. QED
        BY <3>1, <1>2 DEF Sound, Merged
    <2>2. QED
      BY <2>1
  <1>5. sp + n <= EndOf(bl, i) /\ (i # Len(bl) => sp + n < EndOf(bl, i))
    BY <1>3, <1>4
  <1>6. PICK t : t = <<Block(sp, 0), Block(sp + n, fs - n)>>
    OBVIOUS
  <1>7. t \in Seq(BlockType) /\ Len(t) = 2 /\ t[1] = Block(sp, 0) /\ t[2] = Block(sp + n, fs - n)
    <2>1. Block(sp, 0) \in BlockType /\ Block(sp + n, fs - n) \in BlockType
      BY <1>3 DEF Block, BlockType
    <2>2. QED
      BY <2>1, <1>6
  <1>8. PICK c : c = Splice(bl, i, i, t)
    OBVIOUS
  <1>9. /\ c \in Seq(BlockType) /\ Len(c) = Len(bl) - (i - i + 1) + Len(t)
        /\ \A k \in 1..(i - 1) : c[k] = bl[k]
        /\ \A k \in 1..Len(t) : c[i - 1 + k] = t[k]
        /\ \A k \in (i + 1)..Len(bl) : c[k - (i - i + 1) + Len(t)] = bl[k]
    <2>0. bl \in Seq(BlockType) /\ t \in Seq(BlockType) /\ i \in i..Len(bl)
      BY <1>1, <1>7
    <2>1. /\ Splice(bl, i, i, t) \in Seq(BlockType)
          /\ Len(Splice(bl, i, i, t)) = Len(bl) - (i - i + 1) + Len(t)
          /\ \A k \in 1..(i - 1) : Splice(bl, i, i, t)[k] = bl[k]
          /\ \A k \in 1..Len(t) : Splice(bl, i, i, t)[i - 1 + k] = t[k]
          /\ \A k \in (i + 1)..Len(bl) :
               Splice(bl, i, i, t)[k - (i - i + 1) + Len(t)] = bl[k]
      BY <2>0, SpliceProperties, ZenonT(60)
    <2>2. QED
      BY <2>1, <1>8
  <1>10. Len(c) = Len(bl) + 1 /\ Len(c) \in Nat
    BY <1>1, <1>7, <1>9
  <1>11. \A k \in 1..Len(c) : k < i => c[k] = bl[k]
    BY <1>1, <1>9
  <1>12. /\ c[i] = Block(sp, 0) /\ c[i].space = sp /\ c[i].free_size = 0
         /\ c[i + 1] = Block(sp + n, fs - n)
         /\ c[i + 1].space = sp + n /\ c[i + 1].free_size = fs - n
    <2>1. 1 \in 1..Len(t) /\ 2 \in 1..Len(t) /\ i - 1 + 1 = i /\ i - 1 + 2 = i + 1
      BY <1>1, <1>7
    <2>2. c[i] = Block(sp, 0) /\ c[i + 1] = Block(sp + n, fs - n)
      BY <2>1, <1>7, <1>9
    <2>3. QED
      BY <2>2 DEF Block
  <1>13. \A k \in 1..Len(c) : k > i + 1 => c[k] = bl[k - 1]
    <2> SUFFICES ASSUME NEW k \in 1..Len(c), k > i + 1 PROVE c[k] = bl[k - 1]
      OBVIOUS
    <2>1. PICK m \in (i + 1)..Len(bl) : m = k - 1
      BY <1>1, <1>10
    <2>2. c[m - (i - i + 1) + Len(t)] = bl[m]
      BY <1>9
    <2>3. m - (i - i + 1) + Len(t) = k
      BY <2>1, <1>1, <1>7
    <2>4. QED
      BY <2>1, <2>2, <2>3
  (* The old block that the block k is, or is a part of. *)
  <1> DEFINE Old(k) == IF k <= i THEN k ELSE k - 1
  <1>14. ASSUME NEW k \in 1..Len(c), k # i, k # i + 1
         PROVE  /\ c[k] = bl[Old(k)] /\ Old(k) \in 1..Len(bl) /\ Old(k) # i
                /\ EndOf(c, k) = EndOf(bl, Old(k))
                /\ k = Len(c) <=> Old(k) = Len(bl)
    <2>1. CASE k < i
      <3>1. Old(k) = k /\ k \in 1..Len(bl) /\ k # Len(c) /\ k # Len(bl) /\ k + 1 \in 1..Len(c)
        BY <2>1, <1>1, <1>10
      <3>2. c[k] = bl[k]
        BY <2>1, <1>11
      <3>3. c[k + 1].space = bl[k + 1].space
        <4>1. CASE k + 1 < i
          BY <3>1, <4>1, <1>11
        <4>2. CASE k + 1 = i
          BY <4>2, <1>2, <1>12
        <4>3. QED
          BY <2>1, <4>1, <4>2, <1>1
      <3>4. QED
        BY <2>1, <3>1, <3>2, <3>3 DEF EndOf
    <2>2. CASE k > i + 1
      <3>1. /\ Old(k) = k - 1 /\ k - 1 \in 1..Len(bl) /\ k - 1 # i /\ k \in Nat
            /\ (k = Len(c) <=> k - 1 = Len(bl))
        BY <2>2, <1>1, <1>10
      <3>2. c[k] = bl[k - 1]
        BY <2>2, <1>13
      <3>3. k # Len(c) => c[k + 1] = bl[k]
        <4>1. ASSUME k # Len(c) PROVE k + 1 \in 1..Len(c) /\ k + 1 > i + 1 /\ (k + 1) - 1 = k
          BY <4>1, <2>2, <1>1, <1>10
        <4>2. ASSUME k # Len(c) PROVE c[k + 1] = bl[(k + 1) - 1]
          BY <4>1, <4>2, <1>13
        <4>3. QED
          BY <4>1, <4>2
      <3>4. (k - 1) + 1 = k
        BY <3>1
      <3>5. EndOf(c, k) = EndOf(bl, k - 1)
        BY <3>1, <3>3, <3>4 DEF EndOf
      <3>6. QED
        BY <3>1, <3>2, <3>5
    <2>3. k < i \/ k > i + 1
      <3>1. k \in Nat /\ i \in Nat
        BY <1>1, <1>10
      <3>2. QED
        BY <3>1, <1>14
    <2>4. QED
      BY <2>1, <2>2, <2>3
  <1>15. EndOf(c, i) = sp + n /\ EndOf(c, i + 1) = EndOf(bl, i)
    <2>1. i # Len(c) /\ EndOf(c, i) = sp + n
      BY <1>1, <1>10, <1>12 DEF EndOf
    <2>2. CASE i = Len(bl)
      <3>1. i + 1 = Len(c)
        BY <2>2, <1>10
      <3>2. EndOf(c, i + 1) = Size /\ EndOf(bl, i) = Size
        BY <2>2, <3>1 DEF EndOf
      <3>3. QED
        BY <2>1, <3>2
    <2>3. CASE i # Len(bl)
      <3>1. /\ i + 1 + 1 \in 1..Len(c) /\ i + 1 + 1 > i + 1 /\ (i + 1 + 1) - 1 = i + 1
            /\ i + 1 # Len(c)
        BY <2>3, <1>1, <1>10
      <3>2. c[i + 1 + 1] = bl[(i + 1 + 1) - 1]
        BY <3>1, <1>13
      <3>3. EndOf(c, i + 1) = c[i + 1 + 1].space
        BY <3>1 DEF EndOf
      <3>4. EndOf(bl, i) = bl[i + 1].space
        BY <2>3 DEF EndOf
      <3>5. QED
        BY <2>1, <3>1, <3>2, <3>3, <3>4
    <2>4. QED
      BY <2>2, <2>3
  <1>16. ListType(c)
    BY <1>1, <1>9, <1>10 DEF ListType
  <1>17. Ends(c)
    <2>1. c[1].space = 0
      <3>1. bl[1].space = 0 /\ 1 \in 1..Len(c)
        BY <1>1, <1>10 DEF Sound, Ends
      <3>2. CASE i = 1
        BY <3>1, <3>2, <1>2, <1>12
      <3>3. CASE i # 1
        <4>1. 1 < i
          BY <3>3, <1>1
        <4>2. QED
          BY <3>1, <4>1, <1>11
      <3>4. QED
        BY <3>2, <3>3
    <2>2. c[Len(c)].space + c[Len(c)].free_size = Size
      <3>1. CASE i = Len(bl)
        <4>1. Len(c) = i + 1 /\ EndOf(bl, i) = Size
          BY <3>1, <1>10 DEF EndOf
        <4>2. (sp + n) + (fs - n) = Size
          BY <3>1, <4>1, <1>3
        <4>3. QED
          BY <4>1, <4>2, <1>12
      <3>2. CASE i # Len(bl)
        <4>1. Len(c) \in 1..Len(c) /\ Len(c) # i /\ Len(c) # i + 1
          BY <3>2, <1>1, <1>10
        <4>2. Old(Len(c)) = Len(bl) /\ c[Len(c)] = bl[Old(Len(c))]
          BY <4>1, <1>14
        <4>3. QED
          BY <4>2 DEF Sound, Ends
      <3>3. QED
        BY <3>1, <3>2
    <2>3. QED
      BY <2>1, <2>2 DEF Ends
  <1>18. Sorted(c)
    <2> SUFFICES ASSUME NEW j \in 1..Len(c), NEW k \in 1..Len(c), j < k
                 PROVE  c[j].space < c[k].space
      BY DEF Sorted
    <2>1. j \in Nat /\ k \in Nat /\ 1 <= j /\ k <= Len(c) /\ 1 <= k /\ j <= Len(c)
      BY <1>10
    <2>2. CASE j < i /\ k <= i
      <3>1. j \in 1..Len(bl) /\ k \in 1..Len(bl)
        BY <2>1, <2>2, <1>1
      <3>2. c[j].space = bl[j].space
        BY <2>2, <1>11
      <3>3. c[k].space = bl[k].space
        BY <2>1, <2>2, <1>1, <1>2, <1>11, <1>12
      <3>4. QED
        BY <3>1, <3>2, <3>3 DEF Sound, Sorted
    <2>3. CASE j < i /\ k = i + 1
      <3>1. j \in 1..Len(bl) /\ bl[j].space \in Nat
        <4>1. j \in 1..Len(bl)
          BY <2>1, <2>3, <1>1
        <4>2. QED
          BY <4>1, BlockFacts
      <3>2. c[j].space = bl[j].space
        BY <2>3, <1>11
      <3>3. bl[j].space < sp
        BY <2>3, <3>1, <1>2 DEF Sound, Sorted
      <3>4. QED
        BY <2>3, <3>1, <3>2, <3>3, <1>3, <1>12
    <2>4. CASE j < i /\ k > i + 1
      <3>1. j \in 1..Len(bl) /\ k - 1 \in 1..Len(bl) /\ j < k - 1
        BY <2>1, <2>4, <1>1, <1>10
      <3>2. c[j].space = bl[j].space /\ c[k] = bl[k - 1]
        BY <2>4, <1>11, <1>13
      <3>3. QED
        BY <3>1, <3>2 DEF Sound, Sorted
    <2>5. CASE j = i /\ k = i + 1
      BY <2>5, <1>3, <1>12
    <2>6. CASE (j = i \/ j = i + 1) /\ k > i + 1
      <3>1. k - 1 \in 1..Len(bl) /\ i < k - 1 /\ i # k - 1 /\ i <= k - 1 /\ i # Len(bl)
        BY <2>1, <2>6, <1>1, <1>10
      <3>2. PICK m \in 1..Len(bl) : m = k - 1
        BY <3>1
      <3>3. EndOf(bl, i) <= bl[m].space /\ bl[m].space \in Nat
        BY <3>1, <3>2, BlockOrder, BlockFacts
      <3>4. sp + n < bl[m].space
        BY <3>1, <3>3, <1>3, <1>5
      <3>5. c[k].space = bl[m].space
        BY <2>6, <3>2, <1>13
      <3>6. QED
        BY <2>6, <3>3, <3>4, <3>5, <1>3, <1>12
    <2>7. CASE i + 1 < j
      <3>1. j - 1 \in 1..Len(bl) /\ k - 1 \in 1..Len(bl) /\ j - 1 < k - 1 /\ k > i + 1
        BY <2>1, <2>7, <1>1, <1>10
      <3>2. c[j] = bl[j - 1] /\ c[k] = bl[k - 1]
        BY <2>7, <3>1, <1>13
      <3>3. QED
        BY <3>1, <3>2 DEF Sound, Sorted
    <2>8. QED
      BY <2>1, <2>2, <2>3, <2>4, <2>5, <2>6, <2>7, <1>1
  <1>19. Covered(c)
    <2> SUFFICES ASSUME NEW x \in Bytes
                 PROVE  \E k \in 1..Len(c) : c[k].space <= x /\ x < EndOf(c, k)
      BY DEF Covered
    <2>1. PICK j \in 1..Len(bl) : bl[j].space <= x /\ x < EndOf(bl, j)
      BY DEF Sound, Covered
    <2>2. x \in Int /\ j \in Nat
      BY <1>1 DEF Bytes
    <2>3. CASE j = i
      <3>1. i \in 1..Len(c) /\ i + 1 \in 1..Len(c)
        BY <1>1, <1>10
      <3>2. CASE x < sp + n
        <4>1. c[i].space <= x /\ x < EndOf(c, i)
          BY <2>1, <2>3, <3>2, <1>2, <1>12, <1>15
        <4>2. QED
          BY <3>1, <4>1
      <3>3. CASE ~(x < sp + n)
        <4>1. c[i + 1].space <= x /\ x < EndOf(c, i + 1)
          BY <2>1, <2>2, <2>3, <3>3, <1>3, <1>12, <1>15
        <4>2. QED
          BY <3>1, <4>1
      <3>4. QED
        BY <3>2, <3>3
    <2>4. CASE j # i
      <3>1. PICK k \in 1..Len(c) : k # i /\ k # i + 1 /\ Old(k) = j
        <4>1. CASE j < i
          <5>1. j \in 1..Len(c) /\ j # i + 1 /\ Old(j) = j
            BY <2>2, <4>1, <1>1, <1>10
          <5>2. QED
            BY <5>1, <2>4
        <4>2. CASE j > i
          <5>1. j + 1 \in 1..Len(c) /\ j + 1 # i /\ j + 1 # i + 1 /\ Old(j + 1) = j
            BY <2>2, <4>2, <1>1, <1>10
          <5>2. QED
            BY <5>1
        <4>3. QED
          BY <2>2, <2>4, <4>1, <4>2, <1>1
      <3>2. c[k] = bl[j] /\ EndOf(c, k) = EndOf(bl, j)
        BY <3>1, <1>14
      <3>3. QED
        BY <2>1, <3>2
    <2>5. QED
      BY <2>3, <2>4
  (* The block before i is not free. *)
  <1>20. i > 1 => bl[i - 1].free_size = 0
    <2> SUFFICES ASSUME i > 1, bl[i - 1].free_size # 0 PROVE FALSE
      OBVIOUS
    <2>1. PICK m \in 1..(Len(bl) - 1) : m = i - 1
      BY <1>1
    <2>2. m + 1 = i
      BY <2>1, <1>1
    <2>3. m + 1 # Len(bl) /\ bl[m + 1].free_size = 0
      BY <2>1 DEF Sound, Merged
    <2>4. QED
      BY <2>2, <2>3, <1>2, <1>3
  <1>21. Merged(c)
    <2> SUFFICES ASSUME NEW k \in 1..(Len(c) - 1), c[k].free_size # 0
                 PROVE  /\ c[k].free_size = EndOf(c, k) - c[k].space
                        /\ k + 1 # Len(c) /\ c[k + 1].free_size = 0
      BY DEF Merged
    <2>1. k \in 1..Len(c) /\ k \in Nat /\ k # Len(c) /\ k + 1 \in 1..Len(c) /\ k # i
      BY <1>10, <1>12
    <2>2. CASE k = i + 1
      <3>1. i # Len(bl)
        BY <2>1, <2>2, <1>10
      <3>2. k + 1 > i + 1 /\ (k + 1) - 1 = i + 1 /\ k + 1 # Len(c)
        BY <2>1, <2>2, <3>1, <1>1, <1>4, <1>10
      <3>3. c[k + 1] = bl[(k + 1) - 1]
        BY <2>1, <3>2, <1>13
      <3>4. fs - n = EndOf(bl, i) - (sp + n)
        BY <3>1, <1>3, <1>4
      <3>5. QED
        BY <2>2, <3>1, <3>2, <3>3, <3>4, <1>4, <1>12, <1>15
    <2>3. CASE k # i + 1
      <3>1. PICK m : m = Old(k)
        OBVIOUS
      <3>2. /\ c[k] = bl[m] /\ m \in 1..Len(bl) /\ m # Len(bl)
            /\ EndOf(c, k) = EndOf(bl, m)
        BY <2>1, <2>3, <3>1, <1>14
      <3>3. m \in 1..(Len(bl) - 1) /\ bl[m].free_size # 0
        BY <3>2, <1>1
      <3>4. /\ bl[m].free_size = EndOf(bl, m) - bl[m].space
            /\ m + 1 # Len(bl) /\ bl[m + 1].free_size = 0
        BY <3>3 DEF Sound, Merged
      <3>5. k < i => k + 1 < i
        <4>1. ASSUME k < i PROVE k + 1 # i
          <5>1. m = k
            BY <4>1, <3>1
          <5>2. k + 1 = i => bl[i].free_size = 0
            BY <5>1, <3>4
          <5>3. QED
            BY <5>2, <1>2, <1>3
        <4>2. QED
          BY <2>1, <4>1, <1>1
      <3>6. /\ k + 1 # i /\ k + 1 # i + 1 /\ Old(k + 1) = m + 1
        BY <2>1, <2>3, <3>1, <3>5, <1>1
      <3>7. c[k + 1] = bl[m + 1] /\ (k + 1 = Len(c) <=> m + 1 = Len(bl))
        BY <2>1, <3>6, <1>14
      <3>8. QED
        BY <3>2, <3>4, <3>7
    <2>4. QED
      BY <2>2, <2>3
  <1>22. Run(sp, n) = Bounds(c, i)
    <2>1. Bounds(c, i) = sp..((sp + n) - 1)
      BY <1>12, <1>15 DEF Bounds
    <2>2. (sp + n) - 1 = sp + n - 1
      BY <1>3
    <2>3. QED
      BY <2>1, <2>2 DEF Run
  <1>23. Handed(c, h \cup {Run(sp, n)})
    <2>1. ASSUME NEW k \in 1..(Len(c) - 1), c[k].free_size = 0
          PROVE  Bounds(c, k) \in h \cup {Run(sp, n)}
      <3>1. k \in 1..Len(c) /\ k \in Nat /\ k # Len(c)
        BY <1>10
      <3>2. CASE k = i
        BY <3>2, <1>22
      <3>3. CASE k = i + 1
        <4>1. i # Len(bl)
          BY <3>1, <3>3, <1>10
        <4>2. fs - n # 0
          BY <4>1, <1>3
        <4>3. QED
          BY <2>1, <3>3, <4>2, <1>12
      <3>4. CASE k # i /\ k # i + 1
        <4>1. PICK m : m = Old(k)
          OBVIOUS
        <4>2. /\ c[k] = bl[m] /\ m \in 1..Len(bl) /\ m # Len(bl)
              /\ EndOf(c, k) = EndOf(bl, m)
          BY <3>1, <3>4, <4>1, <1>14
        <4>3. m \in 1..(Len(bl) - 1) /\ bl[m].free_size = 0 /\ Bounds(c, k) = Bounds(bl, m)
          BY <2>1, <4>2, <1>1 DEF Bounds
        <4>4. QED
          BY <4>3 DEF Sound, Handed
      <3>5. QED
        BY <3>2, <3>3, <3>4
    <2>2. ASSUME NEW r \in h \cup {Run(sp, n)}
          PROVE  \E k \in 1..(Len(c) - 1) : c[k].free_size = 0 /\ r = Bounds(c, k)
      <3>1. CASE r = Run(sp, n)
        <4>1. i \in 1..(Len(c) - 1)
          BY <1>1, <1>10
        <4>2. QED
          BY <3>1, <4>1, <1>12, <1>22
      <3>2. CASE r \in h
        <4>1. PICK j \in 1..(Len(bl) - 1) : bl[j].free_size = 0 /\ r = Bounds(bl, j)
          BY <3>2 DEF Sound, Handed
        <4>2. j # i /\ j \in 1..Len(bl) /\ j \in Nat /\ j # Len(bl)
          BY <4>1, <1>1, <1>2, <1>3
        <4>3. PICK k \in 1..Len(c) : k # i /\ k # i + 1 /\ Old(k) = j
          <5>1. CASE j < i
            <6>1. j \in 1..Len(c) /\ j # i + 1 /\ Old(j) = j
              BY <4>2, <5>1, <1>1, <1>10
            <6>2. QED
              BY <6>1, <4>2
          <5>2. CASE j > i
            <6>1. j + 1 \in 1..Len(c) /\ j + 1 # i /\ j + 1 # i + 1 /\ Old(j + 1) = j
              BY <4>2, <5>2, <1>1, <1>10
            <6>2. QED
              BY <6>1
          <5>3. QED
            BY <4>2, <5>1, <5>2, <1>1
        <4>4. c[k] = bl[j] /\ EndOf(c, k) = EndOf(bl, j) /\ k # Len(c)
          BY <4>2, <4>3, <1>14
        <4>5. k \in 1..(Len(c) - 1)
          BY <4>4, <1>10
        <4>6. QED
          BY <4>1, <4>4, <4>5 DEF Bounds
      <3>3. QED
        BY <3>1, <3>2
    <2>3. QED
      BY <2>1, <2>2 DEF Handed
  <1>24. QED
    BY <1>2, <1>6, <1>8, <1>16, <1>17, <1>18, <1>19, <1>21, <1>23 DEF Sound

-----------------------------------------------------------------------------
(***************************************************************************)
(* What is handed out, and what is not.                                    *)
(***************************************************************************)
(* The run that holds a byte of block i is that block, and all of it.      *)
LEMMA HeldRun ==
  ASSUME NEW bl, NEW h, Sound(bl, h), NEW i \in 1..Len(bl), NEW r \in h, NEW x \in r,
         x \in Int, bl[i].space <= x, x < EndOf(bl, i)
  PROVE  i # Len(bl) /\ bl[i].free_size = 0 /\ r = Bounds(bl, i)
  <1>1. PICK j \in 1..(Len(bl) - 1) : bl[j].free_size = 0 /\ r = Bounds(bl, j)
    BY DEF Sound, Handed
  <1>2. j \in 1..Len(bl) /\ j # Len(bl)
    BY BlockFacts
  <1>3. bl[j].space \in Nat /\ EndOf(bl, j) \in Nat
    BY <1>2, BlockFacts
  <1>4. bl[j].space <= x /\ x < EndOf(bl, j)
    BY <1>1, <1>3 DEF Bounds
  <1>5. i = j
    BY <1>2, <1>4, BlocksApart
  <1>6. QED
    BY <1>1, <1>2, <1>5

(* A block but the tail that is handed out is in a caller's hands, from    *)
(* its address on.                                                         *)
LEMMA HandedOut ==
  ASSUME NEW bl, NEW h, Sound(bl, h), NEW i \in 1..Len(bl), i # Len(bl), bl[i].free_size = 0
  PROVE  /\ Bounds(bl, i) \in h
         /\ \A x \in Int : bl[i].space <= x /\ x < EndOf(bl, i) => x \in Bounds(bl, i)
         /\ bl[i].space \in Bounds(bl, i)
  <1>1. i \in 1..(Len(bl) - 1)
    BY BlockFacts
  <1>2. bl[i].space \in Nat /\ EndOf(bl, i) \in Nat /\ bl[i].space < EndOf(bl, i)
    BY BlockFacts
  <1>3. Bounds(bl, i) \in h
    BY <1>1 DEF Sound, Handed
  <1>4. \A x \in Int : bl[i].space <= x /\ x < EndOf(bl, i) => x \in Bounds(bl, i)
    BY <1>2 DEF Bounds
  <1>5. QED
    BY <1>2, <1>3, <1>4

(* A block with bytes free: what it has, and who is around it.             *)
LEMMA FreeBlock ==
  ASSUME NEW bl, NEW h, Sound(bl, h), NEW i \in 1..Len(bl), bl[i].free_size # 0
  PROVE  /\ bl[i].space + bl[i].free_size = EndOf(bl, i)
         /\ i # Len(bl) =>
              i + 1 \in 1..Len(bl) /\ i + 1 # Len(bl) /\ bl[i + 1].free_size = 0
         /\ i > 1 => bl[i - 1].free_size = 0
  <1>1. /\ Len(bl) \in Nat /\ i \in Nat /\ 1 <= i /\ i <= Len(bl)
        /\ bl[i].space \in Nat /\ bl[i].free_size \in Nat /\ EndOf(bl, i) \in Nat
        /\ i = Len(bl) => bl[i].space + bl[i].free_size = EndOf(bl, i)
    BY BlockFacts
  <1>2. ASSUME i # Len(bl)
        PROVE  /\ i + 1 \in 1..Len(bl) /\ i + 1 # Len(bl) /\ bl[i + 1].free_size = 0
               /\ bl[i].free_size = EndOf(bl, i) - bl[i].space
    <2>1. i \in 1..(Len(bl) - 1) /\ i + 1 \in 1..Len(bl)
      BY <1>1, <1>2
    <2>2. QED
      BY <2>1 DEF Sound, Merged
  <1>3. i > 1 => bl[i - 1].free_size = 0
    <2> SUFFICES ASSUME i > 1, bl[i - 1].free_size # 0 PROVE FALSE
      OBVIOUS
    <2>1. PICK m \in 1..(Len(bl) - 1) : m = i - 1
      BY <1>1
    <2>2. m + 1 = i
      BY <2>1, <1>1
    <2>3. bl[m + 1].free_size = 0
      BY <2>1 DEF Sound, Merged
    <2>4. QED
      BY <2>2, <2>3
  <1>4. QED
    BY <1>1, <1>2, <1>3

(* The first n bytes of a block with as many free can be handed out.       *)
LEMMA RoomInBlock ==
  ASSUME NEW bl, NEW h, Sound(bl, h), NEW i \in 1..Len(bl), NEW n \in Nat \ {0},
         n <= bl[i].free_size
  PROVE  /\ bl[i].space \in Bytes
         /\ Run(bl[i].space, n) \subseteq Bytes
         /\ \A r \in h : r \cap Run(bl[i].space, n) = {}
  <1>1. /\ bl[i].space \in Nat /\ bl[i].free_size \in Nat /\ EndOf(bl, i) \in Nat
        /\ EndOf(bl, i) <= Size /\ Size \in Nat
    BY BlockFacts
  <1>2. bl[i].space + bl[i].free_size = EndOf(bl, i)
    BY <1>1, FreeBlock
  <1>3. ASSUME NEW x \in Run(bl[i].space, n)
        PROVE  x \in Int /\ bl[i].space <= x /\ x < EndOf(bl, i)
    BY <1>1, <1>2 DEF Run
  <1>4. Run(bl[i].space, n) \subseteq Bytes
    BY <1>1, <1>3 DEF Bytes
  <1>5. ASSUME NEW r \in h, NEW x \in r, x \in Run(bl[i].space, n) PROVE FALSE
    <2>1. x \in Int /\ bl[i].space <= x /\ x < EndOf(bl, i)
      BY <1>3, <1>5
    <2>2. bl[i].free_size = 0
      BY <2>1, HeldRun
    <2>3. QED
      BY <2>2, <1>1
  <1>6. bl[i].space \in Run(bl[i].space, n)
    BY <1>1 DEF Run
  <1>7. QED
    BY <1>4, <1>5, <1>6

(* No n bytes in a row are free if no block has as many.                   *)
LEMMA NoRoom ==
  ASSUME NEW bl, NEW h, Sound(bl, h), NEW n \in Nat \ {0},
         \A i \in 1..Len(bl) : bl[i].free_size < n,
         NEW s \in Bytes, Run(s, n) \subseteq Bytes, \A r \in h : r \cap Run(s, n) = {}
  PROVE  FALSE
  <1>1. PICK i \in 1..Len(bl) : bl[i].space <= s /\ s < EndOf(bl, i)
    BY DEF Sound, Covered
  <1>2. /\ bl[i].space \in Nat /\ bl[i].free_size \in Nat /\ EndOf(bl, i) \in Nat
        /\ Size \in Nat /\ Len(bl) \in Nat
        /\ i = Len(bl) => bl[i].space + bl[i].free_size = EndOf(bl, i)
        /\ bl[i].free_size < n
    BY BlockFacts
  <1>3. s \in Int /\ s \in Nat
    BY <1>2 DEF Bytes
  <1>4. s \in Run(s, n)
    BY <1>3 DEF Run
  <1>5. CASE i # Len(bl) /\ bl[i].free_size = 0
    <2>1. Bounds(bl, i) \in h /\ s \in Bounds(bl, i)
      BY <1>1, <1>3, <1>5, HandedOut
    <2>2. QED
      BY <2>1, <1>4
  <1>6. CASE i = Len(bl)
    <2>1. EndOf(bl, i) = Size
      BY <1>6 DEF EndOf
    <2>2. s + n - 1 \in Run(s, n)
      BY <1>3 DEF Run
    <2>3. s + n - 1 \in Bytes
      BY <2>2
    <2>4. s + n - 1 <= Size - 1
      BY <2>3, <1>2 DEF Bytes
    <2>5. QED
      BY <2>1, <2>4, <1>1, <1>2, <1>3, <1>6
  <1>7. CASE i # Len(bl) /\ bl[i].free_size # 0
    <2>1. /\ bl[i].space + bl[i].free_size = EndOf(bl, i)
          /\ i + 1 \in 1..Len(bl) /\ i + 1 # Len(bl) /\ bl[i + 1].free_size = 0
      BY <1>7, FreeBlock
    <2>2. Bounds(bl, i + 1) \in h /\ bl[i + 1].space \in Bounds(bl, i + 1)
      BY <2>1, HandedOut
    <2>3. EndOf(bl, i) = bl[i + 1].space
      BY <1>7 DEF EndOf
    <2>4. EndOf(bl, i) \in Run(s, n)
      BY <2>1, <1>1, <1>2, <1>3 DEF Run
    <2>5. QED
      BY <2>2, <2>3, <2>4
  <1>8. QED
    BY <1>5, <1>6, <1>7

-----------------------------------------------------------------------------
(***************************************************************************)
(* The steps that change the list.                                         *)
(***************************************************************************)
LEMMA InvFacts ==
  ASSUME Inv
  PROVE  /\ Sound(blocks, held) /\ tail \in Nat \ {0} /\ tail \in 1..tail /\ tail = Len(blocks)
         /\ pc \in {"tail", "fit", "find"} => b \in 1..Len(blocks)
         /\ pc \in {"tail", "fit"} => size \in Nat \ {0}
         /\ pc \in {"idle", "find"} => size = 0
  <1>1. Sound(blocks, held) /\ Search
    BY DEF Inv
  <1>2. Len(blocks) \in Nat \ {0}
    BY <1>1, LenProperties DEF Sound, ListType
  <1>3. QED
    BY <1>1, <1>2 DEF Search, tail

LEMMA TakeFromTailSound ==
  ASSUME Inv, TakeFromTail
  PROVE  /\ Sound(blocks', held')
         /\ held' = held \cup {Run(blocks[tail].space, size)}
         /\ size <= blocks[tail].free_size
  <1>1. /\ Sound(blocks, held) /\ tail = Len(blocks) /\ tail \in 1..Len(blocks)
        /\ size \in Nat \ {0} /\ blocks[tail].free_size >= size
    BY InvFacts DEF TakeFromTail
  <1>2. blocks[tail].free_size \in Nat
    BY <1>1, BlockFacts
  <1>3. size <= blocks[tail].free_size
    BY <1>1, <1>2
  <1>4. /\ blocks' = Splice(blocks, tail, tail,
                       <<Block(blocks[tail].space, 0),
                         Block(blocks[tail].space + size, blocks[tail].free_size - size)>>)
        /\ held' = held \cup {Run(blocks[tail].space, size)}
    BY DEF TakeFromTail
  <1>5. QED
    BY <1>1, <1>3, <1>4, SplitSound

LEMMA TakeBlockSound ==
  ASSUME Inv, TakeBlock
  PROVE  /\ Sound(blocks', held')
         /\ held' = held \cup {Run(blocks[b].space, size)}
         /\ b \in 1..Len(blocks) /\ size <= blocks[b].free_size
  <1>1. /\ Sound(blocks, held) /\ b \in 1..Len(blocks) /\ size \in Nat \ {0}
        /\ blocks[b].free_size >= size
        /\ blocks[Len(blocks)].free_size < size
    BY InvFacts DEF TakeBlock, Inv, Search, tail
  <1>2. PICK sp, fs : sp = blocks[b].space /\ fs = blocks[b].free_size
    OBVIOUS
  <1>3. /\ Len(blocks) \in Nat /\ b \in Nat /\ 1 <= b /\ b <= Len(blocks)
        /\ sp \in Nat /\ fs \in Nat /\ EndOf(blocks, b) \in Nat
        /\ size <= fs /\ fs # 0 /\ size \in Nat
    BY <1>1, <1>2, BlockFacts
  <1>4. b # Len(blocks)
    BY <1>1, <1>2, <1>3
  <1>5. /\ blocks' = Splice(blocks, b, b, Divide(blocks[b]))
        /\ held' = held \cup {Run(sp, size)}
    BY <1>2 DEF TakeBlock
  <1>6. CASE fs > size
    <2>1. blocks' = Splice(blocks, b, b, <<Block(sp, 0), Block(sp + size, fs - size)>>)
      BY <1>2, <1>5, <1>6 DEF Divide
    <2>2. size <= fs /\ size < fs
      BY <1>3, <1>6
    <2>3. Sound(blocks', held')
      BY <1>1, <1>2, <1>5, <2>1, <2>2, SplitSound
    <2>4. QED
      BY <2>3, <1>1, <1>2, <1>3, <1>5
  <1>7. CASE ~(fs > size)
    <2>1. fs = size
      BY <1>3, <1>7
    <2>2. blocks' = Splice(blocks, b, b, <<Block(blocks[b].space, 0)>>)
      BY <1>2, <1>5, <1>7 DEF Divide
    <2>3. sp + fs = EndOf(blocks, b)
      BY <1>1, <1>2, <1>3, FreeBlock
    <2>4. blocks[b].space..(EndOf(blocks, b) - 1) = Run(sp, size)
      <3>1. sp + size - 1 = EndOf(blocks, b) - 1
        BY <1>3, <2>1, <2>3
      <3>2. QED
        BY <1>2, <3>1 DEF Run
    <2>5. \A i \in 1..(Len(blocks) - 1) :
            blocks[i].free_size = 0 /\ (i < b \/ i > b) => Bounds(blocks, i) \in held'
      BY <1>1, <1>5 DEF Sound, Handed
    <2>6. b # Len(blocks) /\ 0 = 0 => blocks[b].space..(EndOf(blocks, b) - 1) \in held'
      BY <2>4, <1>5
    <2>7. \A r \in held' :
            \/ b # Len(blocks) /\ 0 = 0 /\ r = blocks[b].space..(EndOf(blocks, b) - 1)
            \/ \E i \in 1..(Len(blocks) - 1) :
                 blocks[i].free_size = 0 /\ (i < b \/ i > b) /\ r = Bounds(blocks, i)
      <3> SUFFICES ASSUME NEW r \in held', r # Run(sp, size)
                   PROVE  \E i \in 1..(Len(blocks) - 1) :
                            blocks[i].free_size = 0 /\ (i < b \/ i > b) /\ r = Bounds(blocks, i)
        BY <1>4, <2>4
      <3>1. r \in held
        BY <1>5
      <3>2. PICK i \in 1..(Len(blocks) - 1) :
              blocks[i].free_size = 0 /\ r = Bounds(blocks, i)
        BY <3>1, <1>1 DEF Sound, Handed
      <3>3. i # b
        BY <3>2, <1>2, <1>3
      <3>4. i < b \/ i > b
        BY <3>3, <1>3
      <3>5. QED
        BY <3>2, <3>4
    <2>8. /\ b \in b..Len(blocks)
          /\ b > 1 /\ blocks[b - 1].free_size # 0 => b # Len(blocks) /\ 0 = 0
          /\ b = Len(blocks) => blocks[b].space + 0 = Size
          /\ (b # Len(blocks) /\ 0 # 0 =>
               /\ 0 = EndOf(blocks, b) - blocks[b].space
               /\ b + 1 # Len(blocks) /\ blocks[b + 1].free_size = 0)
      BY <1>3, <1>4
    <2>9. Sound(Splice(blocks, b, b, <<Block(blocks[b].space, 0)>>), held')
      <3>1. 0 \in Nat
        OBVIOUS
      <3>2. QED
        BY <1>1, <2>5, <2>6, <2>7, <2>8, <3>1, MergeSound
    <2>10. QED
      BY <2>2, <2>9, <1>1, <1>2, <1>3, <1>5
  <1>8. QED
    BY <1>6, <1>7

(* Replacing one element by itself changes nothing. *)
LEMMA SpliceSame ==
  ASSUME NEW S, NEW s \in Seq(S), NEW i \in 1..Len(s)
  PROVE  Splice(s, i, i, <<s[i]>>) = s
  <1>1. Len(s) \in Nat /\ i \in Nat /\ 1 <= i /\ i <= Len(s) /\ i \in i..Len(s) /\ s[i] \in S
    BY LenProperties
  <1>2. PICK t : t = <<s[i]>>
    OBVIOUS
  <1>3. t \in Seq(S) /\ Len(t) = 1 /\ t[1] = s[i]
    BY <1>1, <1>2
  <1>4. PICK u : u = Splice(s, i, i, t)
    OBVIOUS
  <1>5. /\ u \in Seq(S) /\ Len(u) = Len(s) - (i - i + 1) + Len(t)
        /\ \A k \in 1..(i - 1) : u[k] = s[k]
        /\ \A k \in 1..Len(t) : u[i - 1 + k] = t[k]
        /\ \A k \in (i + 1)..Len(s) : u[k - (i - i + 1) + Len(t)] = s[k]
    <2>1. /\ Splice(s, i, i, t) \in Seq(S)
          /\ Len(Splice(s, i, i, t)) = Len(s) - (i - i + 1) + Len(t)
          /\ \A k \in 1..(i - 1) : Splice(s, i, i, t)[k] = s[k]
          /\ \A k \in 1..Len(t) : Splice(s, i, i, t)[i - 1 + k] = t[k]
          /\ \A k \in (i + 1)..Len(s) : Splice(s, i, i, t)[k - (i - i + 1) + Len(t)] = s[k]
      BY <1>1, <1>3, SpliceProperties, ZenonT(60)
    <2>2. QED
      BY <2>1, <1>4
  <1>6. Len(u) = Len(s)
    BY <1>1, <1>3, <1>5
  <1>7. \A k \in 1..Len(s) : u[k] = s[k]
    <2> SUFFICES ASSUME NEW k \in 1..Len(s) PROVE u[k] = s[k]
      OBVIOUS
    <2>1. CASE k < i
      BY <2>1, <1>1, <1>5
    <2>2. CASE k = i
      <3>1. 1 \in 1..Len(t) /\ i - 1 + 1 = i
        BY <1>1, <1>3
      <3>2. QED
        BY <2>2, <3>1, <1>3, <1>5
    <2>3. CASE k > i
      <3>1. k \in (i + 1)..Len(s) /\ k - (i - i + 1) + Len(t) = k
        BY <2>3, <1>1, <1>3
      <3>2. QED
        BY <3>1, <1>5
    <2>4. QED
      BY <2>1, <2>2, <2>3, <1>1
  <1>8. u = s
    BY <1>5, <1>6, <1>7, SeqEqual
  <1>9. QED
    BY <1>2, <1>4, <1>8

(* Freeing a block that is handed out takes its run back; the address of a *)
(* free block changes nothing.                                             *)
LEMMA ReleaseSound ==
  ASSUME Inv, Release
  PROVE  /\ Sound(blocks', held')
         /\ b \in 1..Len(blocks)
         /\ blocks[b].free_size # 0 => blocks' = blocks /\ held' = held
         /\ blocks[b].free_size = 0 =>
              Bounds(blocks, b) \in held /\ held' = held \ {Bounds(blocks, b)}
  <1>1. /\ Sound(blocks, held) /\ b \in 1..Len(blocks) /\ b # Len(blocks) /\ tail = Len(blocks)
        /\ blocks[b].space = ptr
    BY InvFacts DEF Release
  <1>2. /\ Len(blocks) \in Nat /\ b \in Nat /\ 1 <= b /\ b < Len(blocks)
        /\ ptr \in Nat /\ EndOf(blocks, b) \in Nat /\ ptr < EndOf(blocks, b)
        /\ blocks[b].free_size \in Nat /\ blocks[b] = Block(ptr, blocks[b].free_size)
    BY <1>1, BlockFacts
  <1>3. /\ b + 1 \in 1..Len(blocks) /\ EndOf(blocks, b) = blocks[b + 1].space
        /\ Span(b) = EndOf(blocks, b) - ptr
    BY <1>1, <1>2 DEF EndOf, Span
  <1>4. blocks[b + 1].free_size \in Nat /\ EndOf(blocks, b + 1) \in Nat
    BY <1>1, <1>3, BlockFacts
  <1>5. PICK j1 \in BOOLEAN, j2 \in BOOLEAN :
          /\ j1 = (b > 1 /\ blocks[b - 1].free_size > 0)
          /\ j2 = (blocks[b + 1].free_size > 0 \/ b + 1 = Len(blocks))
    OBVIOUS
  <1>6. PICK lo, hi : lo = (IF j1 THEN b - 1 ELSE b) /\ hi = (IF j2 THEN b + 1 ELSE b)
    OBVIOUS
  <1>7. /\ lo \in 1..Len(blocks) /\ hi \in lo..Len(blocks) /\ hi \in 1..Len(blocks)
        /\ lo <= b /\ b <= hi /\ lo \in Nat /\ hi \in Nat
    <2>1. lo = b \/ (lo = b - 1 /\ b > 1)
      BY <1>5, <1>6
    <2>2. hi = b \/ hi = b + 1
      BY <1>6
    <2>3. lo \in Nat /\ 1 <= lo /\ lo <= b
      BY <2>1, <1>2
    <2>4. hi \in Nat /\ b <= hi /\ hi <= Len(blocks)
      BY <2>2, <1>2
    <2>5. QED
      BY <2>3, <2>4, <1>2
  <1>8. held' = {r \in held : ptr \notin r}
    BY DEF Release
  (* The new block is as long as those it is made of. *)
  <1>9. PICK f \in Nat : f = EndOf(blocks, hi) - blocks[lo].space /\ f # 0
    <2>1. /\ blocks[lo].space \in Nat /\ EndOf(blocks, hi) \in Nat
          /\ blocks[lo].space <= blocks[b].space
          /\ EndOf(blocks, b) <= EndOf(blocks, hi)
      BY <1>1, <1>7, BlockFacts, BlockOrder
    <2>2. EndOf(blocks, hi) - blocks[lo].space \in Nat /\ EndOf(blocks, hi) - blocks[lo].space # 0
      BY <2>1, <1>1, <1>2
    <2>3. QED
      BY <2>2
  <1>10. blocks' = Splice(blocks, lo, hi, <<Block(blocks[lo].space, f)>>)
    <2>1. PICK b1, b3 :
            /\ b1 = (IF j1 THEN blocks[b - 1] ELSE Block(ptr, 0))
            /\ b3 = (IF j2 THEN blocks[b + 1].free_size ELSE 0)
      OBVIOUS
    <2>2. blocks' = Splice(blocks, lo, hi, <<Block(b1.space, b1.free_size + Span(b) + b3)>>)
      BY <1>1, <1>5, <1>6, <2>1 DEF Release, Joins
    <2>3. /\ b1.space = blocks[lo].space /\ b1.space \in Nat
          /\ b1.free_size = ptr - blocks[lo].space
      <3>1. CASE j1
        <4>1. /\ lo = b - 1 /\ b1 = blocks[lo] /\ blocks[lo].free_size # 0 /\ lo # Len(blocks)
              /\ lo + 1 = b
          <5>1. lo = b - 1 /\ b1 = blocks[lo] /\ blocks[lo].free_size > 0
            BY <3>1, <1>5, <1>6, <2>1
          <5>2. blocks[lo].free_size \in Nat
            BY <1>1, <1>7, BlockFacts
          <5>3. QED
            BY <5>1, <5>2, <1>2
        <4>2. /\ blocks[lo].space \in Nat /\ blocks[lo].free_size \in Nat
              /\ blocks[lo].space + blocks[lo].free_size = EndOf(blocks, lo)
          BY <4>1, <1>1, <1>7, BlockFacts, FreeBlock
        <4>3. EndOf(blocks, lo) = ptr
          BY <4>1, <1>1 DEF EndOf
        <4>4. QED
          BY <4>1, <4>2, <4>3, <1>2
      <3>2. CASE ~j1
        <4>1. lo = b /\ b1 = Block(ptr, 0)
          BY <3>2, <1>6, <2>1
        <4>2. b1.space = ptr /\ b1.free_size = 0
          BY <4>1 DEF Block
        <4>3. QED
          BY <4>1, <4>2, <1>1, <1>2
      <3>3. QED
        BY <3>1, <3>2
    <2>4. b3 = EndOf(blocks, hi) - EndOf(blocks, b)
      <3>1. CASE j2
        <4>1. hi = b + 1 /\ b3 = blocks[hi].free_size
          BY <3>1, <1>6, <2>1
        <4>2. blocks[hi].space + blocks[hi].free_size = EndOf(blocks, hi)
          <5>1. CASE blocks[hi].free_size # 0
            BY <5>1, <1>1, <1>7, FreeBlock
          <5>2. CASE blocks[hi].free_size = 0
            <6>1. hi = Len(blocks)
              <7>1. ~(blocks[b + 1].free_size > 0)
                BY <5>2, <4>1
              <7>2. QED
                BY <7>1, <3>1, <4>1, <1>5
            <6>2. QED
              BY <6>1, <1>1, <1>7, BlockFacts
          <5>3. QED
            BY <5>1, <5>2
        <4>3. QED
          BY <4>1, <4>2, <1>2, <1>3, <1>4
      <3>2. CASE ~j2
        <4>1. hi = b /\ b3 = 0
          BY <3>2, <1>6, <2>1
        <4>2. QED
          BY <4>1, <1>2
      <3>3. QED
        BY <3>1, <3>2
    <2>5. b1.free_size + Span(b) + b3 = f
      <3>1. EndOf(blocks, hi) \in Nat /\ blocks[lo].space \in Nat
        BY <1>1, <1>7, BlockFacts
      <3>2. PICK e \in Nat, g \in Nat, u \in Nat :
              e = EndOf(blocks, hi) /\ g = EndOf(blocks, b) /\ u = blocks[lo].space
        BY <3>1, <1>2
      <3>3. /\ b1.free_size = ptr - u /\ Span(b) = g - ptr /\ b3 = e - g /\ f = e - u
        BY <3>2, <2>3, <2>4, <1>3, <1>9
      <3>4. (ptr - u) + (g - ptr) + (e - g) = e - u
        BY <1>2
      <3>5. QED
        BY <3>3, <3>4
    <2>6. QED
      BY <2>2, <2>3, <2>5
  <1>11. hi = Len(blocks) => blocks[lo].space + f = Size
    <2>1. EndOf(blocks, hi) \in Nat /\ blocks[lo].space \in Nat
      BY <1>1, <1>7, BlockFacts
    <2>2. QED
      BY <2>1, <1>9 DEF EndOf
  <1>12. hi # Len(blocks) => hi + 1 # Len(blocks) /\ blocks[hi + 1].free_size = 0
    <2> SUFFICES ASSUME hi # Len(blocks)
                 PROVE  hi + 1 # Len(blocks) /\ blocks[hi + 1].free_size = 0
      OBVIOUS
    <2>1. CASE j2
      <3>1. hi = b + 1
        BY <2>1, <1>6
      <3>2. blocks[hi].free_size > 0
        BY <2>1, <3>1, <1>5
      <3>3. blocks[hi].free_size # 0
        BY <3>1, <3>2, <1>4
      <3>4. QED
        BY <3>3, <1>1, <1>7, FreeBlock
    <2>2. CASE ~j2
      <3>1. hi = b /\ ~(blocks[b + 1].free_size > 0) /\ b + 1 # Len(blocks)
        BY <2>2, <1>5, <1>6
      <3>2. QED
        BY <3>1, <1>4
    <2>3. QED
      BY <2>1, <2>2
  <1>13. ~(lo > 1 /\ blocks[lo - 1].free_size # 0)
    <2>1. CASE j1
      <3>1. lo = b - 1 /\ blocks[lo].free_size > 0
        BY <2>1, <1>5, <1>6
      <3>2. blocks[lo].free_size \in Nat
        BY <1>1, <1>7, BlockFacts
      <3>3. blocks[lo].free_size # 0
        BY <3>1, <3>2
      <3>4. QED
        BY <3>3, <1>1, <1>7, FreeBlock
    <2>2. CASE ~j1
      <3>1. lo = b /\ (b > 1 => ~(blocks[b - 1].free_size > 0))
        BY <2>2, <1>5, <1>6
      <3>2. ASSUME b > 1 PROVE blocks[b - 1].free_size \in Nat
        <4>1. b - 1 \in 1..Len(blocks)
          BY <3>2, <1>2
        <4>2. QED
          BY <4>1, <1>1, BlockFacts
      <3>3. QED
        BY <3>1, <3>2
    <2>3. QED
      BY <2>1, <2>2
  <1>14. ASSUME NEW r \in held, NEW i \in 1..(Len(blocks) - 1), blocks[i].free_size = 0,
                r = Bounds(blocks, i)
         PROVE  /\ ptr \in r => i = b
                /\ lo <= i /\ i <= hi => i = b
    <2>1. i \in 1..Len(blocks) /\ i # Len(blocks) /\ i \in Nat
      BY <1>2
    <2>2. ASSUME ptr \in r PROVE i = b
      <3>1. blocks[i].space \in Nat /\ EndOf(blocks, i) \in Nat
        BY <1>1, <2>1, BlockFacts
      <3>2. ptr \in Bounds(blocks, i)
        BY <2>2, <1>14
      <3>3. blocks[i].space <= ptr /\ ptr < EndOf(blocks, i)
        BY <3>1, <3>2 DEF Bounds
      <3>4. ptr \in Int /\ blocks[b].space <= ptr
        BY <1>1, <1>2
      <3>5. QED
        BY <3>3, <3>4, <2>1, <1>1, <1>2, BlocksApart
    <2>3. ASSUME lo <= i, i <= hi PROVE i = b
      <3>1. CASE i < b
        <4>1. j1 /\ i = b - 1
          BY <3>1, <2>1, <2>3, <1>2, <1>6
        <4>2. blocks[i].free_size > 0
          BY <4>1, <1>5
        <4>3. QED
          BY <4>2, <1>14
      <3>2. CASE i > b
        <4>1. j2 /\ i = b + 1
          BY <3>2, <2>1, <2>3, <1>2, <1>6
        <4>2. blocks[i].free_size > 0
          BY <4>1, <2>1, <1>5
        <4>3. QED
          BY <4>2, <1>14
      <3>3. QED
        BY <3>1, <3>2, <2>1, <1>2
    <2>4. QED
      BY <2>2, <2>3
  <1>15. b \in 1..(Len(blocks) - 1) /\ ptr \in Bounds(blocks, b)
    BY <1>1, <1>2 DEF Bounds
  <1>16. \A i \in 1..(Len(blocks) - 1) :
           blocks[i].free_size = 0 /\ (i < lo \/ i > hi) => Bounds(blocks, i) \in held'
    <2> SUFFICES ASSUME NEW i \in 1..(Len(blocks) - 1), blocks[i].free_size = 0,
                        i < lo \/ i > hi
                 PROVE  Bounds(blocks, i) \in held'
      OBVIOUS
    <2>1. Bounds(blocks, i) \in held
      BY <1>1 DEF Sound, Handed
    <2>2. i # b
      BY <1>2, <1>7
    <2>3. ptr \notin Bounds(blocks, i)
      BY <2>1, <2>2, <1>14
    <2>4. QED
      BY <2>1, <2>3, <1>8
  <1>17. \A r \in held' : \E i \in 1..(Len(blocks) - 1) :
           blocks[i].free_size = 0 /\ (i < lo \/ i > hi) /\ r = Bounds(blocks, i)
    <2> SUFFICES ASSUME NEW r \in held'
                 PROVE  \E i \in 1..(Len(blocks) - 1) :
                          blocks[i].free_size = 0 /\ (i < lo \/ i > hi) /\ r = Bounds(blocks, i)
      OBVIOUS
    <2>1. r \in held /\ ptr \notin r
      BY <1>8
    <2>2. PICK i \in 1..(Len(blocks) - 1) : blocks[i].free_size = 0 /\ r = Bounds(blocks, i)
      BY <2>1, <1>1 DEF Sound, Handed
    <2>3. i # b
      BY <2>1, <2>2, <1>15
    <2>4. ~(lo <= i /\ i <= hi)
      BY <2>1, <2>2, <2>3, <1>14
    <2>5. i < lo \/ i > hi
      BY <2>4, <1>2, <1>7
    <2>6. QED
      BY <2>2, <2>5
  <1>18. Sound(blocks', held')
    <2>0. /\ Sound(blocks, held) /\ f \in Nat
          /\ lo \in 1..Len(blocks) /\ hi \in lo..Len(blocks)
      BY <1>1, <1>7, <1>9
    <2>1. /\ hi # Len(blocks) /\ f # 0 =>
               /\ f = EndOf(blocks, hi) - blocks[lo].space
               /\ hi + 1 # Len(blocks) /\ blocks[hi + 1].free_size = 0
          /\ lo > 1 /\ blocks[lo - 1].free_size # 0 => hi # Len(blocks) /\ f = 0
          /\ (hi # Len(blocks) /\ f = 0 =>
               blocks[lo].space..(EndOf(blocks, hi) - 1) \in held')
      BY <1>9, <1>12, <1>13
    <2>2. \A r \in held' :
            \/ hi # Len(blocks) /\ f = 0 /\ r = blocks[lo].space..(EndOf(blocks, hi) - 1)
            \/ \E i \in 1..(Len(blocks) - 1) :
                 blocks[i].free_size = 0 /\ (i < lo \/ i > hi) /\ r = Bounds(blocks, i)
      BY <1>17
    <2>3. Sound(Splice(blocks, lo, hi, <<Block(blocks[lo].space, f)>>), held')
      BY <1>11, <1>16, <2>0, <2>1, <2>2, MergeSound
    <2>4. QED
      BY <2>3, <1>10
  <1>19. ASSUME blocks[b].free_size # 0 PROVE blocks' = blocks /\ held' = held
    <2>1. /\ ptr + blocks[b].free_size = EndOf(blocks, b)
          /\ b + 1 # Len(blocks) /\ blocks[b + 1].free_size = 0
          /\ b > 1 => blocks[b - 1].free_size = 0
      BY <1>1, <1>19, FreeBlock
    <2>2. ~j1 /\ ~j2
      <3>1. ~(blocks[b + 1].free_size > 0)
        BY <2>1
      <3>2. b > 1 => ~(blocks[b - 1].free_size > 0)
        BY <2>1
      <3>3. QED
        BY <2>1, <3>1, <3>2, <1>5
    <2>3. lo = b /\ hi = b
      BY <2>2, <1>6
    <2>4. f = blocks[b].free_size
      BY <2>1, <2>3, <1>1, <1>2, <1>9
    <2>5. <<Block(blocks[lo].space, f)>> = <<blocks[b]>>
      BY <2>3, <2>4, <1>1, <1>2
    <2>6. blocks \in Seq(BlockType)
      BY <1>1 DEF Sound, ListType
    <2>7. blocks' = blocks
      BY <2>3, <2>5, <2>6, <1>1, <1>10, SpliceSame
    <2>8. ASSUME NEW r \in held PROVE ptr \notin r
      <3>1. PICK i \in 1..(Len(blocks) - 1) : blocks[i].free_size = 0 /\ r = Bounds(blocks, i)
        BY <1>1 DEF Sound, Handed
      <3>2. i # b
        BY <3>1, <1>19
      <3>3. QED
        BY <3>1, <3>2, <1>14
    <2>9. QED
      BY <2>7, <2>8, <1>8
  <1>20. ASSUME blocks[b].free_size = 0
         PROVE  Bounds(blocks, b) \in held /\ held' = held \ {Bounds(blocks, b)}
    <2>1. Bounds(blocks, b) \in held
      BY <1>1, <1>15, <1>20 DEF Sound, Handed
    <2>2. ASSUME NEW r \in held PROVE ptr \in r <=> r = Bounds(blocks, b)
      <3>1. PICK i \in 1..(Len(blocks) - 1) : blocks[i].free_size = 0 /\ r = Bounds(blocks, i)
        BY <1>1 DEF Sound, Handed
      <3>2. ptr \in r => i = b
        BY <3>1, <1>14
      <3>3. QED
        BY <3>1, <3>2, <1>15
    <2>3. QED
      BY <2>1, <2>2, <1>8
  <1>21. QED
    BY <1>1, <1>18, <1>19, <1>20

-----------------------------------------------------------------------------
(***************************************************************************)
(* The invariant holds.                                                    *)
(***************************************************************************)
LEMMA InitInv == Init => Inv
  <1> SUFFICES ASSUME Init PROVE Inv
    OBVIOUS
  <1>1. Size \in Nat /\ Size # 0
    BY LpelAssumption
  <1>2. /\ Len(blocks) = 1 /\ blocks[1] = Block(0, Size)
        /\ blocks[1].space = 0 /\ blocks[1].free_size = Size
    BY DEF Init, Block
  <1>3. ListType(blocks)
    <2>1. Block(0, Size) \in BlockType
      BY <1>1 DEF Block, BlockType
    <2>2. QED
      BY <2>1, <1>2 DEF Init, ListType
  <1>4. Ends(blocks) /\ Sorted(blocks) /\ Merged(blocks)
    BY <1>1, <1>2 DEF Ends, Sorted, Merged
  <1>5. Covered(blocks)
    <2>1. EndOf(blocks, 1) = Size /\ 1 \in 1..Len(blocks)
      BY <1>2 DEF EndOf
    <2>2. ASSUME NEW x \in Bytes PROVE 0 <= x /\ x < Size
      BY <1>1 DEF Bytes
    <2>3. QED
      BY <2>1, <2>2, <1>2 DEF Covered
  <1>6. Handed(blocks, held)
    BY <1>2 DEF Init, Handed
  <1>7. Search
    BY DEF Init, Search
  <1>8. QED
    BY <1>3, <1>4, <1>5, <1>6, <1>7 DEF Inv, Sound

LEMMA NextInv == Inv /\ [Next]_vars => Inv'
  <1> SUFFICES ASSUME Inv, [Next]_vars PROVE Inv'
    OBVIOUS
  <1>1. Sound(blocks, held) /\ Search /\ tail = Len(blocks) /\ tail \in Nat \ {0}
    BY InvFacts DEF Inv
  <1>2. ASSUME UNCHANGED <<blocks, held>> PROVE Sound(blocks, held)' /\ tail' = tail
    BY <1>1, <1>2 DEF tail
  <1>3. ASSUME Done PROVE Search'
    BY <1>3 DEF Done, Search
  <1>4. ASSUME NEW n \in Sizes, Malloc(n) PROVE Inv'
    <2>1. Sound(blocks, held)' /\ tail' = tail
      BY <1>2, <1>4 DEF Malloc
    <2>2. n \in Nat
      BY LpelAssumption
    <2>3. CASE n = 0
      BY <2>1, <2>3, <1>1, <1>4 DEF Malloc, Inv, Search
    <2>4. CASE n # 0
      <3>1. pc' = "tail" /\ size' = n /\ b' = 1 /\ ptr' = ptr
        BY <2>4, <1>4 DEF Malloc
      <3>2. Search'
        BY <3>1, <2>1, <2>2, <2>4, <1>1 DEF Search
      <3>3. QED
        BY <2>1, <3>2 DEF Inv
    <2>5. QED
      BY <2>3, <2>4
  <1>5. ASSUME NEW p \in 0..Size, Free(p) PROVE Inv'
    <2>1. Sound(blocks, held)' /\ tail' = tail
      BY <1>2, <1>5 DEF Free
    <2>2. p \in Nat
      BY LpelAssumption
    <2>3. pc = "idle" /\ pc' = "find" /\ ptr' = p /\ b' = 1 /\ size' = size
      BY <1>5 DEF Free
    <2>4. Search'
      BY <2>1, <2>2, <2>3, <1>1 DEF Search
    <2>5. QED
      BY <2>1, <2>4 DEF Inv
  <1>6. CASE TakeFromTail
    <2>1. Sound(blocks', held') /\ Done
      BY <1>6, TakeFromTailSound DEF TakeFromTail
    <2>2. QED
      BY <2>1, <1>3 DEF Inv, Sound, ListType, Ends, Sorted, Covered, Merged, Handed, Bounds, EndOf
  <1>7. CASE PassTail
    <2>1. Sound(blocks, held)' /\ tail' = tail
      BY <1>2, <1>7 DEF PassTail
    <2>2. /\ pc = "tail" /\ pc' = "fit" /\ blocks[tail].free_size < size
          /\ b' = b /\ size' = size /\ ptr' = ptr /\ blocks' = blocks
      BY <1>7 DEF PassTail
    <2>3. b = 1 /\ b \in 1..tail /\ size \in Nat \ {0} /\ ptr \in Nat
      BY <2>2, <1>1 DEF Search
    <2>4. Search'
      BY <2>1, <2>2, <2>3 DEF Search
    <2>5. QED
      BY <2>1, <2>4 DEF Inv
  <1>8. CASE SkipBlock
    <2>1. Sound(blocks, held)' /\ tail' = tail /\ blocks' = blocks
      BY <1>2, <1>8 DEF SkipBlock
    <2>2. CASE b = tail
      BY <2>1, <2>2, <1>3, <1>8 DEF SkipBlock, Inv
    <2>3. CASE b # tail
      <3>1. /\ pc = "fit" /\ blocks[b].free_size < size
            /\ b' = b + 1 /\ pc' = pc /\ size' = size /\ ptr' = ptr
        BY <2>3, <1>8 DEF SkipBlock
      <3>2. /\ b \in 1..tail /\ size \in Nat \ {0} /\ ptr \in Nat
            /\ blocks[tail].free_size < size
            /\ \A i \in 1..(b - 1) : blocks[i].free_size < size
        BY <3>1, <1>1 DEF Search
      <3>3. b + 1 \in 1..tail
        BY <3>2, <2>3, <1>1
      <3>4. \A i \in 1..((b + 1) - 1) : blocks[i].free_size < size
        BY <3>1, <3>2, <1>1
      <3>5. Search'
        BY <3>1, <3>2, <3>3, <3>4, <2>1 DEF Search
      <3>6. QED
        BY <2>1, <3>5 DEF Inv
    <2>4. QED
      BY <2>2, <2>3
  <1>9. CASE TakeBlock
    <2>1. Sound(blocks', held') /\ Done
      BY <1>9, TakeBlockSound DEF TakeBlock
    <2>2. QED
      BY <2>1, <1>3 DEF Inv, Sound, ListType, Ends, Sorted, Covered, Merged, Handed, Bounds, EndOf
  <1>10. CASE Pass
    <2>1. Sound(blocks, held)' /\ tail' = tail
      BY <1>2, <1>10 DEF Pass
    <2>2. /\ pc = "find" /\ b # tail
          /\ b' = b + 1 /\ pc' = pc /\ size' = size /\ ptr' = ptr
      BY <1>10 DEF Pass
    <2>3. b \in 1..tail /\ size = 0 /\ ptr \in Nat
      BY <2>2, <1>1 DEF Search
    <2>4. b + 1 \in 1..tail
      BY <2>2, <2>3, <1>1
    <2>5. Search'
      BY <2>1, <2>2, <2>3, <2>4 DEF Search
    <2>6. QED
      BY <2>1, <2>5 DEF Inv
  <1>11. CASE NotFound
    BY <1>2, <1>3, <1>11 DEF NotFound, Inv
  <1>12. CASE Release
    <2>1. Sound(blocks', held') /\ Done
      BY <1>12, ReleaseSound DEF Release
    <2>2. QED
      BY <2>1, <1>3 DEF Inv, Sound, ListType, Ends, Sorted, Covered, Merged, Handed, Bounds, EndOf
  <1>13. CASE UNCHANGED vars
    <2>1. Sound(blocks, held)' /\ tail' = tail
      BY <1>2, <1>13 DEF vars
    <2>2. QED
      BY <2>1, <1>1, <1>13 DEF vars, Inv, Search
  <1>14. QED
    BY <1>4, <1>5, <1>6, <1>7, <1>8, <1>9, <1>10, <1>11, <1>12, <1>13 DEF Next, Working

(* The invariant holds in every reachable state. *)
THEOREM InvInvariant == Spec => []Inv
  <1>1. Init => Inv
    BY InitInv
  <1>2. Inv /\ [Next]_vars => Inv'
    BY NextInv
  <1>3. QED
    BY <1>1, <1>2, PTL DEF Spec

-----------------------------------------------------------------------------
(* The blocks tile the memory at all times, those that count as handed out *)
(* are those that callers have, and no two in a row are free: no sequence  *)
(* of LPEL_shmalloc and LPEL_shfree loses a byte or forgets a merge.       *)
THEOREM BlocksAlwaysTile == Spec => []BlocksTile
  <1>1. ASSUME Inv PROVE BlocksTile
    <2>1. Sound(blocks, held) /\ tail = Len(blocks) /\ tail \in Nat \ {0}
      BY <1>1, InvFacts
    <2>2. blocks[1].space = 0 /\ blocks[tail].space + blocks[tail].free_size = Size
      BY <2>1 DEF Sound, Ends
    <2>3. ASSUME NEW i \in 1..(tail - 1)
          PROVE  LET run == blocks[i].space..(blocks[i + 1].space - 1)
                 IN  /\ run # {}
                     /\ IF blocks[i].free_size = 0
                          THEN run \in held
                          ELSE /\ blocks[i].free_size = blocks[i + 1].space - blocks[i].space
                               /\ run \cap UNION held = {}
                               /\ i + 1 # tail /\ blocks[i + 1].free_size = 0
      <3>1. i \in 1..Len(blocks) /\ i # Len(blocks)
        BY <2>1
      <3>2. EndOf(blocks, i) = blocks[i + 1].space
        BY <3>1 DEF EndOf
      <3>3. /\ blocks[i].space \in Nat /\ blocks[i + 1].space \in Nat
            /\ blocks[i].free_size \in Nat /\ blocks[i].space < blocks[i + 1].space
        BY <2>1, <3>1, <3>2, BlockFacts
      <3>4. blocks[i].space..(blocks[i + 1].space - 1) # {}
        BY <3>3
      <3>5. ASSUME blocks[i].free_size = 0
            PROVE  blocks[i].space..(blocks[i + 1].space - 1) \in held
        BY <2>1, <3>1, <3>2, <3>5, HandedOut DEF Bounds
      <3>6. ASSUME blocks[i].free_size # 0
            PROVE  /\ blocks[i].free_size = blocks[i + 1].space - blocks[i].space
                   /\ (blocks[i].space..(blocks[i + 1].space - 1)) \cap UNION held = {}
                   /\ i + 1 # tail /\ blocks[i + 1].free_size = 0
        <4>1. /\ blocks[i].space + blocks[i].free_size = EndOf(blocks, i)
              /\ i + 1 # Len(blocks) /\ blocks[i + 1].free_size = 0
          BY <2>1, <3>1, <3>6, FreeBlock
        <4>2. ASSUME NEW r \in held, NEW x \in r,
                     x \in blocks[i].space..(blocks[i + 1].space - 1)
              PROVE  FALSE
          <5>1. x \in Int /\ blocks[i].space <= x /\ x < EndOf(blocks, i)
            BY <3>2, <3>3, <4>2
          <5>2. blocks[i].free_size = 0
            BY <5>1, <2>1, <3>1, HeldRun
          <5>3. QED
            BY <5>2, <3>6
        <4>3. QED
          BY <4>1, <4>2, <3>2, <3>3, <2>1
      <3>7. QED
        BY <3>4, <3>5, <3>6
    <2>4. QED
      BY <2>2, <2>3 DEF BlocksTile
  <1>2. QED
    BY <1>1, InvInvariant, PTL

(* Freeing an address that no caller holds, a second free of the same      *)
(* address included, leaves the list as it is.                             *)
THEOREM StrayFreesChangeNothing == Spec => StrayFreeIsHarmless
  <1>1. ASSUME Inv, [Next]_vars
        PROVE  [pc = "find" /\ held' = held => blocks' = blocks]_vars
    <2> SUFFICES ASSUME pc = "find", held' = held PROVE blocks' = blocks
      OBVIOUS
    <2>1. CASE Release
      <3>1. blocks[b].free_size # 0
        BY <1>1, <2>1, ReleaseSound
      <3>2. QED
        BY <3>1, <1>1, <2>1, ReleaseSound
    <2>2. CASE ~Release
      BY <2>2, <1>1 DEF Next, Working, vars, Malloc, Free, TakeFromTail, PassTail, SkipBlock,
                        TakeBlock, Pass, NotFound
    <2>3. QED
      BY <2>1, <2>2
  <1>2. QED
    BY <1>1, InvInvariant, PTL DEF Spec, StrayFreeIsHarmless

(* LPEL_shmalloc and LPEL_shfree keep the promise of Regions: the runs     *)
(* handed out are disjoint and inside the memory, and the answer is NULL   *)
(* only if no run of that length is free anywhere.                         *)
THEOREM ImplementsRegions == Spec => ShmSpec
  <1>1. Init => Shm!Init
    BY DEF Init, Shm!Init
  <1>2. ASSUME Inv, [Next]_vars PROVE [Shm!Next]_(Shm!vars)
    <2> USE DEF Shm!vars
    <2>1. /\ Sound(blocks, held) /\ tail = Len(blocks) /\ tail \in 1..Len(blocks)
          /\ pc \in {"tail", "fit", "find"} => b \in 1..Len(blocks)
          /\ pc \in {"tail", "fit"} => size \in Nat \ {0}
          /\ pc \in {"idle", "find"} => size = 0
      BY <1>2, InvFacts
    <2>2. ASSUME NEW i \in 1..Len(blocks), size \in Nat \ {0}, size <= blocks[i].free_size,
                 held' = held \cup {Run(blocks[i].space, size)}, Done
          PROVE  Shm!Grant
      <3>1. /\ blocks[i].space \in Bytes
            /\ Run(blocks[i].space, size) \subseteq Bytes
            /\ \A r \in held : r \cap Run(blocks[i].space, size) = {}
        BY <2>1, <2>2, RoomInBlock
      <3>2. Run(blocks[i].space, size) = Shm!Run(blocks[i].space, size)
        BY DEF Run, Shm!Run
      <3>3. Shm!Fits(blocks[i].space, size)
        BY <3>1, <3>2 DEF Shm!Fits
      <3>4. QED
        BY <3>1, <3>2, <3>3, <2>2 DEF Shm!Grant, Done
    <2>3. CASE \E n \in Sizes : Malloc(n)
      BY <2>1, <2>3, LpelAssumption DEF Malloc, Shm!Next, Shm!Ask
    <2>4. CASE TakeFromTail
      <3>1. held' = held \cup {Run(blocks[tail].space, size)} /\ size <= blocks[tail].free_size
        BY <1>2, <2>4, TakeFromTailSound
      <3>2. Shm!Grant
        BY <3>1, <2>1, <2>2, <2>4 DEF TakeFromTail
      <3>3. QED
        BY <3>2 DEF Shm!Next
    <2>5. CASE TakeBlock
      <3>1. /\ held' = held \cup {Run(blocks[b].space, size)} /\ size <= blocks[b].free_size
            /\ b \in 1..Len(blocks)
        BY <1>2, <2>5, TakeBlockSound
      <3>2. Shm!Grant
        BY <3>1, <2>1, <2>2, <2>5 DEF TakeBlock
      <3>3. QED
        BY <3>2 DEF Shm!Next
    <2>6. CASE SkipBlock
      <3>1. pc = "fit" /\ blocks[b].free_size < size /\ held' = held
        BY <2>6 DEF SkipBlock
      <3>2. CASE b # tail
        BY <3>1, <3>2, <2>6 DEF SkipBlock
      <3>3. CASE b = tail
        <4>1. \A i \in 1..Len(blocks) : blocks[i].free_size < size
          <5>1. \A i \in 1..(b - 1) : blocks[i].free_size < size
            BY <1>2, <3>1 DEF Inv, Search
          <5>2. QED
            BY <5>1, <3>1, <3>3, <2>1
        <4>2. ASSUME NEW s \in Bytes, Shm!Fits(s, size) PROVE FALSE
          <5>1. Run(s, size) \subseteq Bytes /\ \A r \in held : r \cap Run(s, size) = {}
            BY <4>2 DEF Shm!Fits, Shm!Run, Run
          <5>2. QED
            BY <5>1, <4>1, <3>1, <2>1, NoRoom
        <4>3. size # 0 /\ size' = 0
          BY <3>1, <3>3, <2>1, <2>6 DEF SkipBlock, Done
        <4>4. QED
          BY <4>2, <4>3, <3>1 DEF Shm!Next, Shm!Refuse
      <3>4. QED
        BY <3>2, <3>3
    <2>7. CASE Release
      <3>1. size = 0 /\ size' = 0
        BY <2>1, <2>7 DEF Release, Done
      <3>2. CASE blocks[b].free_size = 0
        <4>1. Bounds(blocks, b) \in held /\ held' = held \ {Bounds(blocks, b)}
          BY <1>2, <2>7, <3>2, ReleaseSound
        <4>2. QED
          BY <4>1, <3>1 DEF Shm!Next, Shm!Return
      <3>3. CASE blocks[b].free_size # 0
        BY <1>2, <2>7, <3>1, <3>3, ReleaseSound
      <3>4. QED
        BY <3>2, <3>3
    <2>8. CASE (\E p \in 0..Size : Free(p)) \/ PassTail \/ Pass
      BY <2>8 DEF Free, PassTail, Pass
    <2>9. CASE NotFound
      BY <2>1, <2>9 DEF NotFound, Done
    <2>10. CASE UNCHANGED vars
      BY <2>10 DEF vars
    <2>11. QED
      BY <1>2, <2>3, <2>4, <2>5, <2>6, <2>7, <2>8, <2>9, <2>10 DEF Next, Working
  <1>3. QED
    BY <1>1, <1>2, InvInvariant, PTL DEF Spec, ShmSpec, Shm!Spec
=============================================================================

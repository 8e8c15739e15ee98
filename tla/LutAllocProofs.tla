--------------------------- MODULE LutAllocProofs ---------------------------
(***************************************************************************)
(* Proofs about the allocator of remote LUT entries, for tables of every   *)
(* length, any sizes that are asked for and any content of fresh memory.   *)
(***************************************************************************)
EXTENDS LutAlloc, TLAPS

-----------------------------------------------------------------------------
(***************************************************************************)
(* The inductive invariant: the entries are tiled by runs that say at both *)
(* ends what they are, seen from their beginning and from their end.       *)
(***************************************************************************)
Taken == UNION held
Length == Nat \ {0}

(* The n entries from s on say at both ends that they are a run. *)
Block(s, n, free) ==
  /\ s \in Index /\ s + n <= RemotePages
  /\ Tagged(s, n, free)

TakenBlock(s, n) == Run(s, n) \in held /\ Block(s, n, FALSE)

(* A free run, none of whose neighbours is free. *)
FreeBlock(s, n) ==
  /\ Block(s, n, TRUE)
  /\ \A i \in Run(s, n) : i \notin Taken
  /\ s = 0 \/ s - 1 \in Taken
  /\ s + n = RemotePages \/ s + n \in Taken

TableType  == lutState \in [Index -> [free : BOOLEAN, size : Nat]]
HeldBlocks == \A r \in held : \E s \in Index, n \in Length : r = Run(s, n) /\ Block(s, n, FALSE)
HeldApart  == \A q, r \in held : q = r \/ q \cap r = {}

FreeFronts ==
  \A s \in Index : s \notin Taken /\ (s = 0 \/ s - 1 \in Taken) =>
    \E n \in Length : FreeBlock(s, n)

FreeBacks ==
  \A e \in Index : e \notin Taken /\ (e + 1 = RemotePages \/ e + 1 \in Taken) =>
    \E n \in Length : FreeBlock(e + 1 - n, n)

TableInv == TableType /\ HeldBlocks /\ HeldApart /\ FreeFronts /\ FreeBacks

(* The search is at the beginning of a run, and nothing before will do. *)
ScanInv ==
  pc = "scan" =>
    /\ size \in Length /\ curr \in Index
    /\ \E n \in Length : TakenBlock(curr, n) \/ FreeBlock(curr, n)
    /\ \A s \in Index : s < curr => \E i \in Run(s, size) : i \notin Index \/ i \in Taken

LutInv ==
  /\ pc \in {"boot", "idle", "scan", "exited"}
  /\ pc # "scan" => size = 0
  /\ strayed \in BOOLEAN
  /\ pc \in {"boot", "exited"} => ~Astray /\ held = {}
  /\ pc = "boot" => TableType
  /\ pc \in {"idle", "scan"} => remote \in Bases \cup {MAP_FAILED}
  /\ ~Astray /\ pc \in {"idle", "scan"} => TableInv /\ ScanInv
  /\ Astray => pc = "idle"

-----------------------------------------------------------------------------
(***************************************************************************)
(* Lemmas on runs.                                                         *)
(***************************************************************************)
LEMMA Pages0 == RemotePages \in Nat /\ RemotePages >= 1
  BY LutAssumption

LEMMA RunMembers ==
  ASSUME NEW s \in Int, NEW n \in Length
  PROVE  /\ s \in Run(s, n) /\ s + n - 1 \in Run(s, n)
         /\ s - 1 \notin Run(s, n) /\ s + n \notin Run(s, n)
         /\ \A i \in Run(s, n) : i \in Int /\ s <= i /\ i < s + n
         /\ \A i \in Int : s <= i /\ i < s + n => i \in Run(s, n)
  BY DEF Run, Length

LEMMA RunsEqual ==
  ASSUME NEW s \in Int, NEW n \in Length, NEW t \in Int, NEW m \in Length,
         Run(s, n) = Run(t, m)
  PROVE  s = t /\ n = m
  <1>1. s \in Run(t, m) /\ s + n - 1 \in Run(t, m) /\ t \in Run(s, n) /\ t + m - 1 \in Run(s, n)
    BY RunMembers
  <1>2. QED
    BY <1>1 DEF Run, Length

(* What is taken, is in a run of some caller. *)
LEMMA TakenRun ==
  ASSUME TableInv, NEW i \in Taken
  PROVE  \E s \in Index, n \in Length :
           /\ i \in Run(s, n) /\ TakenBlock(s, n)
           /\ i \in Int /\ s <= i /\ i < s + n
  <1>1. PICK r \in held : i \in r
    BY DEF Taken
  <1>2. PICK s \in Index, n \in Length : r = Run(s, n) /\ Block(s, n, FALSE)
    BY <1>1 DEF TableInv, HeldBlocks
  <1>3. s \in Int
    BY DEF Index
  <1>4. i \in Int /\ s <= i /\ i < s + n
    BY <1>1, <1>2, <1>3, RunMembers
  <1>5. TakenBlock(s, n)
    BY <1>2 DEF TakenBlock
  <1>6. QED
    BY <1>1, <1>2, <1>4, <1>5

(* Where a taken run begins, it says so. *)
LEMMA TakenFront ==
  ASSUME TableInv, NEW c \in Taken,
         c - 1 \notin Taken \/ \E r \in held : c - 1 \in r /\ c \notin r
  PROVE  \E n \in Length : TakenBlock(c, n)
  <1>1. PICK s \in Index, n \in Length :
           /\ c \in Run(s, n) /\ TakenBlock(s, n)
           /\ c \in Int /\ s <= c /\ c < s + n
    BY TakenRun
  <1>2. s = c
    <2>1. SUFFICES ASSUME s < c
                   PROVE  FALSE
      BY <1>1 DEF Index
    <2>2. c - 1 \in Run(s, n) /\ Run(s, n) \in held
      BY <1>1, <2>1 DEF Run, Index, TakenBlock, Length
    <2>3. c - 1 \in Taken
      BY <2>2 DEF Taken
    <2>4. PICK q \in held : c - 1 \in q /\ c \notin q
      BY <2>3
    <2>5. q = Run(s, n)
      BY <2>2, <2>4 DEF TableInv, HeldApart
    <2>6. QED
      BY <1>1, <2>4, <2>5
  <1>3. QED
    BY <1>1, <1>2

(* And where it ends. *)
LEMMA TakenBack ==
  ASSUME TableInv, NEW c \in Taken,
         c + 1 \notin Taken \/ \E r \in held : c + 1 \in r /\ c \notin r
  PROVE  c \in Index /\ \E n \in Length : TakenBlock(c + 1 - n, n)
  <1>1. PICK s \in Index, n \in Length :
           /\ c \in Run(s, n) /\ TakenBlock(s, n)
           /\ c \in Int /\ s <= c /\ c < s + n
    BY TakenRun
  <1>2. c + 1 - n = s
    <2>1. SUFFICES ASSUME c + 1 < s + n
                   PROVE  FALSE
      BY <1>1 DEF Index, Length
    <2>2. c + 1 \in Run(s, n) /\ Run(s, n) \in held
      BY <1>1, <2>1 DEF Run, Index, TakenBlock, Length
    <2>3. c + 1 \in Taken
      BY <2>2 DEF Taken
    <2>4. PICK q \in held : c + 1 \in q /\ c \notin q
      BY <2>3
    <2>5. q = Run(s, n)
      BY <2>2, <2>4 DEF TableInv, HeldApart
    <2>6. QED
      BY <1>1, <2>4, <2>5
  <1>3. c \in Index
    BY <1>1, Pages0 DEF TakenBlock, Block, Index, Length
  <1>4. QED
    BY <1>1, <1>2, <1>3

(* Where a run ends, the next one begins. *)
LEMMA NextBegins ==
  ASSUME TableInv, NEW c \in Index, NEW n \in Length,
         TakenBlock(c, n) \/ FreeBlock(c, n), c + n < RemotePages
  PROVE  /\ c + n \in Index
         /\ \E m \in Length : TakenBlock(c + n, m) \/ FreeBlock(c + n, m)
  <1> DEFINE e == c + n
  <1>1. c \in Int /\ n \in Int /\ n >= 1
    BY DEF Index, Length
  <1>2. e \in Index /\ e \in Int /\ e # 0 /\ e # RemotePages
    BY <1>1, Pages0 DEF Index
  <1>5. e - 1 \in Run(c, n) /\ e \notin Run(c, n)
    BY <1>1, RunMembers
  <1>3. CASE e \in Taken
    <2>1. e - 1 \notin Taken \/ \E r \in held : e - 1 \in r /\ e \notin r
      BY <1>2, <1>5 DEF TakenBlock, FreeBlock
    <2>2. QED
      BY <1>2, <1>3, <2>1, TakenFront
  <1>4. CASE e \notin Taken
    <2>1. Run(c, n) \in held
      BY <1>2, <1>4 DEF TakenBlock, FreeBlock
    <2>2. e - 1 \in Taken
      BY <1>5, <2>1 DEF Taken
    <2>3. QED
      BY <1>2, <1>4, <2>2 DEF TableInv, FreeFronts
  <1>6. QED
    BY <1>3, <1>4

-----------------------------------------------------------------------------
(***************************************************************************)
(* What a change of the table has to do.                                   *)
(***************************************************************************)

(* The entries from first to behind - 1 become one free run, in which      *)
(* there was one run taken.                                                *)
LEMMA Freed ==
  ASSUME TableInv, TableType',
         NEW r \in held, held' = held \ {r},
         NEW first \in Index, NEW behind \in Nat, first < behind, behind <= RemotePages,
         \A i \in r : i \in Int /\ first <= i /\ i < behind,
         \A i \in Int : first <= i /\ i < behind => i \notin Taken \/ i \in r,
         first = 0 \/ first - 1 \in Taken,
         behind = RemotePages \/ behind \in Taken,
         lutState'[first] = [free |-> TRUE, size |-> behind - first],
         lutState'[behind - 1] = [free |-> TRUE, size |-> behind - first],
         \A i \in Index : i < first \/ behind <= i => lutState'[i] = lutState[i]
  PROVE  TableInv'
  <1> DEFINE In(i) == first <= i /\ i < behind
  <1>0. /\ first \in Int /\ behind \in Int /\ RemotePages \in Int
        /\ \A i \in Index : i \in Int /\ 0 <= i /\ i < RemotePages
        /\ \A i \in Int : 0 <= i /\ i < RemotePages => i \in Index
        /\ \A n \in Length : n \in Int /\ n >= 1
        /\ \A n \in Int : n >= 1 => n \in Length
    BY Pages0 DEF Index, Length
  <1>1. \A i \in Int : i \in Taken' <=> i \in Taken /\ ~In(i)
    <2>1. \A q \in held : q # r => \A i \in r : i \notin q
      BY DEF TableInv, HeldApart
    <2>2. \A i \in Int : i \in Taken' => i \in Taken /\ i \notin r
      BY <2>1 DEF Taken
    <2>3. \A i \in Int : i \in Taken /\ i \notin r => i \in Taken'
      BY DEF Taken
    <2>4. QED
      BY <2>2, <2>3
  <1>2. HeldApart'
    BY DEF TableInv, HeldApart
  <1>3. HeldBlocks'
    <2> SUFFICES ASSUME NEW q \in held, q # r
                 PROVE  \E s \in Index, n \in Length : q = Run(s, n) /\ Block(s, n, FALSE)'
      BY DEF HeldBlocks, Index
    <2>1. PICK s \in Index, n \in Length : q = Run(s, n) /\ Block(s, n, FALSE)
      BY DEF TableInv, HeldBlocks
    <2>2. s \in Run(s, n) /\ s + n - 1 \in Run(s, n)
      BY <1>0, RunMembers
    <2>3. s \in Int /\ s + n - 1 \in Index
      BY <1>0, <2>1 DEF Block
    <2>4. \A i \in q : i \in Taken /\ i \notin r
      BY DEF TableInv, HeldApart, Taken
    <2>5. ~In(s) /\ ~In(s + n - 1)
      BY <1>0, <2>1, <2>2, <2>3, <2>4
    <2>6. lutState'[s] = lutState[s] /\ lutState'[s + n - 1] = lutState[s + n - 1]
      BY <1>0, <2>3, <2>5
    <2>7. Block(s, n, FALSE)'
      BY <2>1, <2>6 DEF Block, Tagged, Index
    <2>8. QED
      BY <2>1, <2>7
  <1>4. FreeBlock(first, behind - first)'
    <2>1. \A i \in Run(first, behind - first) : i \in Int /\ In(i)
      BY <1>0 DEF Run
    <2>2. first = 0 \/ first - 1 \in Taken'
      BY <1>0, <1>1
    <2>3. behind = RemotePages \/ behind \in Taken'
      BY <1>0, <1>1
    <2>4. first + (behind - first) = behind
      BY <1>0
    <2>5. Block(first, behind - first, TRUE)'
      BY <2>4 DEF Block, Tagged, Index
    <2>6. QED
      BY <1>1, <2>1, <2>2, <2>3, <2>4, <2>5 DEF FreeBlock
  <1>5. ASSUME NEW s \in Index, NEW n \in Length, FreeBlock(s, n),
               ~In(s) \/ ~In(s + n - 1)
        PROVE  FreeBlock(s, n)'
    <2>1. \A i \in Int : s <= i /\ i < s + n => i \notin Taken
      BY <1>0, <1>5, RunMembers DEF FreeBlock
    <2>0. s \in Int /\ n \in Int /\ n >= 1 /\ 0 <= s /\ s + n <= RemotePages
      BY <1>0, <1>5 DEF FreeBlock, Block
    <2>2. s + n <= first \/ behind <= s
      <3>1. CASE In(s)
        <4>1. s <= behind /\ behind < s + n
          BY <1>0, <1>5, <2>0, <3>1
        <4>2. behind \notin Taken /\ behind # RemotePages
          BY <1>0, <2>0, <2>1, <4>1
        <4>3. QED
          BY <4>2
      <3>2. CASE s < first /\ first < s + n
        <4>1. first - 1 \notin Taken /\ first # 0
          BY <1>0, <2>0, <2>1, <3>2
        <4>2. QED
          BY <4>1
      <3>3. QED
        BY <1>0, <2>0, <3>1, <3>2
    <2>3. lutState'[s] = lutState[s] /\ lutState'[s + n - 1] = lutState[s + n - 1]
      BY <1>0, <2>0, <2>2
    <2>4. Block(s, n, TRUE)'
      BY <1>5, <2>3 DEF FreeBlock, Block, Tagged, Index
    <2>5. \A i \in Run(s, n) : i \notin Taken'
      BY <1>0, <1>1, <1>5, RunMembers DEF FreeBlock
    <2>6. s = 0 \/ s - 1 \in Taken'
      <3> SUFFICES ASSUME s # 0
                   PROVE  s - 1 \in Taken'
        OBVIOUS
      <3>1. s - 1 \in Taken
        BY <1>5 DEF FreeBlock
      <3>2. s # behind
        BY <1>0, <2>0, <2>1
      <3>3. s - 1 \in Int /\ ~In(s - 1)
        BY <1>0, <2>0, <2>2, <3>2
      <3>4. QED
        BY <1>1, <3>1, <3>3
    <2>7. s + n = RemotePages \/ s + n \in Taken'
      <3> SUFFICES ASSUME s + n # RemotePages
                   PROVE  s + n \in Taken'
        OBVIOUS
      <3>1. s + n \in Taken
        BY <1>5 DEF FreeBlock
      <3>2. s + n # first
        <4>1. s + n - 1 \notin Taken /\ s + n # 0
          BY <2>0, <2>1
        <4>2. QED
          BY <1>0, <2>0, <4>1
      <3>3. s + n \in Int /\ ~In(s + n)
        BY <1>0, <2>0, <2>2, <3>2
      <3>4. QED
        BY <1>1, <3>1, <3>3
    <2>8. QED
      BY <2>4, <2>5, <2>6, <2>7 DEF FreeBlock
  <1>6. FreeFronts'
    <2> SUFFICES ASSUME NEW s \in Index, s \notin Taken', s = 0 \/ s - 1 \in Taken'
                 PROVE  \E n \in Length : FreeBlock(s, n)'
      BY DEF FreeFronts, Index
    <2>1. CASE In(s)
      <3>1. s = first
        BY <1>0, <1>1, <2>1
      <3>2. behind - first \in Length
        BY <1>0
      <3>3. QED
        BY <1>4, <3>1, <3>2
    <2>2. CASE ~In(s)
      <3>1. s \notin Taken /\ (s = 0 \/ s - 1 \in Taken)
        BY <1>0, <1>1, <2>2
      <3>2. QED
        BY <1>5, <2>2, <3>1 DEF TableInv, FreeFronts
    <2>3. QED
      BY <2>1, <2>2
  <1>7. FreeBacks'
    <2> SUFFICES ASSUME NEW e \in Index, e \notin Taken',
                        e + 1 = RemotePages \/ e + 1 \in Taken'
                 PROVE  \E n \in Length : FreeBlock(e + 1 - n, n)'
      BY DEF FreeBacks, Index
    <2>1. CASE In(e)
      <3>1. e + 1 = behind
        BY <1>0, <1>1, <2>1
      <3>2. behind - first \in Length /\ e + 1 - (behind - first) = first
        BY <1>0, <3>1
      <3>3. QED
        BY <1>4, <3>2
    <2>2. CASE ~In(e)
      <3>0. e \in Int /\ e + 1 \in Int
        BY DEF Index
      <3>1. e \notin Taken /\ (e + 1 = RemotePages \/ e + 1 \in Taken)
        <4> HIDE DEF In
        <4>1. QED
          BY <1>1, <2>2, <3>0
      <3>2. PICK n \in Length : FreeBlock(e + 1 - n, n)
        BY <3>1 DEF TableInv, FreeBacks
      <3>3. PICK s \in Index : s = e + 1 - n
        BY <3>2 DEF FreeBlock, Block
      <3>4. s + n - 1 = e
        <4>1. s \in Int /\ n \in Int
          BY <1>0
        <4>2. QED
          BY <3>0, <3>3, <4>1
      <3>5. FreeBlock(s, n) /\ ~In(s + n - 1)
        BY <2>2, <3>2, <3>3, <3>4
      <3>6. FreeBlock(s, n)'
        BY <1>5, <3>5
      <3>7. QED
        BY <3>3, <3>6
    <2>3. QED
      BY <2>1, <2>2
  <1>8. QED
    BY <1>2, <1>3, <1>6, <1>7 DEF TableInv

(* Of the m entries of a free run from c on, the first n are taken.  *)
LEMMA Granted ==
  ASSUME TableInv, TableType',
         NEW c \in Index, NEW n \in Length, NEW m \in Length, n <= m,
         FreeBlock(c, m), held' = held \cup {Run(c, n)},
         lutState'[c] = [free |-> FALSE, size |-> n],
         lutState'[c + n - 1] = [free |-> FALSE, size |-> n],
         n < m => /\ lutState'[c + n] = [free |-> TRUE, size |-> m - n]
                  /\ lutState'[c + m - 1] = [free |-> TRUE, size |-> m - n],
         \A i \in Index : i < c \/ c + m <= i => lutState'[i] = lutState[i]
  PROVE  TableInv'
  <1> DEFINE In(i) == c <= i /\ i < c + m
             Used(i) == c <= i /\ i < c + n
  <1>0. /\ c \in Int /\ RemotePages \in Int /\ n \in Int /\ m \in Int /\ n >= 1 /\ m >= 1
        /\ \A i \in Index : i \in Int /\ 0 <= i /\ i < RemotePages
        /\ \A i \in Int : 0 <= i /\ i < RemotePages => i \in Index
        /\ \A k \in Length : k \in Int /\ k >= 1
        /\ \A k \in Int : k >= 1 => k \in Length
    BY Pages0 DEF Index, Length
  <1>1. /\ \A i \in Int : In(i) => i \notin Taken
        /\ c = 0 \/ c - 1 \in Taken
        /\ c + m <= RemotePages
        /\ c + m = RemotePages \/ c + m \in Taken
    BY <1>0, RunMembers DEF FreeBlock, Block
  <1>2. \A i \in Int : i \in Taken' <=> i \in Taken \/ Used(i)
    <2>1. \A i \in Int : i \in Run(c, n) <=> Used(i)
      BY <1>0, RunMembers
    <2>2. \A i : i \in Taken' <=> i \in Taken \/ i \in Run(c, n)
      BY DEF Taken
    <2>3. QED
      BY <2>1, <2>2
  <1>3. HeldApart'
    <2>1. \A q \in held : q \cap Run(c, n) = {}
      <3>1. \A i \in Run(c, n) : i \in Int /\ In(i)
        BY <1>0 DEF Run
      <3>2. \A i \in Run(c, n) : i \notin Taken
        BY <1>1, <3>1
      <3>3. QED
        BY <3>2 DEF Taken
    <2>2. QED
      BY <2>1 DEF TableInv, HeldApart
  <1>4. HeldBlocks'
    <2> SUFFICES ASSUME NEW q \in held'
                 PROVE  \E s \in Index, k \in Length : q = Run(s, k) /\ Block(s, k, FALSE)'
      BY DEF HeldBlocks, Index
    <2>1. CASE q = Run(c, n)
      <3>1. Block(c, n, FALSE)'
        BY <1>0, <1>1 DEF Block, Tagged, Index
      <3>2. QED
        BY <2>1, <3>1
    <2>2. CASE q \in held
      <3>1. PICK s \in Index, k \in Length : q = Run(s, k) /\ Block(s, k, FALSE)
        BY <2>2 DEF TableInv, HeldBlocks
      <3>2. s \in Run(s, k) /\ s + k - 1 \in Run(s, k)
        BY <1>0, RunMembers
      <3>3. s \in Int /\ s + k - 1 \in Index
        BY <1>0, <3>1 DEF Block
      <3>4. \A i \in q : i \in Taken
        BY <2>2 DEF Taken
      <3>5. ~In(s) /\ ~In(s + k - 1)
        BY <1>0, <1>1, <3>1, <3>2, <3>3, <3>4
      <3>6. lutState'[s] = lutState[s] /\ lutState'[s + k - 1] = lutState[s + k - 1]
        BY <1>0, <3>3, <3>5
      <3>7. Block(s, k, FALSE)'
        BY <3>1, <3>6 DEF Block, Tagged, Index
      <3>8. QED
        BY <3>1, <3>7
    <2>3. QED
      BY <2>1, <2>2
  <1>5. ASSUME n < m
        PROVE  FreeBlock(c + n, m - n)'
    <2>1. (c + n) + (m - n) = c + m /\ (c + n) - 1 = c + n - 1 /\ c + n \in Index
      BY <1>0, <1>1, <1>5
    <2>2. Block(c + n, m - n, TRUE)'
      <3>1. (c + n) + (m - n) - 1 = c + m - 1 /\ (c + n) + (m - n) <= RemotePages
        BY <1>0, <1>1
      <3>2. QED
        BY <1>5, <2>1, <3>1 DEF Block, Tagged, Index
    <2>3. \A i \in Run(c + n, m - n) : i \in Int /\ In(i) /\ ~Used(i)
      BY <1>0, <1>5 DEF Run
    <2>4. (c + n) - 1 \in Taken'
      BY <1>0, <1>2
    <2>5. c + m = RemotePages \/ c + m \in Taken'
      BY <1>0, <1>1, <1>2
    <2>6. \A i \in Run(c + n, m - n) : i \notin Taken'
      BY <1>1, <1>2, <2>3
    <2>7. QED
      BY <2>1, <2>2, <2>4, <2>5, <2>6 DEF FreeBlock
  <1>6. ASSUME NEW s \in Index, NEW k \in Length, FreeBlock(s, k),
               ~In(s) \/ ~In(s + k - 1)
        PROVE  FreeBlock(s, k)'
    <2>0. s \in Int /\ k \in Int /\ k >= 1 /\ 0 <= s /\ s + k <= RemotePages
      BY <1>0, <1>6 DEF FreeBlock, Block
    <2>1. \A i \in Int : s <= i /\ i < s + k => i \notin Taken
      BY <1>0, <1>6, RunMembers DEF FreeBlock
    <2>2. s + k <= c \/ c + m <= s
      <3>1. CASE In(s)
        <4>1. s <= c + m /\ c + m < s + k
          BY <1>0, <1>6, <2>0, <3>1
        <4>2. c + m \notin Taken /\ c + m # RemotePages
          BY <1>0, <2>0, <2>1, <4>1
        <4>3. QED
          BY <1>1, <4>2
      <3>2. CASE s < c /\ c < s + k
        <4>1. c - 1 \notin Taken /\ c # 0
          BY <1>0, <2>0, <2>1, <3>2
        <4>2. QED
          BY <1>1, <4>1
      <3>3. QED
        BY <1>0, <2>0, <3>1, <3>2
    <2>3. lutState'[s] = lutState[s] /\ lutState'[s + k - 1] = lutState[s + k - 1]
      BY <1>0, <2>0, <2>2
    <2>4. Block(s, k, TRUE)'
      BY <1>6, <2>3 DEF FreeBlock, Block, Tagged, Index
    <2>5. \A i \in Run(s, k) : i \in Int /\ i \notin Taken /\ ~Used(i)
      <3>1. \A i \in Run(s, k) : i \in Int /\ s <= i /\ i < s + k
        BY <2>0 DEF Run
      <3>2. QED
        BY <1>0, <2>0, <2>1, <2>2, <3>1
    <2>6. \A i \in Run(s, k) : i \notin Taken'
      BY <1>2, <2>5
    <2>7. \A i \in Int : i \in Taken => i \in Taken'
      BY <1>2
    <2>8. (s = 0 \/ s - 1 \in Taken') /\ (s + k = RemotePages \/ s + k \in Taken')
      BY <1>6, <2>0, <2>7 DEF FreeBlock
    <2>9. QED
      BY <2>4, <2>6, <2>8 DEF FreeBlock
  <1>7. FreeFronts'
    <2> SUFFICES ASSUME NEW s \in Index, s \notin Taken', s = 0 \/ s - 1 \in Taken'
                 PROVE  \E k \in Length : FreeBlock(s, k)'
      BY DEF FreeFronts, Index
    <2>0. s \in Int /\ s - 1 \in Int /\ s < RemotePages
      BY <1>0
    <2>1. CASE In(s)
      <3>1. s = c + n /\ n < m
        BY <1>0, <1>1, <1>2, <2>0, <2>1
      <3>2. m - n \in Length /\ FreeBlock(c + n, m - n)'
        BY <1>0, <1>5, <3>1
      <3>3. QED
        BY <3>1, <3>2
    <2>2. CASE ~In(s)
      <3>1. s \notin Taken
        BY <1>2, <2>0
      <3>2. s = 0 \/ s - 1 \in Taken
        <4>1. CASE Used(s - 1)
          <5>1. s = c + m
            BY <1>0, <2>0, <2>2, <4>1
          <5>2. QED
            BY <1>1, <2>0, <3>1, <5>1
        <4>2. QED
          BY <1>2, <2>0, <4>1
      <3>3. QED
        BY <1>6, <2>2, <3>1, <3>2 DEF TableInv, FreeFronts
    <2>3. QED
      BY <2>1, <2>2
  <1>8. FreeBacks'
    <2> SUFFICES ASSUME NEW e \in Index, e \notin Taken',
                        e + 1 = RemotePages \/ e + 1 \in Taken'
                 PROVE  \E k \in Length : FreeBlock(e + 1 - k, k)'
      BY DEF FreeBacks, Index
    <2>0. e \in Int /\ e + 1 \in Int /\ 0 <= e
      BY <1>0
    <2>1. CASE In(e)
      <3>1. n < m /\ e + 1 = c + m
        BY <1>0, <1>1, <1>2, <2>0, <2>1
      <3>2. m - n \in Length /\ e + 1 - (m - n) = c + n
        BY <1>0, <2>0, <3>1
      <3>3. QED
        BY <1>5, <3>1, <3>2
    <2>2. CASE ~In(e)
      <3>1. e \notin Taken
        BY <1>2, <2>0
      <3>2. e + 1 = RemotePages \/ e + 1 \in Taken
        <4>1. CASE Used(e + 1)
          <5>1. e = c - 1 /\ c # 0
            BY <1>0, <2>0, <2>2, <4>1
          <5>2. QED
            BY <1>1, <3>1, <5>1
        <4>2. QED
          BY <1>2, <2>0, <4>1
      <3>3. PICK k \in Length : FreeBlock(e + 1 - k, k)
        BY <3>1, <3>2 DEF TableInv, FreeBacks
      <3>4. PICK s \in Index : s = e + 1 - k
        BY <3>3 DEF FreeBlock, Block
      <3>5. s + k - 1 = e
        BY <1>0, <3>4
      <3>6. FreeBlock(s, k) /\ ~In(s + k - 1)
        BY <2>2, <3>3, <3>4, <3>5
      <3>7. FreeBlock(s, k)'
        BY <1>6, <3>6
      <3>8. QED
        BY <3>4, <3>7
    <2>3. QED
      BY <2>1, <2>2
  <1>9. QED
    BY <1>3, <1>4, <1>7, <1>8 DEF TableInv

-----------------------------------------------------------------------------
(***************************************************************************)
(* The operations.                                                         *)
(***************************************************************************)

(* A write of one field of an entry, as a write of the entry. *)
LEMMA SizeWritten ==
  ASSUME TableType, NEW i \in Index, NEW n \in Nat
  PROVE  [lutState EXCEPT ![i].size = n]
           = [lutState EXCEPT ![i] = [free |-> lutState[i].free, size |-> n]]
  <1>1. PICK g : g = [lutState EXCEPT ![i].size = n]
    OBVIOUS
  <1>2. PICK h : h = [lutState EXCEPT ![i] = [free |-> lutState[i].free, size |-> n]]
    OBVIOUS
  <1>3. \A j \in Index : g[j] = h[j]
    BY <1>1, <1>2 DEF TableType
  <1>4. g \in [Index -> [free : BOOLEAN, size : Nat]] /\ h \in [Index -> [free : BOOLEAN, size : Nat]]
    <2>1. g = [j \in Index |-> g[j]]
      BY <1>1 DEF TableType
    <2>2. h = [j \in Index |-> h[j]]
      BY <1>2 DEF TableType
    <2>3. \A j \in Index : h[j] \in [free : BOOLEAN, size : Nat]
      BY <1>2 DEF TableType
    <2>4. QED
      BY <1>3, <2>1, <2>2, <2>3
  <1>5. g = h
    BY <1>3, <1>4
  <1>6. QED
    BY <1>1, <1>2, <1>5

(* SCCFreeLut of a run that is taken. *)
LEMMA FreeLut ==
  ASSUME TableInv, NEW l \in Index, NEW k \in Length, TakenBlock(l, k),
         SCCFreeLut(l), held' = held \ {Run(l, k)}
  PROVE  TableInv'
  <1> DEFINE table == AbsorbNext(l)
             next  == l + k
             Behind(b) ==
               /\ next <= b /\ b <= RemotePages
               /\ b = RemotePages \/ b \in Taken
               /\ \A i \in Int : next <= i /\ i < b => i \notin Taken
               /\ table = [lutState EXCEPT ![l] = [free |-> FALSE, size |-> b - l]]
             First(f, b) ==
               /\ f <= l
               /\ f = 0 \/ f - 1 \in Taken
               /\ \A i \in Int : f <= i /\ i < l => i \notin Taken
               /\ lutState' = [table EXCEPT ![f] = [free |-> TRUE, size |-> b - f],
                                            ![b - 1] = [free |-> TRUE, size |-> b - f]]
  <1>0. /\ l \in Int /\ 0 <= l /\ l < RemotePages /\ RemotePages \in Int
        /\ k \in Int /\ k >= 1 /\ next \in Nat
    BY Pages0 DEF Index, Length
  <1>1. /\ \A i \in Index : i \in Int /\ 0 <= i /\ i < RemotePages
        /\ \A i \in Int : 0 <= i /\ i < RemotePages => i \in Index
        /\ \A n \in Length : n \in Int /\ n >= 1
    BY Pages0 DEF Index, Length
  <1>2. /\ Run(l, k) \in held /\ next <= RemotePages
        /\ lutState[l] = [free |-> FALSE, size |-> k]
    BY <1>0 DEF TakenBlock, Block, Tagged
  <1>3. \A i \in Int : i \in Run(l, k) <=> l <= i /\ i < next
    BY <1>0 DEF Run
  <1>4. l \in Taken
    BY <1>0, <1>2, <1>3 DEF Taken
  <1>5. \E b \in Nat : Behind(b)
    <2>1. ASSUME table = lutState, next = RemotePages \/ next \in Taken
          PROVE  Behind(next)
      <3>1. next - l = k
        BY <1>0
      <3>2. table = [lutState EXCEPT ![l] = [free |-> FALSE, size |-> next - l]]
        BY <1>2, <2>1, <3>1 DEF TableInv, TableType
      <3>3. next <= next /\ \A i \in Int : ~(next <= i /\ i < next)
        BY <1>0
      <3>4. QED
        BY <1>2, <2>1, <3>2, <3>3
    <2>2. CASE next = RemotePages
      <3>1. table = lutState
        BY <1>0, <1>2, <2>2 DEF AbsorbNext
      <3>2. QED
        BY <1>0, <2>1, <2>2, <3>1
    <2>3. CASE next < RemotePages
      <3>1. PICK m \in Length : TakenBlock(next, m) \/ FreeBlock(next, m)
        BY <2>3, NextBegins
      <3>2. m \in Int /\ m >= 1
        BY <1>1
      <3>3. CASE TakenBlock(next, m)
        <4>1. ~lutState[next].free
          BY <3>3 DEF TakenBlock, Block, Tagged
        <4>2. table = lutState
          BY <1>2, <4>1 DEF AbsorbNext
        <4>3. next \in Taken
          BY <1>0, <3>2, <3>3 DEF TakenBlock, Taken, Run
        <4>4. QED
          BY <1>0, <2>1, <4>2, <4>3
      <3>4. CASE FreeBlock(next, m)
        <4>1. PICK b \in Int : b = next + m
          BY <1>0, <3>2
        <4>2. /\ lutState[next] = [free |-> TRUE, size |-> m]
              /\ b <= RemotePages
              /\ b = RemotePages \/ b \in Taken
              /\ \A i \in Run(next, m) : i \notin Taken
          BY <3>4, <4>1 DEF FreeBlock, Block, Tagged
        <4>3. \A i \in Int : next <= i /\ i < b => i \notin Taken
          BY <1>0, <3>2, <4>1, <4>2 DEF Run
        <4>4. k + m = b - l /\ b \in Nat /\ next <= b
          BY <1>0, <3>2, <4>1
        <4>5. lutState[l].size = k /\ lutState[next].size = m /\ lutState[next].free
          BY <1>2, <4>2
        <4>6. table = [lutState EXCEPT ![l].size = b - l]
          BY <2>3, <4>4, <4>5 DEF AbsorbNext
        <4>7. table = [lutState EXCEPT ![l] = [free |-> FALSE, size |-> b - l]]
          <5>1. b - l \in Nat
            BY <1>0, <3>2, <4>4
          <5>2. lutState \in [Index -> [free : BOOLEAN, size : Nat]] /\ lutState[l].free = FALSE
            BY <1>2 DEF TableInv, TableType
          <5>3. PICK x \in Nat : x = b - l
            BY <5>1
          <5>4. table = [lutState EXCEPT ![l].size = x]
            BY <4>6, <5>3
          <5>5. table = [lutState EXCEPT ![l] = [free |-> lutState[l].free, size |-> x]]
            <6> HIDE DEF table
            <6>1. TableType
              BY DEF TableInv
            <6>2. QED
              BY <5>4, <6>1, SizeWritten
          <5>6. QED
            BY <5>2, <5>3, <5>5
        <4>8. Behind(b)
          BY <4>2, <4>3, <4>4, <4>7
        <4>9. QED
          BY <4>4, <4>8
      <3>5. QED
        BY <3>1, <3>3, <3>4
    <2>4. QED
      BY <1>0, <1>2, <2>2, <2>3
  <1>6. PICK behind \in Nat : Behind(behind)
    BY <1>5
  <1>7. /\ table[l].size = behind - l
        /\ \A i \in Index : i # l => table[i] = lutState[i]
    BY <1>6 DEF TableInv, TableType
  <1>8. \E f \in Index : First(f, behind)
    <2>1. 0 < l => l - 1 \in Index /\ table[l - 1] = lutState[l - 1]
      BY <1>0, <1>1, <1>7
    <2>2. ASSUME 0 < l, l - 1 \notin Taken
          PROVE  \E f \in Index, n \in Length :
                   /\ FreeBlock(f, n) /\ f + n = l
                   /\ lutState[l - 1] = [free |-> TRUE, size |-> n]
      <3>1. l - 1 \in Index /\ (l - 1) + 1 \in Taken /\ (l - 1) + 1 = l
        BY <1>0, <1>4, <2>1, <2>2
      <3>2. PICK n \in Length : FreeBlock((l - 1) + 1 - n, n)
        BY <2>2, <3>1 DEF TableInv, FreeBacks
      <3>3. PICK f \in Index : f = (l - 1) + 1 - n
        BY <3>2 DEF FreeBlock, Block
      <3>4. f + n = l /\ f + n - 1 = l - 1
        BY <1>0, <1>1, <3>3
      <3>5. FreeBlock(f, n)
        BY <3>2, <3>3
      <3>6. lutState[l - 1] = [free |-> TRUE, size |-> n]
        BY <3>4, <3>5 DEF FreeBlock, Block, Tagged
      <3>7. QED
        BY <3>4, <3>5, <3>6
    <2>3. CASE 0 < l /\ table[l - 1].free
      <3>1. l - 1 \notin Taken
        <4>1. SUFFICES ASSUME l - 1 \in Taken
                       PROVE  FALSE
          OBVIOUS
        <4>2. (l - 1) + 1 = l /\ l - 1 \notin Run(l, k) /\ l \in Run(l, k)
          BY <1>0, <1>3
        <4>3. (l - 1) + 1 \notin Taken \/ \E r \in held : (l - 1) + 1 \in r /\ l - 1 \notin r
          BY <1>2, <4>2
        <4>4. PICK n \in Length : TakenBlock((l - 1) + 1 - n, n)
          BY <4>1, <4>3, TakenBack
        <4>5. (l - 1) + 1 - n + n - 1 = l - 1
          BY <1>0, <1>1
        <4>6. ~lutState[l - 1].free
          BY <4>4, <4>5 DEF TakenBlock, Block, Tagged
        <4>7. QED
          BY <2>1, <2>3, <4>6
      <3>2. PICK f \in Index, n \in Length :
              /\ FreeBlock(f, n) /\ f + n = l
              /\ lutState[l - 1] = [free |-> TRUE, size |-> n]
        BY <2>2, <2>3, <3>1
      <3>3. f \in Int /\ n \in Int /\ n >= 1 /\ f < l /\ l - n = f
        BY <1>0, <1>1, <3>2
      <3>4. lutState[f] = [free |-> TRUE, size |-> n] /\ table[f] = lutState[f]
        BY <1>7, <3>2, <3>3 DEF FreeBlock, Block, Tagged
      <3>5. l - table[l - 1].size = f
        BY <2>1, <2>3, <3>2, <3>3
      <3>6. table[f].size + table[f + table[f].size].size = behind - f
        BY <1>0, <1>7, <3>2, <3>3, <3>4
      <3>7. f + (behind - f) - 1 = behind - 1
        BY <3>3
      <3>8. lutState' = [table EXCEPT ![f] = [free |-> TRUE, size |-> behind - f],
                                      ![behind - 1] = [free |-> TRUE, size |-> behind - f]]
        BY <2>3, <3>5, <3>6, <3>7 DEF SCCFreeLut
      <3>9. \A i \in Int : f <= i /\ i < l => i \notin Taken
        BY <1>0, <3>2, <3>3 DEF FreeBlock, Run
      <3>10. f = 0 \/ f - 1 \in Taken
        BY <3>2 DEF FreeBlock
      <3>11. First(f, behind)
        BY <3>3, <3>8, <3>9, <3>10
      <3>12. QED
        BY <3>11
    <2>4. CASE ~(0 < l /\ table[l - 1].free)
      <3>1. l = 0 \/ l - 1 \in Taken
        <4>1. SUFFICES ASSUME 0 < l, l - 1 \notin Taken
                       PROVE  FALSE
          BY <1>0
        <4>2. PICK n \in Length : lutState[l - 1] = [free |-> TRUE, size |-> n]
          BY <2>2, <4>1
        <4>3. QED
          BY <2>1, <2>4, <4>1, <4>2
      <3>2. l + (behind - l) - 1 = behind - 1
        BY <1>0
      <3>3. lutState' = [table EXCEPT ![l] = [free |-> TRUE, size |-> behind - l],
                                      ![behind - 1] = [free |-> TRUE, size |-> behind - l]]
        BY <1>7, <2>4, <3>2 DEF SCCFreeLut
      <3>4. \A i \in Int : ~(l <= i /\ i < l)
        BY <1>0
      <3>5. l <= l
        BY <1>0
      <3>6. First(l, behind)
        BY <3>1, <3>3, <3>4, <3>5
      <3>7. QED
        BY <3>6
    <2>5. QED
      BY <2>3, <2>4
  <1>9. PICK first \in Index : First(first, behind)
    BY <1>8
  <1>10. /\ first \in Int /\ first <= l /\ first < behind /\ behind <= RemotePages
         /\ next <= behind /\ behind - first \in Nat /\ behind - l \in Nat
         /\ behind - 1 \in Index
    BY <1>0, <1>1, <1>6, <1>9
  <1>11. table \in [Index -> [free : BOOLEAN, size : Nat]]
    BY <1>6, <1>10 DEF TableInv, TableType
  <1>12. TableType'
    BY <1>9, <1>10, <1>11 DEF TableType, Index
  <1>13. /\ lutState'[first] = [free |-> TRUE, size |-> behind - first]
         /\ lutState'[behind - 1] = [free |-> TRUE, size |-> behind - first]
    BY <1>9, <1>10, <1>11
  <1>14. \A i \in Index : i < first \/ behind <= i => lutState'[i] = lutState[i]
    <2> SUFFICES ASSUME NEW i \in Index, i < first \/ behind <= i
                 PROVE  lutState'[i] = lutState[i]
      OBVIOUS
    <2>1. i # first /\ i # behind - 1 /\ i # l
      BY <1>0, <1>1, <1>10
    <2>2. QED
      BY <1>7, <1>9, <1>11, <2>1
  <1>15. PICK r \in held : r = Run(l, k)
    BY <1>2
  <1>16. \A i \in r : i \in Int /\ first <= i /\ i < behind
    BY <1>0, <1>10, <1>15 DEF Run
  <1>17. \A i \in Int : first <= i /\ i < behind => i \notin Taken \/ i \in r
    BY <1>0, <1>3, <1>6, <1>9, <1>15
  <1>18. /\ first = 0 \/ first - 1 \in Taken
         /\ behind = RemotePages \/ behind \in Taken
         /\ held' = held \ {r}
    BY <1>6, <1>9, <1>15
  <1>19. QED
    <2> HIDE DEF table, next, Behind, First
    <2>1. QED
      BY <1>10, <1>12, <1>13, <1>14, <1>16, <1>17, <1>18, Freed

(* A run that SCCMallocLut passes over leaves nothing behind it that would *)
(* have done.                                                              *)
LEMMA NothingBefore ==
  ASSUME TableInv, ScanInv, pc = "scan", ~Suits
  PROVE  \E n \in Length :
           /\ lutState[curr].size = n /\ curr + n <= RemotePages
           /\ TakenBlock(curr, n) \/ FreeBlock(curr, n)
           /\ \A s \in Index : s < curr + n => \E i \in Run(s, size) : i \notin Index \/ i \in Taken
  <1>1. /\ size \in Length /\ curr \in Index
        /\ \E n \in Length : TakenBlock(curr, n) \/ FreeBlock(curr, n)
        /\ \A s \in Index : s < curr => \E i \in Run(s, size) : i \notin Index \/ i \in Taken
    BY DEF ScanInv
  <1>2. PICK n \in Length : TakenBlock(curr, n) \/ FreeBlock(curr, n)
    BY <1>1
  <1>3. /\ curr \in Int /\ n \in Int /\ n >= 1 /\ size \in Int /\ size >= 1 /\ RemotePages \in Int
        /\ \A i \in Index : i \in Int /\ i < RemotePages
    BY <1>1, Pages0 DEF Index, Length
  <1>4. lutState[curr].size = n /\ curr + n <= RemotePages
    BY <1>2 DEF TakenBlock, FreeBlock, Block, Tagged
  <1>5. ASSUME NEW s \in Index, s < curr + n
        PROVE  \E i \in Run(s, size) : i \notin Index \/ i \in Taken
    <2>1. CASE s < curr
      BY <1>1, <2>1
    <2>2. CASE curr <= s /\ TakenBlock(curr, n)
      <3>1. s \in Run(curr, n) /\ s \in Run(s, size)
        BY <1>3, <1>5, <2>2 DEF Run
      <3>2. s \in Taken
        BY <2>2, <3>1 DEF TakenBlock, Taken
      <3>3. QED
        BY <3>1, <3>2
    <2>3. CASE curr <= s /\ FreeBlock(curr, n)
      <3>1. lutState[curr].free
        BY <2>3 DEF FreeBlock, Block, Tagged
      <3>2. n < size
        BY <1>3, <1>4, <3>1 DEF Suits
      <3>3. curr + n \in Run(s, size)
        BY <1>3, <1>5, <2>3, <3>2 DEF Run
      <3>4. curr + n \notin Index \/ curr + n \in Taken
        BY <1>3, <2>3 DEF FreeBlock
      <3>5. QED
        BY <3>3, <3>4
    <2>4. QED
      BY <1>2, <1>3, <2>1, <2>2, <2>3
  <1>6. QED
    BY <1>2, <1>4, <1>5

(* The entry that SCCMallocLut takes, is the beginning of a free run. *)
LEMMA SuitsFree ==
  ASSUME TableInv, ScanInv, pc = "scan", Suits
  PROVE  \E m \in Length :
           /\ FreeBlock(curr, m) /\ lutState[curr].size = m
           /\ size \in Length /\ curr \in Index /\ size <= m
  <1>1. PICK m \in Length : TakenBlock(curr, m) \/ FreeBlock(curr, m)
    BY DEF ScanInv
  <1>2. FreeBlock(curr, m)
    BY <1>1 DEF Suits, TakenBlock, Block, Tagged
  <1>3. lutState[curr].size = m
    BY <1>2 DEF FreeBlock, Block, Tagged
  <1>4. size \in Length /\ curr \in Index /\ size <= m
    BY <1>3 DEF Suits, ScanInv, Length
  <1>5. QED
    BY <1>2, <1>3, <1>4

LEMMA InitTable ==
  ASSUME Init
  PROVE  LutInv
  <1>1. TableType
    BY LutAssumption DEF Init, TableType, Entry
  <1>2. QED
    BY <1>1 DEF Init, LutInv, Astray

LEMMA SCCInitTable ==
  ASSUME LutInv, SCCInit
  PROVE  LutInv'
  <1>1. TableType /\ held = {} /\ held' = {} /\ pc' = "idle" /\ size' = 0 /\ ~Astray'
    BY DEF LutInv, Astray, SCCInit
  <1>2. 0 \in Index /\ RemotePages - 1 \in Index /\ RemotePages \in Length
    BY Pages0 DEF Index, Length
  <1>3. TableType'
    BY <1>1, <1>2, Pages0 DEF SCCInit, TableType, Index
  <1>4. Taken' = {}
    BY <1>1 DEF Taken
  <1>5. FreeBlock(0, RemotePages)'
    <2>1. /\ 0 + RemotePages = RemotePages /\ 0 + RemotePages <= RemotePages
          /\ 0 + RemotePages - 1 = RemotePages - 1
      BY Pages0
    <2>2. /\ lutState'[0] = [free |-> TRUE, size |-> RemotePages]
          /\ lutState'[RemotePages - 1] = [free |-> TRUE, size |-> RemotePages]
      BY <1>1, <1>2 DEF SCCInit, TableType
    <2>3. Block(0, RemotePages, TRUE)'
      BY <1>2, <2>1, <2>2 DEF Block, Tagged, Index
    <2>4. QED
      BY <1>4, <2>1, <2>3 DEF FreeBlock
  <1>6. FreeFronts'
    BY <1>2, <1>4, <1>5 DEF FreeFronts, Index
  <1>7. FreeBacks'
    <2> SUFFICES ASSUME NEW e \in Index, e + 1 = RemotePages
                 PROVE  \E n \in Length : FreeBlock(e + 1 - n, n)'
      BY <1>4 DEF FreeBacks, Index
    <2>1. e + 1 - RemotePages = 0
      BY Pages0 DEF Index
    <2>2. QED
      BY <1>2, <1>5, <2>1
  <1>8. TableInv'
    BY <1>1, <1>3, <1>6, <1>7 DEF TableInv, HeldBlocks, HeldApart
  <1>9. QED
    BY <1>1, <1>8 DEF SCCInit, LutInv, Astray, ScanInv

LEMMA TableKept ==
  ASSUME TableInv, lutState' = lutState, held' = held
  PROVE  TableInv'
  <1>1. \A s, n : \A free \in BOOLEAN : Block(s, n, free)' <=> Block(s, n, free)
    BY DEF Block, Tagged, Index
  <1>2. Taken' = Taken
    BY DEF Taken
  <1>3. \A s, n : FreeBlock(s, n)' <=> FreeBlock(s, n)
    BY <1>1, <1>2 DEF FreeBlock
  <1>4. TableType' /\ HeldApart'
    BY DEF TableInv, TableType, HeldApart, Index
  <1>5. HeldBlocks'
    BY <1>1 DEF TableInv, HeldBlocks, Index
  <1>6. FreeFronts' /\ FreeBacks'
    BY <1>2, <1>3 DEF TableInv, FreeFronts, FreeBacks, Index
  <1>7. QED
    BY <1>4, <1>5, <1>6 DEF TableInv

LEMMA MallocTable ==
  ASSUME LutInv, NEW n \in Sizes, Malloc(n)
  PROVE  LutInv'
  <1>1. /\ TableInv /\ strayed' = FALSE /\ missed' = {} /\ pc' = "scan" /\ curr' = 0 /\ size' = n
        /\ remote' \in Bases \cup {MAP_FAILED} /\ lutState' = lutState /\ held' = held
    BY DEF LutInv, Astray, Malloc
  <1>2. TableInv'
    BY <1>1, TableKept
  <1>3. 0 \in Index /\ n \in Length
    BY Pages0, LutAssumption DEF Index, Length
  <1>4. \A i \in Taken : i \in Int /\ 0 <= i
    BY <1>1, TakenRun DEF Index
  <1>5. \E m \in Length : TakenBlock(0, m) \/ FreeBlock(0, m)
    <2>1. CASE 0 \in Taken
      <3>1. 0 - 1 \notin Taken
        BY <1>4
      <3>2. QED
        BY <1>1, <2>1, <3>1, TakenFront
    <2>2. CASE 0 \notin Taken
      BY <1>1, <1>3, <2>2 DEF TableInv, FreeFronts
    <2>3. QED
      BY <2>1, <2>2
  <1>6. \E m \in Length : TakenBlock(0, m)' \/ FreeBlock(0, m)'
    BY <1>1, <1>5 DEF TakenBlock, FreeBlock, Block, Tagged, Taken
  <1>7. ScanInv'
    <2>1. \A s \in Index : ~(s < 0)
      BY DEF Index
    <2>2. QED
      BY <1>1, <1>3, <1>6, <2>1 DEF ScanInv, Index
  <1>8. QED
    BY <1>1, <1>2, <1>7 DEF LutInv, Astray

LEMMA TakeAllTable ==
  ASSUME LutInv, TakeAll
  PROVE  LutInv'
  <1>1. /\ TableInv /\ ScanInv /\ pc = "scan" /\ Suits /\ ~Astray
        /\ lutState[curr].size = size /\ pc' = "idle" /\ size' = 0
        /\ held' = held \cup {Run(curr, size)}
        /\ remote' \in Bases \cup {MAP_FAILED} /\ strayed' = FALSE /\ missed' = {}
    BY DEF LutInv, Astray, TakeAll, Grant
  <1>2. /\ FreeBlock(curr, size) /\ size \in Length /\ curr \in Index
    BY <1>1, SuitsFree
  <1>3. /\ curr \in Int /\ size \in Int /\ size >= 1 /\ size \in Nat
        /\ curr + size - 1 \in Index
        /\ \A i \in Index : i \in Int
        /\ curr <= curr + size - 1 /\ curr + size - 1 < curr + size
    BY <1>2, Pages0 DEF FreeBlock, Block, Index, Length
  <1>4. /\ lutState[curr] = [free |-> TRUE, size |-> size]
        /\ lutState[curr + size - 1] = [free |-> TRUE, size |-> size]
        /\ lutState \in [Index -> [free : BOOLEAN, size : Nat]]
    BY <1>1, <1>2 DEF FreeBlock, Block, Tagged, TableInv, TableType
  <1>5. PICK last \in Index : last = curr + size - 1
    BY <1>3
  <1>6. /\ lutState'[curr] = [free |-> FALSE, size |-> size]
        /\ lutState'[last] = [free |-> FALSE, size |-> size]
        /\ \A i \in Index : i # curr /\ i # last => lutState'[i] = lutState[i]
        /\ lutState' \in [Index -> [free : BOOLEAN, size : Nat]]
    <2>1. lutState' = [lutState EXCEPT ![curr].free = FALSE, ![last].free = FALSE]
      BY <1>5 DEF TakeAll
    <2>2. PICK g : g = [lutState EXCEPT ![curr].free = FALSE]
      OBVIOUS
    <2>3. lutState' = [g EXCEPT ![last].free = FALSE]
      BY <2>1, <2>2
    <2>4. lutState \in [Index -> [free : BOOLEAN, size : Nat]] /\ curr \in Index
      BY <1>2, <1>4
    <2>5. g \in [Index -> [free : BOOLEAN, size : Nat]]
      BY <2>2, <2>4
    <2>6. /\ g[curr] = [free |-> FALSE, size |-> lutState[curr].size]
          /\ \A i \in Index : i # curr => g[i] = lutState[i]
      BY <2>2, <2>4
    <2>7. g[curr].size = size /\ g[last].size = size
      BY <1>4, <1>5, <2>6
    <2>8. lutState' \in [Index -> [free : BOOLEAN, size : Nat]]
      BY <2>3, <2>5
    <2>9. /\ lutState'[last] = [free |-> FALSE, size |-> g[last].size]
          /\ \A i \in Index : i # last => lutState'[i] = g[i]
      BY <2>3, <2>5
    <2>10. lutState'[curr] = [free |-> FALSE, size |-> size]
      BY <1>4, <2>4, <2>6, <2>7, <2>9
    <2>11. QED
      BY <2>6, <2>7, <2>8, <2>9, <2>10
  <1>7. \A i \in Index : i < curr \/ curr + size <= i => lutState'[i] = lutState[i]
    BY <1>3, <1>5, <1>6
  <1>8. TableType'
    BY <1>6 DEF TableType, Index
  <1>9. /\ lutState'[curr + size - 1] = [free |-> FALSE, size |-> size]
        /\ size <= size /\ ~(size < size)
    BY <1>3, <1>5, <1>6
  <1>10. TableInv'
    <2>1. PICK c \in Index, n \in Length : c = curr /\ n = size
      BY <1>2
    <2>2. QED
      BY <1>1, <1>2, <1>6, <1>7, <1>8, <1>9, <2>1, Granted
  <1>11. QED
    BY <1>1, <1>10 DEF LutInv, Astray, ScanInv

LEMMA TakeFrontTable ==
  ASSUME LutInv, TakeFront
  PROVE  LutInv'
  <1>1. /\ TableInv /\ ScanInv /\ pc = "scan" /\ Suits /\ ~Astray
        /\ lutState[curr].size > size /\ pc' = "idle" /\ size' = 0
        /\ held' = held \cup {Run(curr, size)}
        /\ remote' \in Bases \cup {MAP_FAILED} /\ strayed' = FALSE /\ missed' = {}
    BY DEF LutInv, Astray, TakeFront, Grant
  <1>2. PICK m \in Length :
          /\ FreeBlock(curr, m) /\ lutState[curr].size = m
          /\ size \in Length /\ curr \in Index
    BY <1>1, SuitsFree
  <1>3. PICK c \in Index, n \in Length : c = curr /\ n = size
    BY <1>2
  <1>4. /\ c \in Int /\ n \in Int /\ m \in Int /\ n >= 1 /\ n < m /\ n <= m
        /\ n \in Nat /\ m - n \in Nat /\ c + m <= RemotePages
        /\ RemotePages \in Int /\ \A i \in Index : i \in Int
    BY <1>1, <1>2, <1>3, Pages0 DEF FreeBlock, Block, Index, Length
  <1>5. PICK next \in Int, last \in Int, end \in Int :
          next = c + n /\ last = c + n - 1 /\ end = c + m - 1
    BY <1>4
  <1>6. /\ next \in Index /\ last \in Index /\ end \in Index
        /\ c <= last /\ last < next /\ next <= end /\ next + (m - n) - 1 = end
        /\ c < next
    BY <1>4, <1>5 DEF Index
  <1>7. lutState \in [Index -> [free : BOOLEAN, size : Nat]]
    BY <1>1 DEF TableInv, TableType
  <1>8. lutState' = [lutState EXCEPT ![next] = [free |-> TRUE, size |-> m - n],
                                     ![end] = [free |-> TRUE, size |-> m - n],
                                     ![c] = [free |-> FALSE, size |-> n],
                                     ![last] = [free |-> FALSE, size |-> n]]
    BY <1>2, <1>3, <1>5, <1>6 DEF TakeFront
  <1>9. /\ lutState'[next] = [free |-> TRUE, size |-> m - n]
        /\ lutState'[end] = [free |-> TRUE, size |-> m - n]
        /\ lutState'[c] = [free |-> FALSE, size |-> n]
        /\ lutState'[last] = [free |-> FALSE, size |-> n]
        /\ \A i \in Index : i \notin {c, last, next, end} => lutState'[i] = lutState[i]
    <2>1. lutState'[last] = [free |-> FALSE, size |-> n]
      BY <1>6, <1>7, <1>8
    <2>2. lutState'[c] = [free |-> FALSE, size |-> n]
      BY <1>6, <1>7, <1>8
    <2>3. lutState'[next] = [free |-> TRUE, size |-> m - n]
      BY <1>4, <1>5, <1>6, <1>7, <1>8
    <2>4. lutState'[end] = [free |-> TRUE, size |-> m - n]
      BY <1>4, <1>5, <1>6, <1>7, <1>8
    <2>5. \A i \in Index : i \notin {c, last, next, end} => lutState'[i] = lutState[i]
      BY <1>7, <1>8
    <2>6. QED
      BY <2>1, <2>2, <2>3, <2>4, <2>5
  <1>10. TableType'
    <2>1. lutState' \in [Index -> [free : BOOLEAN, size : Nat]]
      BY <1>4, <1>7, <1>8
    <2>2. QED
      BY <2>1 DEF TableType, Index
  <1>11. \A i \in Index : i < c \/ c + m <= i => lutState'[i] = lutState[i]
    BY <1>4, <1>5, <1>6, <1>9
  <1>12. TableInv'
    BY <1>1, <1>2, <1>3, <1>4, <1>5, <1>9, <1>10, <1>11, Granted
  <1>13. QED
    BY <1>1, <1>12 DEF LutInv, Astray, ScanInv

LEMMA SkipTable ==
  ASSUME LutInv, Skip
  PROVE  LutInv'
  <1>1. /\ TableInv /\ ScanInv /\ pc = "scan" /\ ~Suits /\ strayed' = FALSE /\ missed' = {}
        /\ remote' \in Bases \cup {MAP_FAILED}
        /\ lutState' = lutState /\ held' = held
    BY DEF LutInv, Astray, Skip
  <1>2. TableInv'
    BY <1>1, TableKept
  <1>3. CASE ~(curr + lutState[curr].size < RemotePages)
    BY <1>1, <1>2, <1>3 DEF Skip, LutInv, Astray, ScanInv
  <1>4. CASE curr + lutState[curr].size < RemotePages
    <2>1. PICK n \in Length :
            /\ lutState[curr].size = n
            /\ TakenBlock(curr, n) \/ FreeBlock(curr, n)
            /\ \A s \in Index : s < curr + n =>
                 \E i \in Run(s, size) : i \notin Index \/ i \in Taken
      BY <1>1, NothingBefore
    <2>2. curr' = curr + n /\ pc' = "scan" /\ size' = size /\ size \in Length /\ curr \in Index
      BY <1>1, <1>4, <2>1 DEF Skip, ScanInv
    <2>3. curr + n \in Index /\ \E m \in Length : TakenBlock(curr + n, m) \/ FreeBlock(curr + n, m)
      BY <1>1, <1>4, <2>1, <2>2, NextBegins
    <2>4. \E m \in Length : TakenBlock(curr, m)' \/ FreeBlock(curr, m)'
      BY <1>1, <2>2, <2>3 DEF TakenBlock, FreeBlock, Block, Tagged, Taken
    <2>5. \A s \in Index : s < curr' => \E i \in Run(s, size') : i \notin Index \/ i \in Taken'
      BY <1>1, <2>1, <2>2 DEF Taken
    <2>6. ScanInv'
      BY <2>2, <2>3, <2>4, <2>5 DEF ScanInv, Index
    <2>7. QED
      BY <1>1, <1>2, <2>2, <2>6 DEF LutInv, Astray
  <1>5. QED
    BY <1>3, <1>4

(***************************************************************************)
(* Pointers.                                                               *)
(***************************************************************************)

(* The facts about the constants that address arithmetic rests on. *)
LEMMA Widths ==
  /\ RemotePages \in Nat /\ LocalPages \in Nat /\ HalfLut \in Nat /\ PageSize \in Nat \ {0}
  /\ LOCAL_LUT \in Nat /\ Local \in Nat
  /\ RemotePages < Entries /\ LocalPages < HalfLut
  /\ REMOTE_LUT \in Nat /\ REMOTE_LUT = LOCAL_LUT + LocalPages
  /\ REMOTE_LUT + RemotePages < Entries /\ Entries \in Nat /\ Entries = 2 * HalfLut
  /\ Half \in Nat /\ Word \in Nat /\ Word = Half + Half /\ MAP_FAILED = Word - 1
  /\ Word = Entries * PageSize /\ Half = HalfLut * PageSize
  <1>1. /\ RemotePages \in Nat /\ LocalPages \in Nat /\ HalfLut \in Nat /\ PageSize \in Nat \ {0}
        /\ LOCAL_LUT \in Nat /\ Local \in Nat /\ LocalPages < HalfLut
        /\ LOCAL_LUT + LocalPages + RemotePages < 2 * HalfLut
    BY LutAssumption DEF Entries
  <1>2. Half \in Nat /\ Half = HalfLut * PageSize
    BY <1>1 DEF Half
  <1>3. Entries \in Nat /\ Entries = 2 * HalfLut
    BY <1>1 DEF Entries
  <1>4. Word = Entries * PageSize /\ MAP_FAILED = Word - 1
    BY DEF Word, MAP_FAILED
  <1>5. (2 * HalfLut) * PageSize = HalfLut * PageSize + HalfLut * PageSize
    BY <1>1
  <1>6. Word = Half + Half
    BY <1>2, <1>3, <1>4, <1>5
  <1>7. Word \in Nat
    BY <1>2, <1>6
  <1>8. REMOTE_LUT = LOCAL_LUT + LocalPages
    BY DEF REMOTE_LUT
  <1>9. QED
    BY <1>1, <1>2, <1>3, <1>4, <1>6, <1>7, <1>8

LEMMA Scaled ==
  ASSUME NEW a \in Nat, NEW b \in Nat, NEW d \in Nat \ {0}, a < b
  PROVE  a * d + d <= b * d /\ a * d \in Nat /\ b * d \in Nat
  <1>1. a + 1 <= b
    OBVIOUS
  <1>2. (a + 1) * d <= b * d
    BY <1>1
  <1>3. (a + 1) * d = a * d + d
    OBVIOUS
  <1>4. QED
    BY <1>2, <1>3

LEMMA Division ==
  ASSUME NEW q \in Nat, NEW d \in Nat \ {0}, NEW o \in Nat, o < d
  PROVE  (q * d + o) \div d = q /\ (q * d + o) % d = o
  <1>1. PICK x \in Nat : x = q * d + o
    OBVIOUS
  <1>2. x \div d \in Nat /\ x % d \in Nat /\ x % d < d /\ x = (x \div d) * d + (x % d)
    BY <1>1
  <1>3. PICK k \in Nat, m \in Nat : k = x \div d /\ m = x % d
    BY <1>2
  <1>4. ~(k < q)
    <2>1. SUFFICES ASSUME k < q PROVE FALSE
      OBVIOUS
    <2>2. k * d + d <= q * d /\ k * d \in Nat /\ q * d \in Nat
      BY <2>1, Scaled
    <2>3. QED
      BY <1>1, <1>2, <1>3, <2>2
  <1>5. ~(q < k)
    <2>1. SUFFICES ASSUME q < k PROVE FALSE
      OBVIOUS
    <2>2. q * d + d <= k * d /\ k * d \in Nat /\ q * d \in Nat
      BY <2>1, Scaled
    <2>3. QED
      BY <1>1, <1>2, <1>3, <2>2
  <1>6. k = q
    BY <1>4, <1>5
  <1>7. QED
    BY <1>1, <1>2, <1>3, <1>6

(* What is no larger than the width of a word, wraps nowhere. *)
LEMMA Small ==
  ASSUME NEW n \in Nat, NEW x \in Nat, x < n
  PROVE  x % n = x
  OBVIOUS

(* C's division of the distance to byte o of page i, below 2 GiB. *)
LEMMA Near ==
  ASSUME NEW i \in Nat, NEW o \in Nat, o < PageSize, i < HalfLut
  PROVE  Signed(i * PageSize + o) = i * PageSize + o /\ Quot(i * PageSize + o) = i
         /\ Rem(i * PageSize + o) = o
  <1>1. i * PageSize + PageSize <= Half /\ i * PageSize \in Nat
    BY Widths, Scaled
  <1>2. PICK d \in Nat : d = i * PageSize + o
    BY <1>1
  <1>3. d < Half /\ d >= 0 /\ d \div PageSize = i /\ d % PageSize = o
    BY <1>1, <1>2, Widths, Division
  <1>4. Signed(d) = d /\ Quot(d) = i /\ Rem(d) = o
    BY <1>3 DEF Signed, Quot, Rem
  <1>5. QED
    BY <1>2, <1>4

(* Beyond: the first byte of a page, and another. *)
LEMMA FarFirst ==
  ASSUME NEW i \in Nat, i >= HalfLut, i < Entries
  PROVE  /\ Quot(Signed(i * PageSize)) = i - Entries
         /\ Rem(Signed(i * PageSize)) = 0
  <1>0. Entries \in Nat
    BY Widths
  <1>1. PICK k \in Nat : k = Entries - i
    BY <1>0
  <1>2. PICK d \in Nat, e \in Nat : d = i * PageSize /\ e = k * PageSize
    BY <1>1, Widths
  <1>3. (i + k) * PageSize = i * PageSize + k * PageSize
    BY <1>1, Widths
  <1>4. d + e = Word
    BY <1>1, <1>2, <1>3, Widths
  <1>5. k <= HalfLut /\ k >= 1
    BY <1>1, Widths
  <1>6. e <= Half /\ e > 0
    <2>1. k * PageSize <= HalfLut * PageSize /\ 1 * PageSize <= k * PageSize
      BY <1>1, <1>5, Widths
    <2>2. QED
      BY <1>2, <2>1, Widths
  <1>7. ~(d < Half) /\ d - Word = -e /\ ~(-e >= 0) /\ -(-e) = e
    BY <1>2, <1>4, <1>6, Widths
  <1>8. (k * PageSize + 0) \div PageSize = k /\ (k * PageSize + 0) % PageSize = 0
    BY Widths, Division
  <1>9. e \div PageSize = k /\ e % PageSize = 0
    BY <1>2, <1>8, Widths
  <1>10. Signed(d) = -e
    BY <1>7 DEF Signed
  <1>11. Quot(-e) = -k /\ Rem(-e) = 0
    BY <1>7, <1>9, <1>1 DEF Quot, Rem
  <1>12. QED
    BY <1>1, <1>2, <1>10, <1>11, Widths

LEMMA FarOther ==
  ASSUME NEW i \in Nat, i >= HalfLut, i < Entries, NEW o \in Nat, 0 < o, o < PageSize
  PROVE  /\ Quot(Signed(i * PageSize + o)) = i + 1 - Entries
         /\ Rem(Signed(i * PageSize + o)) = o - PageSize
  <1>1. PICK k \in Nat, m \in Nat : k = Entries - i - 1 /\ m = PageSize - o
    BY Widths
  <1>2. PICK d \in Nat, e \in Nat : d = i * PageSize + o /\ e = k * PageSize + m
    BY <1>1, Widths
  <1>3. (i + k + 1) * PageSize = i * PageSize + k * PageSize + PageSize
    BY <1>1, Widths
  <1>4. i + k + 1 = Entries
    BY <1>1, Widths
  <1>5. d + e = Word
    <2>1. PICK x \in Nat, y \in Nat : x = i * PageSize /\ y = k * PageSize
      BY <1>1, Widths
    <2>2. x + y + PageSize = Word
      BY <1>3, <1>4, <2>1, Widths
    <2>3. QED
      BY <1>1, <1>2, <2>1, <2>2, Widths
  <1>6. d >= Half
    <2>1. HalfLut * PageSize <= i * PageSize
      BY Widths
    <2>2. i * PageSize \in Nat
      BY Widths
    <2>3. QED
      BY <1>2, <2>1, <2>2, Widths
  <1>7. e > 0
    <2>1. k * PageSize \in Nat /\ m > 0
      BY <1>1, Widths
    <2>2. QED
      BY <1>1, <1>2, <2>1
  <1>8. ~(d < Half) /\ d - Word = -e /\ ~(-e >= 0) /\ -(-e) = e
    BY <1>2, <1>5, <1>6, <1>7, Widths
  <1>9. e \div PageSize = k /\ e % PageSize = m
    <2>1. m < PageSize /\ PageSize \in Nat \ {0}
      BY <1>1, Widths
    <2>2. (k * PageSize + m) \div PageSize = k /\ (k * PageSize + m) % PageSize = m
      BY <2>1, Division
    <2>3. QED
      BY <1>2, <2>2
  <1>10. Signed(d) = -e
    BY <1>8 DEF Signed
  <1>11. Quot(-e) = -k /\ Rem(-e) = -m
    BY <1>8, <1>9, <1>1 DEF Quot, Rem
  <1>12. QED
    BY <1>1, <1>2, <1>10, <1>11, Widths

(* Where the remote pages are, if they are mapped. *)
LEMMA Mapping ==
  ASSUME remote \in Bases
  PROVE  \E local \in Nat, whole \in Nat :
           /\ local = LocalPages * PageSize /\ whole = RemotePages * PageSize
           /\ remote \in Nat /\ remote + whole < Word /\ (remote + whole) % Word = remote + whole
           /\ \/ remote + whole <= Local
              \/ Local + local = remote
              \/ Local + local + 1 < remote
  <1>1. PICK local \in Nat, whole \in Nat :
           local = LocalPages * PageSize /\ whole = RemotePages * PageSize
    BY Widths
  <1>2. /\ remote \in Nat /\ remote + whole < Word
        /\ \/ remote + whole <= Local
           \/ Local + local = remote
           \/ Local + local + 1 < remote
    BY <1>1, LutAssumption
  <1>3. (remote + whole) % Word = remote + whole
    BY <1>1, <1>2, Widths, Small
  <1>4. QED
    BY <1>1, <1>2, <1>3

(* If they are not, no pointer is within their bounds. *)
LEMMA NotMapped ==
  ASSUME remote = MAP_FAILED, NEW p \in Nat
  PROVE  ~InRemote(p)
  <1>1. PICK whole \in Nat : whole = RemotePages * PageSize
    BY Widths
  <1>2. whole < Word /\ whole > 0
    <2>1. RemotePages * PageSize + PageSize <= Entries * PageSize
      BY Widths, Scaled
    <2>2. 1 * PageSize <= RemotePages * PageSize
      BY Pages0, Widths
    <2>3. QED
      BY <1>1, <2>1, <2>2, Widths
  <1>3. (remote + whole) % Word = whole - 1
    <2>1. PICK m \in Nat : m = whole - 1
      BY <1>1, <1>2
    <2>2. remote + whole = 1 * Word + m /\ m < Word
      BY <1>1, <1>2, <2>1, Widths
    <2>3. (1 * Word + m) % Word = m
      BY <1>2, <1>1, <2>2, Widths, Division
    <2>4. QED
      BY <2>1, <2>2, <2>3
  <1>4. QED
    BY <1>1, <1>2, <1>3, Widths DEF InRemote

(* What SCCAddr2Ptr makes of an address with a remote entry, and of one    *)
(* with a local entry.                                                     *)
LEMMA FromRemote ==
  ASSUME NEW q \in Nat, q < RemotePages, NEW o \in Nat
  PROVE  /\ SCCAddr2Ptr([lut |-> REMOTE_LUT + q, offset |-> o]) = (q * PageSize + o + remote) % Word
         /\ (REMOTE_LUT + q) % Entries = REMOTE_LUT + q
  <1>1. PICK l \in Nat : l = REMOTE_LUT + q
    BY Widths
  <1>2. /\ ~(LOCAL_LUT <= l /\ l < LOCAL_LUT + LocalPages)
        /\ REMOTE_LUT <= l /\ l < REMOTE_LUT + RemotePages
        /\ l - REMOTE_LUT = q /\ l < Entries
    BY <1>1, Widths
  <1>3. SCCAddr2Ptr([lut |-> l, offset |-> o]) = ((l - REMOTE_LUT) * PageSize + o + remote) % Word
    BY <1>2 DEF SCCAddr2Ptr
  <1>4. l % Entries = l
    BY <1>2, Widths, Small
  <1>5. QED
    BY <1>1, <1>2, <1>3, <1>4

LEMMA FromLocal ==
  ASSUME NEW q \in Nat, q < LocalPages, NEW o \in Nat
  PROVE  /\ SCCAddr2Ptr([lut |-> LOCAL_LUT + q, offset |-> o]) = (q * PageSize + o + Local) % Word
         /\ (LOCAL_LUT + q) % Entries = LOCAL_LUT + q
  <1>1. PICK l \in Nat : l = LOCAL_LUT + q
    BY Widths
  <1>2. /\ LOCAL_LUT <= l /\ l < LOCAL_LUT + LocalPages
        /\ l - LOCAL_LUT = q /\ l < Entries
    BY <1>1, Widths
  <1>3. SCCAddr2Ptr([lut |-> l, offset |-> o]) = ((l - LOCAL_LUT) * PageSize + o + Local) % Word
    BY <1>2 DEF SCCAddr2Ptr
  <1>4. l % Entries = l
    BY <1>2, Widths, Small
  <1>5. QED
    BY <1>1, <1>2, <1>3, <1>4

(* The pointer to an entry is in the pages of that entry, and SCCFreeLut   *)
(* finds the entry unless it counts backwards.                             *)
LEMMA PointerInside ==
  ASSUME remote \in Bases, NEW i \in Index
  PROVE  /\ InRemote(Pointer(i))
         /\ EntryOf(Pointer(i)) \in Index => EntryOf(Pointer(i)) = i
         /\ i < HalfLut => EntryOf(Pointer(i)) = i
         /\ InLocal(Pointer(i)) => remote = Local + LocalPages * PageSize
  <1>1. i \in Nat /\ i < RemotePages
    BY Pages0 DEF Index
  <1>2. PICK local \in Nat, whole \in Nat :
           /\ local = LocalPages * PageSize /\ whole = RemotePages * PageSize
           /\ remote \in Nat /\ remote + whole < Word /\ (remote + whole) % Word = remote + whole
           /\ \/ remote + whole <= Local
              \/ Local + local = remote
              \/ Local + local + 1 < remote
    BY Mapping
  <1>3. PICK x \in Nat : x = i * PageSize
    BY <1>1, Widths
  <1>4. x + PageSize <= whole
    BY <1>1, <1>2, <1>3, Scaled, Widths
  <1>5. Pointer(i) = x + remote
    <2>1. Pointer(i) = (i * PageSize + 0 + remote) % Word
      BY <1>1, FromRemote DEF Pointer
    <2>2. i * PageSize + 0 + remote = x + remote /\ x + remote \in Nat /\ x + remote < Word
      BY <1>2, <1>3, <1>4, Widths
    <2>3. (x + remote) % Word = x + remote
      BY <2>2, Widths, Small
    <2>4. QED
      BY <2>1, <2>2, <2>3
  <1>6. EntryOf(Pointer(i)) = Quot(Signed(x))
    <2>1. Pointer(i) - remote = x
      BY <1>2, <1>3, <1>5
    <2>2. QED
      BY <2>1 DEF EntryOf
  <1>7. CASE i < HalfLut
    <2>1. Signed(i * PageSize + 0) = i * PageSize + 0 /\ Quot(i * PageSize + 0) = i
      <3>1. 0 \in Nat /\ 0 < PageSize
        BY Widths
      <3>2. QED
        BY <1>1, <1>7, <3>1, Near
    <2>2. i * PageSize + 0 = x
      BY <1>3
    <2>3. EntryOf(Pointer(i)) = i
      BY <1>6, <2>1, <2>2
    <2>4. QED
      BY <1>2, <1>4, <1>5, <2>3, Widths DEF InRemote, InLocal
  <1>8. CASE ~(i < HalfLut)
    <2>1. EntryOf(Pointer(i)) = i - Entries
      BY <1>1, <1>3, <1>6, <1>8, FarFirst, Widths
    <2>2. EntryOf(Pointer(i)) \notin Index
      BY <1>1, <2>1, Widths DEF Index
    <2>3. QED
      BY <1>2, <1>4, <1>5, <1>8, <2>2, Widths DEF InRemote, InLocal
  <1>9. QED
    BY <1>7, <1>8

(* What is true of the pointers freed so far. *)
Excuses ==
  /\ strayed => remote \in {Local + LocalPages * PageSize, MAP_FAILED}
  /\ \A r \in missed : remote = MAP_FAILED \/ \A i \in r : i >= HalfLut

LEMMA ReturnTable ==
  ASSUME LutInv, NEW r \in held, Return(r)
  PROVE  LutInv' /\ Excuses'
  <1>1. /\ TableInv /\ pc = "idle" /\ pc' = "idle" /\ size' = 0
        /\ remote \in Bases \cup {MAP_FAILED}
        /\ remote' = remote /\ strayed = FALSE /\ missed = {}
    BY DEF LutInv, Astray, Return
  <1>2. PICK i \in r : (\A j \in r : i <= j) /\ SCCFree(r, Pointer(i))
    BY DEF Return
  <1>3. PICK s \in Index, n \in Length : r = Run(s, n) /\ Block(s, n, FALSE)
    BY <1>1 DEF TableInv, HeldBlocks
  <1>4. i = s
    <2>1. s \in Int /\ n \in Int /\ n >= 1
      BY DEF Index, Length
    <2>2. s \in r /\ i \in Int /\ s <= i
      BY <1>3, <2>1 DEF Run
    <2>3. QED
      BY <1>2, <2>1, <2>2
  <1>5. held' = held \ {Run(s, n)} /\ TakenBlock(s, n)
    BY <1>2, <1>3 DEF SCCFree, TakenBlock
  <1> DEFINE p == Pointer(s)
  <1>6. CASE InLocal(p) /\ strayed' = TRUE /\ missed' = missed
    <2>1. remote \in {Local + LocalPages * PageSize, MAP_FAILED}
      BY <1>1, <1>6, PointerInside
    <2>2. Excuses'
      BY <1>1, <1>6, <2>1 DEF Excuses
    <2>3. LutInv'
      BY <1>1, <1>6 DEF LutInv, Astray, ScanInv
    <2>4. QED
      BY <2>2, <2>3
  <1>7. CASE /\ InRemote(p) /\ EntryOf(p) \in Index
             /\ SCCFreeLut(EntryOf(p)) /\ strayed' = strayed /\ missed' = missed
    <2>1. remote # MAP_FAILED
      <3>1. SUFFICES ASSUME remote = MAP_FAILED
                     PROVE  FALSE
        OBVIOUS
      <3>2. p \in Nat
        <4>1. s \in Nat /\ s < RemotePages
          BY Pages0 DEF Index
        <4>2. p = (s * PageSize + 0 + remote) % Word
          BY <4>1, FromRemote DEF Pointer
        <4>3. PICK y \in Nat : y = s * PageSize
          BY <4>1, Widths
        <4>4. Word \in Nat \ {0} /\ remote \in Nat
          BY <3>1, Widths, Pages0
        <4>5. QED
          BY <4>2, <4>3, <4>4
      <3>3. QED
        BY <1>7, <3>1, <3>2, NotMapped
    <2>2. EntryOf(p) = s
      BY <1>1, <1>7, <2>1, PointerInside
    <2>3. TableInv'
      BY <1>1, <1>5, <1>7, <2>2, FreeLut
    <2>4. Excuses'
      BY <1>1, <1>7 DEF Excuses
    <2>5. LutInv'
      BY <1>1, <1>7, <2>3 DEF LutInv, Astray, ScanInv
    <2>6. QED
      BY <2>4, <2>5
  <1>8. CASE /\ ~(InRemote(p) /\ EntryOf(p) \in Index)
             /\ missed' = missed \cup {r} /\ strayed' = strayed
    <2>1. missed' = {r} /\ strayed' = FALSE
      BY <1>1, <1>8
    <2>2. CASE remote = MAP_FAILED
      <3>1. Excuses'
        BY <1>1, <2>1, <2>2 DEF Excuses
      <3>2. LutInv'
        BY <1>1, <2>1 DEF LutInv, Astray, ScanInv
      <3>3. QED
        BY <3>1, <3>2
    <2>3. CASE remote # MAP_FAILED
      <3>1. ~(s < HalfLut)
        BY <1>1, <1>8, <2>3, PointerInside
      <3>2. \A j \in r : j >= HalfLut
        BY <1>3, <3>1, Widths DEF Run, Index
      <3>3. Excuses'
        BY <1>1, <2>1, <3>2 DEF Excuses
      <3>4. LutInv'
        BY <1>1, <2>1 DEF LutInv, Astray, ScanInv
      <3>5. QED
        BY <3>3, <3>4
    <2>4. QED
      BY <2>2, <2>3
  <1>9. QED
    BY <1>2, <1>4, <1>6, <1>7, <1>8 DEF SCCFree

LEMMA OverhangTable ==
  ASSUME LutInv, ReturnOverhang(Local + LocalPages * PageSize + 1)
  PROVE  /\ LutInv' /\ held' = held /\ size' = size /\ Excuses'
         /\ Astray' \/ (lutState' = lutState /\ strayed' = strayed /\ missed' = missed)
  <1> DEFINE p == Local + LocalPages * PageSize + 1
  <1>1. /\ TableInv /\ pc = "idle" /\ pc' = "idle" /\ size = 0 /\ size' = 0
        /\ remote \in Bases \cup {MAP_FAILED}
        /\ remote' = remote /\ strayed = FALSE /\ held' = held /\ missed = {} /\ missed' = {}
        /\ strayed' = InRemote(p)
    BY DEF LutInv, Astray, ReturnOverhang
  <1>2. CASE InRemote(p)
    <2>1. p \in Nat
      BY Widths
    <2>2. remote \in Bases
      BY <1>1, <1>2, <2>1, NotMapped
    <2>3. PICK local \in Nat, whole \in Nat :
            /\ local = LocalPages * PageSize /\ whole = RemotePages * PageSize
            /\ remote \in Nat /\ remote + whole < Word /\ (remote + whole) % Word = remote + whole
            /\ \/ remote + whole <= Local
               \/ Local + local = remote
               \/ Local + local + 1 < remote
      BY <2>2, Mapping
    <2>4. remote <= Local + local + 1 /\ Local + local + 1 <= remote + whole
      BY <1>2, <2>3 DEF InRemote
    <2>5. remote = Local + local
      BY <2>3, <2>4, Widths
    <2>6. strayed' = TRUE
      BY <1>1, <1>2 DEF InRemote
    <2>7. LutInv'
      BY <1>1, <2>6 DEF LutInv, Astray, ScanInv
    <2>8. Excuses'
      BY <1>1, <2>3, <2>5 DEF Excuses
    <2>9. Astray'
      BY <2>6 DEF Astray
    <2>10. QED
      BY <1>1, <2>7, <2>8, <2>9
  <1>3. CASE ~InRemote(p)
    <2>1. lutState' = lutState /\ strayed' = FALSE
      BY <1>1, <1>3 DEF ReturnOverhang, InRemote
    <2>2. TableInv'
      BY <1>1, <2>1, TableKept
    <2>3. LutInv'
      BY <1>1, <2>1, <2>2 DEF LutInv, Astray, ScanInv
    <2>4. Excuses'
      BY <1>1, <2>1 DEF Excuses
    <2>5. QED
      BY <1>1, <2>1, <2>3, <2>4
  <1>4. QED
    BY <1>2, <1>3

(* No operation, and no pointer taken for one of the other kind, disturbs  *)
(* the invariant.                                                          *)
LEMMA NextTable ==
  ASSUME LutInv, [Next]_vars
  PROVE  LutInv'
  <1>1. CASE SCCInit
    BY <1>1, SCCInitTable
  <1>2. CASE NoMemory
    BY <1>2 DEF NoMemory, LutInv, Astray, TableType, ScanInv, Index
  <1>3. ASSUME NEW n \in Sizes, Malloc(n)
        PROVE  LutInv'
    BY <1>3, MallocTable
  <1>4. CASE TakeAll
    BY <1>4, TakeAllTable
  <1>5. CASE TakeFront
    BY <1>5, TakeFrontTable
  <1>6. CASE Skip
    BY <1>6, SkipTable
  <1>7. ASSUME NEW r \in held, Return(r)
        PROVE  LutInv'
    BY <1>7, ReturnTable
  <1>8. CASE ReturnOverhang(Local + LocalPages * PageSize + 1)
    BY <1>8, OverhangTable
  <1>9. CASE UNCHANGED vars
    <2>1. /\ lutState' = lutState /\ held' = held /\ pc' = pc /\ curr' = curr
          /\ size' = size /\ strayed' = strayed /\ missed' = missed /\ remote' = remote
      BY <1>9 DEF vars
    <2>2. TableInv => TableInv'
      BY <2>1, TableKept
    <2>3. ScanInv => ScanInv'
      BY <2>1 DEF ScanInv, TakenBlock, FreeBlock, Block, Tagged, Taken, Index
    <2>4. TableType => TableType'
      BY <2>1 DEF TableType, Index
    <2>5. QED
      BY <2>1, <2>2, <2>3, <2>4 DEF LutInv, Astray
  <1>10. QED
    BY <1>1, <1>2, <1>3, <1>4, <1>5, <1>6, <1>7, <1>8, <1>9 DEF Next, Search, Exited, Stop

THEOREM LutInvariant == Spec => []LutInv
  BY InitTable, NextTable, PTL DEF Spec

-----------------------------------------------------------------------------
(***************************************************************************)
(* What follows for the callers.                                           *)
(***************************************************************************)

(* The tags that SCCFreeLut reads of its neighbours are the truth: both    *)
(* ends of every run handed out say that it is taken, both ends of every   *)
(* longest free run that it is free, and how long they are.                *)
THEOREM TagsAlwaysMatch == Spec => []TagsMatchHeld
  <1>1. LutInv => TagsMatchHeld
    <2> SUFFICES ASSUME LutInv, pc \in {"idle", "scan"}, ~Astray,
                        NEW s \in Index, NEW n \in 1..RemotePages
                 PROVE  /\ Run(s, n) \in held => Tagged(s, n, FALSE)
                        /\ FreeRun(s, n) => Tagged(s, n, TRUE)
      BY DEF TagsMatchHeld
    <2>1. TableInv
      BY DEF LutInv, Astray
    <2>2. s \in Int /\ n \in Int /\ n >= 1 /\ n \in Length /\ 0 <= s /\ RemotePages \in Int
      BY Pages0 DEF Index, Length
    <2>3. ASSUME Run(s, n) \in held
          PROVE  Tagged(s, n, FALSE)
      <3>1. PICK t \in Index, m \in Length : Run(s, n) = Run(t, m) /\ Block(t, m, FALSE)
        BY <2>1, <2>3 DEF TableInv, HeldBlocks
      <3>2. t \in Int
        BY DEF Index
      <3>3. s = t /\ n = m
        BY <2>2, <3>1, <3>2, RunsEqual
      <3>4. QED
        BY <3>1, <3>3 DEF Block
    <2>4. ASSUME FreeRun(s, n)
          PROVE  Tagged(s, n, TRUE)
      <3>1. /\ \A i \in Run(s, n) : i \in Index
            /\ \A i \in Run(s - 1, n + 2) : i \in Index => (i \in Run(s, n) <=> i \notin Taken)
        BY <2>4 DEF FreeRun, Taken
      <3>2. \A i \in Int : s <= i /\ i < s + n => i \in Index /\ i \notin Taken
        BY <2>2, <3>1 DEF Run
      <3>3. s - 1 \in Index => s - 1 \in Taken
        BY <2>2, <3>1 DEF Run
      <3>4. s + n \in Index => s + n \in Taken
        BY <2>2, <3>1 DEF Run
      <3>5. s \notin Taken /\ (s = 0 \/ s - 1 \in Taken)
        BY <2>2, <3>2, <3>3 DEF Index
      <3>6. PICK k \in Length : FreeBlock(s, k)
        BY <2>1, <3>5 DEF TableInv, FreeFronts
      <3>7. /\ k \in Int /\ k >= 1 /\ s + k <= RemotePages
            /\ s + k = RemotePages \/ s + k \in Taken
            /\ \A i \in Int : s <= i /\ i < s + k => i \notin Taken
        BY <2>2, <3>6 DEF FreeBlock, Block, Length, Run
      <3>8. ~(k < n)
        BY <2>2, <3>2, <3>7 DEF Index
      <3>9. ~(n < k)
        <4>1. SUFFICES ASSUME n < k
                       PROVE  FALSE
          OBVIOUS
        <4>2. s + n \in Index /\ s + n \notin Taken
          BY <2>2, <3>7, <4>1 DEF Index
        <4>3. QED
          BY <3>4, <4>2
      <3>10. k = n
        BY <2>2, <3>7, <3>8, <3>9
      <3>11. QED
        BY <3>6, <3>10 DEF FreeBlock, Block
    <2>5. QED
      BY <2>3, <2>4
  <1>2. QED
    BY <1>1, LutInvariant, PTL

LEMMA ExcusesKept == Spec => []Excuses
  <1>1. Init => Excuses
    BY DEF Init, Excuses
  <1>2. ASSUME LutInv, Excuses, [Next]_vars
        PROVE  Excuses'
    <2>1. CASE SCCInit
      BY <1>2, <2>1 DEF SCCInit, LutInv, Astray, Excuses
    <2>2. ASSUME NEW r \in held, Return(r)
          PROVE  Excuses'
      BY <1>2, <2>2, ReturnTable
    <2>3. CASE ReturnOverhang(Local + LocalPages * PageSize + 1)
      BY <1>2, <2>3, OverhangTable
    <2>4. CASE remote' = remote /\ strayed' = strayed /\ missed' = missed
      BY <1>2, <2>4 DEF Excuses
    <2>5. QED
      BY <1>2, <2>1, <2>2, <2>3, <2>4
         DEF Next, Search, NoMemory, Malloc, TakeAll, TakeFront, Grant, Skip, Exited, Stop, vars
  <1>3. QED
    BY <1>1, <1>2, LutInvariant, PTL DEF Spec

(* SCCFree takes a run of mapped pages for a block of the heap, or a block *)
(* for a run, only if the kernel has put the remote pages right behind the *)
(* local ones; and SCCFreeLut finds the entry of every run that begins     *)
(* less than 2 GiB behind `remote'.                                        *)
THEOREM NearRunsComeBack == Spec => []FreesComeBack
  <1>1. Excuses => FreesComeBack
    BY DEF Excuses, FreesComeBack
  <1>2. QED
    BY <1>1, ExcusesKept, PTL

(* What a grant hands out, is free. *)
LEMMA GrantFits ==
  ASSUME LutInv, pc = "scan", Suits
  PROVE  size \in Length /\ curr \in Index /\ Pages!Fits(curr, size)
  <1>1. TableInv /\ ScanInv
    BY DEF LutInv, Astray
  <1>2. PICK m \in Length :
          /\ FreeBlock(curr, m) /\ size \in Length /\ curr \in Index /\ size <= m
    BY <1>1, SuitsFree
  <1>3. /\ curr \in Int /\ size \in Int /\ m \in Int /\ curr + m <= RemotePages
        /\ \A i \in Int : curr <= i /\ i < curr + m => i \notin Taken
    BY <1>2 DEF FreeBlock, Block, Index, Length, Run
  <1>4. \A i \in Run(curr, size) : i \in Index /\ i \notin Taken
    BY <1>2, <1>3, Pages0 DEF Run, Index
  <1>5. Pages!Run(curr, size) = Run(curr, size)
    BY DEF Pages!Run, Run
  <1>6. \A r \in held : r \cap Run(curr, size) = {}
    BY <1>4 DEF Taken
  <1>7. QED
    BY <1>2, <1>4, <1>5, <1>6 DEF Pages!Fits

(* SCCMallocLut keeps the allocator's promise, through any splitting and   *)
(* merging: the runs handed out are disjoint pages of the table, and a     *)
(* call fails only when no run of that length is free anywhere.            *)
THEOREM ImplementsRegions == Spec => PagesSpec
  <1>1. Init => Pages!Init
    BY DEF Init, Astray, Pages!Init
  <1>2. ASSUME LutInv, [Next]_vars
        PROVE  [Pages!Next]_(Pages!vars)
    <2>1. CASE held' = held /\ size' = size /\ strayed' = strayed /\ missed' = missed
      BY <2>1 DEF Pages!vars, Astray
    <2>2. ASSUME NEW n \in Sizes, Malloc(n)
          PROVE  Pages!Next
      <3>1. size = 0 /\ size' \in Nat \ {0} /\ ~Astray' /\ held' = held
        BY <1>2, <2>2, LutAssumption DEF LutInv, Astray, Malloc
      <3>2. QED
        BY <3>1 DEF Pages!Next, Pages!Ask
    <2>3. CASE TakeAll \/ TakeFront
      <3>1. /\ pc = "scan" /\ Suits /\ size' = 0 /\ held' = held \cup {Run(curr, size)}
            /\ ~Astray'
        BY <1>2, <2>3 DEF TakeAll, TakeFront, Grant, LutInv, Astray
      <3>2. size \in Length /\ curr \in Index /\ Pages!Fits(curr, size)
        BY <1>2, <3>1, GrantFits
      <3>3. size # 0 /\ Pages!Run(curr, size) = Run(curr, size)
        BY <3>2 DEF Length, Pages!Run, Run
      <3>4. Pages!Grant
        BY <3>1, <3>2, <3>3 DEF Pages!Grant
      <3>5. QED
        BY <3>4 DEF Pages!Next
    <2>4. CASE Skip
      <3>1. /\ TableInv /\ ScanInv /\ pc = "scan" /\ ~Suits /\ strayed' = strayed
            /\ missed' = missed /\ ~Astray' /\ held' = held
        BY <1>2, <2>4 DEF Skip, LutInv, Astray
      <3>2. CASE curr + lutState[curr].size < RemotePages
        BY <2>1, <2>4, <3>1, <3>2 DEF Skip
      <3>3. CASE ~(curr + lutState[curr].size < RemotePages)
        <4>1. size \in Length /\ size # 0 /\ size' = 0 /\ curr \in Index
          BY <2>4, <3>1, <3>3 DEF Skip, ScanInv, Length
        <4>2. PICK n \in Length :
                /\ lutState[curr].size = n
                /\ \A s \in Index : s < curr + n =>
                     \E i \in Run(s, size) : i \notin Index \/ i \in Taken
          BY <3>1, NothingBefore
        <4>3. \A s \in Index : s < curr + n
          BY <3>3, <4>1, <4>2, Pages0 DEF Index, Length
        <4>4. \A s \in Index : \E i \in Run(s, size) : i \notin Index \/ i \in Taken
          BY <4>2, <4>3
        <4>5. ASSUME NEW s \in Index
              PROVE  ~Pages!Fits(s, size)
          <5>1. PICK i \in Run(s, size) : i \notin Index \/ i \in Taken
            BY <4>4
          <5>2. Pages!Run(s, size) = Run(s, size)
            BY DEF Pages!Run, Run
          <5>3. QED
            BY <5>1, <5>2 DEF Pages!Fits, Taken
        <4>6. Pages!Refuse
          BY <3>1, <4>1, <4>5 DEF Pages!Refuse
        <4>7. QED
          BY <4>6 DEF Pages!Next
      <3>4. QED
        BY <3>2, <3>3
    <2>5. ASSUME NEW r \in held, Return(r)
          PROVE  Pages!Next
      <3>1. size = 0 /\ size' = 0 /\ held' = held \ {r}
        BY <1>2, <2>5 DEF LutInv, Astray, Return, SCCFree
      <3>2. CASE Astray'
        BY <3>2 DEF Pages!Next, Pages!Broken
      <3>3. CASE ~Astray'
        BY <3>1, <3>3 DEF Pages!Next, Pages!Return
      <3>4. QED
        BY <3>2, <3>3
    <2>6. CASE ReturnOverhang(Local + LocalPages * PageSize + 1)
      <3>1. held' = held /\ size' = size /\ (Astray' \/ (strayed' = strayed /\ missed' = missed))
        BY <1>2, <2>6, OverhangTable
      <3>2. CASE Astray'
        BY <3>2 DEF Pages!Next, Pages!Broken
      <3>3. QED
        BY <2>1, <3>1, <3>2
    <2>7. QED
      BY <1>2, <2>1, <2>2, <2>3, <2>4, <2>5, <2>6
         DEF Next, Search, SCCInit, NoMemory, Exited, Stop, vars
  <1>3. QED
    BY <1>1, <1>2, LutInvariant, PTL DEF Spec, PagesSpec, Pages!Spec

(* A number that has wrapped below 0, brought back by the width. *)
LEMMA AroundAny ==
  ASSUME NEW n \in Nat, NEW a \in Nat, NEW b \in Nat, a + b < n
  PROVE  (a + (b - n)) % n = a + b
  <1>1. PICK m \in Nat : m = a + b
    OBVIOUS
  <1>2. a + (b - n) = m - n /\ m < n
    BY <1>1
  <1>3. (m - n) % n = m
    <2>1. PICK q \in Int, r \in Nat : q = (m - n) \div n /\ r = (m - n) % n
      BY <1>2
    <2>2. r < n /\ m - n = q * n + r
      BY <1>2, <2>1
    <2>3. q = -1
      <3>1. ~(q >= 0)
        <4>1. SUFFICES ASSUME q >= 0
                       PROVE  FALSE
          OBVIOUS
        <4>2. q * n >= 0
          BY <4>1
        <4>3. QED
          BY <1>2, <2>2, <4>2
      <3>2. ~(q <= -2)
        <4>1. SUFFICES ASSUME q <= -2
                       PROVE  FALSE
          OBVIOUS
        <4>2. q * n <= (-2) * n
          BY <4>1
        <4>3. (-2) * n = -n - n
          OBVIOUS
        <4>4. q * n \in Int
          OBVIOUS
        <4>5. QED
          BY <1>2, <2>2, <4>2, <4>3, <4>4
      <3>3. QED
        BY <3>1, <3>2
    <2>4. QED
      BY <2>1, <2>2, <2>3
  <1>4. QED
    BY <1>1, <1>2, <1>3

LEMMA Around ==
  ASSUME NEW q \in Nat, q < RemotePages
  PROVE  (REMOTE_LUT + (q - Entries)) % Entries = REMOTE_LUT + q
  BY Widths, AroundAny

LEMMA LocalBytes ==
  ASSUME NEW o \in Nat, o < PageSize, NEW i \in Nat, i < LocalPages
  PROVE  /\ SCCPtr2Addr(Local + i * PageSize + o) = [lut |-> LOCAL_LUT + i, offset |-> o]
         /\ SCCAddr2Ptr(SCCPtr2Addr(Local + i * PageSize + o)) = Local + i * PageSize + o
  <1>1. PICK x \in Nat, local \in Nat : x = i * PageSize /\ local = LocalPages * PageSize
    BY Widths
  <1>2. x + PageSize <= local /\ Local + local + 1 < Word
    BY <1>1, Scaled, Widths, LutAssumption
  <1>3. InLocal(Local + x + o) /\ (Local + x + o) - Local = x + o /\ Local + x + o < Word
        /\ o < Word
    BY <1>1, <1>2, Widths DEF InLocal
  <1>4. i < HalfLut
    BY Widths
  <1>5. Signed(x + o) = x + o /\ Quot(x + o) = i /\ Rem(x + o) = o
    BY <1>1, <1>4, Near
  <1>6. (LOCAL_LUT + i) % Entries = LOCAL_LUT + i
    BY FromLocal
  <1>7. o % Word = o
    BY <1>3, Small, Widths
  <1>8. SCCPtr2Addr(Local + x + o) = [lut |-> LOCAL_LUT + i, offset |-> o]
    BY <1>3, <1>5, <1>6, <1>7 DEF SCCPtr2Addr, AddrAt
  <1>9. SCCAddr2Ptr([lut |-> LOCAL_LUT + i, offset |-> o]) = (x + o + Local) % Word
    BY <1>1, FromLocal
  <1>10. x + o + Local = Local + x + o /\ (Local + x + o) \in Nat
    BY <1>1, Widths
  <1>11. (Local + x + o) % Word = Local + x + o
    BY <1>3, <1>10, Small, Widths
  <1>12. QED
    BY <1>1, <1>8, <1>9, <1>10, <1>11

LEMMA RemoteBytes ==
  ASSUME remote \in Bases, NEW o \in Nat, o < PageSize, NEW i \in Nat, i < RemotePages,
         i < HalfLut \/ o = 0
  PROVE  /\ SCCPtr2Addr(remote + i * PageSize + o) = [lut |-> REMOTE_LUT + i, offset |-> o]
         /\ SCCAddr2Ptr(SCCPtr2Addr(remote + i * PageSize + o)) = remote + i * PageSize + o
  <1>1. PICK local \in Nat, whole \in Nat :
          /\ local = LocalPages * PageSize /\ whole = RemotePages * PageSize
          /\ remote \in Nat /\ remote + whole < Word /\ (remote + whole) % Word = remote + whole
          /\ \/ remote + whole <= Local
             \/ Local + local = remote
             \/ Local + local + 1 < remote
    BY Mapping
  <1>2. PICK x \in Nat : x = i * PageSize
    BY Widths
  <1>3. x + PageSize <= whole
    BY <1>1, <1>2, Scaled, Widths
  <1>4. remote + x + o < Word /\ o < Word /\ remote + x + o \in Nat
        /\ x + o + remote = remote + x + o
    BY <1>1, <1>2, <1>3, Widths
  <1>5. (remote + x + o) % Word = remote + x + o /\ o % Word = o
    BY <1>4, Small, Widths
  <1>6. /\ SCCAddr2Ptr([lut |-> REMOTE_LUT + i, offset |-> o]) = remote + x + o
        /\ (REMOTE_LUT + i) % Entries = REMOTE_LUT + i
    BY <1>2, <1>4, <1>5, FromRemote
  <1>7. SCCPtr2Addr(remote + x + o) = [lut |-> REMOTE_LUT + i, offset |-> o]
    <2>1. CASE InLocal(remote + x + o)
      <3>1. Local <= remote + x + o /\ remote + x + o <= Local + local
        BY <1>1, <2>1 DEF InLocal
      <3>2. x + o = 0 /\ (remote + x + o) - Local = local
        BY <1>1, <1>2, <1>3, <3>1, Widths
      <3>3. o = 0 /\ x = 0
        BY <1>2, <3>2
      <3>4. i = 0
        <4>1. SUFFICES ASSUME i >= 1
                       PROVE  FALSE
          OBVIOUS
        <4>2. 1 * PageSize <= i * PageSize
          BY <4>1, Widths
        <4>3. QED
          BY <1>2, <3>3, <4>2, Widths
      <3>5. Signed(local) = local /\ Quot(local) = LocalPages /\ Rem(local) = 0
        <4>1. /\ Signed(LocalPages * PageSize + 0) = LocalPages * PageSize + 0
              /\ Quot(LocalPages * PageSize + 0) = LocalPages
              /\ Rem(LocalPages * PageSize + 0) = 0
          <5>1. 0 \in Nat /\ 0 < PageSize /\ LocalPages \in Nat /\ LocalPages < HalfLut
            BY Widths
          <5>2. QED
            BY <5>1, Near
        <4>2. LocalPages * PageSize + 0 = local
          BY <1>1
        <4>3. QED
          BY <4>1, <4>2
      <3>6. LOCAL_LUT + LocalPages = REMOTE_LUT + i
        BY <3>4, Widths
      <3>7. 0 % Word = 0
        BY <1>5, <3>3
      <3>8. QED
        BY <1>6, <2>1, <3>2, <3>3, <3>5, <3>6, <3>7 DEF SCCPtr2Addr, AddrAt
    <2>2. CASE ~InLocal(remote + x + o)
      <3>1. (remote + x + o) - remote = x + o
        BY <1>1, <1>2
      <3>2. SCCPtr2Addr(remote + x + o) = AddrAt(REMOTE_LUT, Signed(x + o))
        BY <2>2, <3>1 DEF SCCPtr2Addr
      <3>3. CASE i < HalfLut
        <4>1. Signed(x + o) = x + o /\ Quot(x + o) = i /\ Rem(x + o) = o
          BY <1>2, <3>3, Near
        <4>2. QED
          BY <1>5, <1>6, <3>2, <4>1 DEF AddrAt
      <3>4. CASE ~(i < HalfLut)
        <4>1. o = 0 /\ x + o = x
          BY <1>2, <3>4
        <4>2. Quot(Signed(x)) = i - Entries /\ Rem(Signed(x)) = 0
          BY <1>2, <3>4, FarFirst, Widths
        <4>3. (REMOTE_LUT + (i - Entries)) % Entries = REMOTE_LUT + i
          BY Widths, Around
        <4>4. QED
          BY <1>5, <3>2, <4>1, <4>2, <4>3 DEF AddrAt
      <3>5. QED
        BY <3>3, <3>4
    <2>3. QED
      BY <2>1, <2>2
  <1>8. QED
    BY <1>2, <1>6, <1>7

LEMMA FarBytes ==
  ASSUME remote \in Bases, NEW o \in Nat, 0 < o, o < PageSize,
         NEW i \in Nat, i >= HalfLut, i + 1 < RemotePages
  PROVE  SCCAddr2Ptr(SCCPtr2Addr(remote + i * PageSize + o)) = remote + i * PageSize + o
  <1>1. PICK local \in Nat, whole \in Nat :
          /\ local = LocalPages * PageSize /\ whole = RemotePages * PageSize
          /\ remote \in Nat /\ remote + whole < Word /\ (remote + whole) % Word = remote + whole
          /\ \/ remote + whole <= Local
             \/ Local + local = remote
             \/ Local + local + 1 < remote
    BY Mapping
  <1>2. PICK x \in Nat, y \in Nat : x = i * PageSize /\ y = (i + 1) * PageSize
    BY Widths
  <1>3. y = x + PageSize
    BY <1>2, Widths
  <1>4. x + PageSize <= whole
    BY <1>1, <1>2, Scaled, Widths
  <1>5. ~InLocal(remote + x + o)
    BY <1>1, <1>2, <1>4, Widths DEF InLocal
  <1>6. (remote + x + o) - remote = x + o
    BY <1>1, <1>2
  <1>7. Quot(Signed(x + o)) = i + 1 - Entries /\ Rem(Signed(x + o)) = o - PageSize
    BY <1>2, FarOther, Widths
  <1>8. (REMOTE_LUT + (i + 1 - Entries)) % Entries = REMOTE_LUT + (i + 1)
    <2>1. (REMOTE_LUT + ((i + 1) - Entries)) % Entries = REMOTE_LUT + (i + 1)
      BY Widths, Around
    <2>2. QED
      BY <2>1, Widths
  <1>9. PICK f \in Nat : f = o - PageSize + Word /\ f < Word
    BY <1>1, <1>2, <1>4, Widths
  <1>10. (o - PageSize) % Word = f
    <2>1. (0 + (f - Word)) % Word = 0 + f
      BY <1>9, Widths, AroundAny
    <2>2. 0 + (f - Word) = o - PageSize
      BY <1>9, Widths
    <2>3. QED
      BY <2>1, <2>2, <1>9
  <1>11. SCCPtr2Addr(remote + x + o) = [lut |-> REMOTE_LUT + (i + 1), offset |-> f]
    BY <1>5, <1>6, <1>7, <1>8, <1>10 DEF SCCPtr2Addr, AddrAt
  <1>12. SCCAddr2Ptr([lut |-> REMOTE_LUT + (i + 1), offset |-> f]) = (y + f + remote) % Word
    BY <1>2, FromRemote
  <1>13. y + f + remote = 1 * Word + (remote + x + o) /\ remote + x + o \in Nat
         /\ remote + x + o < Word
    BY <1>1, <1>2, <1>3, <1>4, <1>9, Widths
  <1>14. (1 * Word + (remote + x + o)) % Word = remote + x + o
    <2>1. Word \in Nat \ {0}
      BY <1>13, Widths
    <2>2. PICK z \in Nat : z = remote + x + o /\ z < Word
      BY <1>13
    <2>3. (1 * Word + z) % Word = z
      <3>1. PICK n \in Nat \ {0} : n = Word
        BY <2>1
      <3>2. (1 * n + z) % n = z
        <4>1. PICK q \in Nat : q = 1
          OBVIOUS
        <4>2. z < n
          BY <2>2, <3>1
        <4>3. (q * n + z) % n = z
          BY <4>2, Division
        <4>4. QED
          BY <4>1, <4>3
      <3>3. QED
        BY <3>1, <3>2
    <2>4. QED
      BY <2>2, <2>3
  <1>15. QED
    BY <1>2, <1>11, <1>12, <1>13, <1>14

(* Every byte of a mapped page has a LUT address that leads back to it,    *)
(* the first byte of remote pages right behind the local ones too, though  *)
(* SCCPtr2Addr takes it for a local one; and beyond 2 GiB, where the entry *)
(* and the offset are both wrong, the two errors make up for each other,   *)
(* except in the last page.                                                *)
THEOREM AddressesLeadBack == Spec => []PointersRoundTrip
  <1>1. LutInv => PointersRoundTrip
    <2> SUFFICES ASSUME LutInv, pc \in {"idle", "scan"}
                 PROVE  PointersRoundTrip
      BY DEF PointersRoundTrip
    <2>1. remote # MAP_FAILED => remote \in Bases
      BY DEF LutInv
    <2>2. ASSUME NEW o \in 0..(PageSize - 1), NEW i \in 0..(LocalPages - 1)
          PROVE  /\ SCCPtr2Addr(Local + i * PageSize + o) = [lut |-> LOCAL_LUT + i, offset |-> o]
                 /\ SCCAddr2Ptr(SCCPtr2Addr(Local + i * PageSize + o)) = Local + i * PageSize + o
      <3>1. o \in Nat /\ o < PageSize /\ i \in Nat /\ i < LocalPages
        BY <2>2, Widths
      <3>2. QED
        BY <3>1, LocalBytes
    <2>3. ASSUME NEW o \in 0..(PageSize - 1), NEW i \in Index, remote # MAP_FAILED,
                 i < HalfLut \/ o = 0
          PROVE  /\ SCCPtr2Addr(remote + i * PageSize + o) = [lut |-> REMOTE_LUT + i, offset |-> o]
                 /\ SCCAddr2Ptr(SCCPtr2Addr(remote + i * PageSize + o)) = remote + i * PageSize + o
      <3>1. o \in Nat /\ o < PageSize /\ i \in Nat /\ i < RemotePages
        BY <2>3, Widths DEF Index
      <3>2. QED
        BY <2>1, <2>3, <3>1, RemoteBytes
    <2>4. ASSUME NEW o \in 0..(PageSize - 1), NEW i \in Index, remote # MAP_FAILED,
                 ~(i < HalfLut \/ o = 0), i + 1 < RemotePages
          PROVE  SCCAddr2Ptr(SCCPtr2Addr(remote + i * PageSize + o)) = remote + i * PageSize + o
      <3>1. o \in Nat /\ o < PageSize /\ i \in Nat /\ i >= HalfLut /\ 0 < o
        BY <2>4, Widths DEF Index
      <3>2. QED
        BY <2>1, <2>4, <3>1, FarBytes
    <2>5. QED
      BY <2>2, <2>3, <2>4 DEF PointersRoundTrip
  <1>2. QED
    BY <1>1, LutInvariant, PTL
=============================================================================

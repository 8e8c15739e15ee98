----------------------------- MODULE HeapProofs -----------------------------
(***************************************************************************)
(* Proofs about the heap in the shared pages, for any place and length of  *)
(* it, any unit and any sizes that are asked for.                          *)
(***************************************************************************)
EXTENDS Heap, TLAPS

-----------------------------------------------------------------------------
(***************************************************************************)
(* The inductive invariant, of the headers H and the blocks h handed out.  *)
(***************************************************************************)
Header == [next : Heap, size : Nat \ {0}]

IdleOf(h)   == Heap \ UNION h
StartsOf(h) == {s \in IdleOf(h) : s - 1 \notin IdleOf(h)}

(* t is inside the arc that leads upwards from s, round the end, to u.     *)
Between(s, t, u) == IF s < u THEN s < t /\ t < u ELSE s < t \/ t < u

(* The links lead round S in the order of addresses, past no member.       *)
Circle(S, H) == \A s \in S : H[s].next \in S /\ \A t \in S : ~Between(s, t, H[s].next)

(* A longest run of free units starts with its header,                     *)
Runs(H, h) ==
  \A s \in StartsOf(h) :
    H[s] \in Header /\ Run(s, H[s].size) \subseteq IdleOf(h) /\ s + H[s].size \notin IdleOf(h)

(* and every free unit is in one.                                          *)
Covered(H, h) == \A x \in IdleOf(h) : \E s \in StartsOf(h) : x \in Run(s, H[s].size)

(* So does a block handed out, and they have no unit in common.            *)
Handed(H, h) ==
  /\ \A r \in h : \E s \in Heap : H[s] \in Header /\ r = Run(s, H[s].size) /\ r \subseteq Heap
  /\ \A r, q \in h : r = q \/ r \cap q = {}

Sound(H, h) ==
  /\ H \in [Heap -> Header \cup {Junk}]
  /\ Runs(H, h) /\ Covered(H, h) /\ Handed(H, h) /\ Circle(StartsOf(h), H)

(* The search that began behind f and has come to p looked at the block at *)
(* t.                                                                      *)
Passed(f, t, p) == p # f /\ (Between(f, t, p) \/ t = p)

Search ==
  /\ pc \in {"idle", "fit", "place", "crashed"}
  /\ pc \in {"idle", "place"} => nunits = 0
  /\ pc = "fit" =>
       /\ freeList \in Starts /\ prev \in Starts /\ curr = hdr[prev].next
       /\ size \in Sizes /\ nunits = Nunits(size)
       /\ \A t \in Starts : Passed(freeList, t, prev) => hdr[t].size < nunits
  /\ pc = "place" =>
       /\ freeList \in Starts /\ curr \in Starts
       /\ \E r \in held : block \in r /\ \A i \in r : block <= i
  /\ CrashOnlyAtTheEnd

Inv ==
  /\ dangling \in BOOLEAN
  /\ LeaksOnlyBehindTheEnd
  /\ IF dangling THEN pc = "idle" /\ nunits = 0
                 ELSE /\ Sound(hdr, held) /\ Search
                      /\ IF Idle = {} THEN freeList = Null ELSE freeList \in Starts

-----------------------------------------------------------------------------
(***************************************************************************)
(* Lists that lead round in the order of addresses.                        *)
(***************************************************************************)
(* Only one member leads to c.                                             *)
LEMMA CirclePredecessor ==
  ASSUME NEW S \in SUBSET Int, NEW H, Circle(S, H),
         NEW p \in S, NEW s \in S, H[s].next = H[p].next
  PROVE  s = p
  <1>1. PICK c \in S : c = H[p].next
    BY DEF Circle
  <1>2. ~Between(p, s, c) /\ ~Between(s, p, c)
    BY <1>1 DEF Circle
  <1>3. p \in Int /\ s \in Int /\ c \in Int
    OBVIOUS
  <1>4. QED
    BY <1>2, <1>3 DEF Between

(* A member that leads to itself is the only one.                          *)
LEMMA CircleAlone ==
  ASSUME NEW S \in SUBSET Int, NEW H, Circle(S, H), NEW c \in S, H[c].next = c
  PROVE  S = {c}
  <1> SUFFICES ASSUME NEW t \in S PROVE t = c
    OBVIOUS
  <1>1. ~Between(c, t, c)
    BY DEF Circle
  <1>2. c \in Int /\ t \in Int
    OBVIOUS
  <1>3. QED
    BY <1>1, <1>2 DEF Between

(* Member c, which p leads to, goes.                                       *)
LEMMA CircleRemove ==
  ASSUME NEW S \in SUBSET Int, NEW H, Circle(S, H),
         NEW p \in S, NEW c \in S, p # c, H[p].next = c,
         NEW K, K[p].next = H[c].next,
         \A s \in S \ {p, c} : K[s].next = H[s].next
  PROVE  Circle(S \ {c}, K)
  <1>1. PICK n \in S : n = H[c].next
    BY DEF Circle
  <1>2. n # c
    BY <1>1, CircleAlone
  <1> SUFFICES ASSUME NEW s \in S \ {c}
               PROVE  K[s].next \in S \ {c} /\ \A t \in S \ {c} : ~Between(s, t, K[s].next)
    BY DEF Circle
  <1>3. CASE s = p
    <2>1. K[s].next = n
      BY <1>1, <1>3
    <2>2. ASSUME NEW t \in S \ {c} PROVE ~Between(p, t, n)
      <3>1. ~Between(p, t, c) /\ ~Between(c, t, n) /\ ~Between(p, n, c) /\ ~Between(c, p, n)
        BY <1>1 DEF Circle
      <3>2. p \in Int /\ t \in Int /\ c \in Int /\ n \in Int /\ t # c /\ p # c /\ n # c
        BY <1>2
      <3>3. QED
        BY <3>1, <3>2 DEF Between
    <2>3. QED
      BY <2>1, <2>2, <1>2, <1>3
  <1>4. CASE s # p
    <2>1. K[s].next = H[s].next
      BY <1>4
    <2>2. H[s].next # c
      BY <1>4, CirclePredecessor
    <2>3. QED
      BY <2>1, <2>2 DEF Circle
  <1>5. QED
    BY <1>3, <1>4

(* b comes in between c and its successor.                                 *)
LEMMA CircleInsert ==
  ASSUME NEW S \in SUBSET Int, NEW H, Circle(S, H),
         NEW c \in S, NEW b \in Int, b \notin S, Between(c, b, H[c].next),
         NEW K, K[c].next = b, K[b].next = H[c].next,
         \A s \in S \ {c} : K[s].next = H[s].next
  PROVE  Circle(S \cup {b}, K)
  <1>1. PICK n \in S : n = H[c].next
    BY DEF Circle
  <1>2. Between(c, b, n)
    BY <1>1
  <1> SUFFICES ASSUME NEW s \in S \cup {b}
               PROVE  /\ K[s].next \in S \cup {b}
                      /\ \A t \in S \cup {b} : ~Between(s, t, K[s].next)
    BY DEF Circle
  <1>3. CASE s = c
    <2>1. ASSUME NEW t \in S \cup {b} PROVE ~Between(c, t, b)
      <3>1. t # b => ~Between(c, t, n)
        BY <1>1 DEF Circle
      <3>2. c \in Int /\ b \in Int /\ n \in Int /\ t \in Int /\ c # b
        OBVIOUS
      <3>3. QED
        BY <3>1, <3>2, <1>2 DEF Between
    <2>2. QED
      BY <2>1, <1>3
  <1>4. CASE s = b
    <2>1. ASSUME NEW t \in S \cup {b} PROVE ~Between(b, t, n)
      <3>1. t # b => ~Between(c, t, n)
        BY <1>1 DEF Circle
      <3>2. c \in Int /\ b \in Int /\ n \in Int /\ t \in Int /\ c # b /\ n # b
        OBVIOUS
      <3>3. QED
        BY <3>1, <3>2, <1>2 DEF Between
    <2>2. QED
      BY <2>1, <1>1, <1>4
  <1>5. CASE s # c /\ s # b
    <2>1. PICK m \in S : m = H[s].next /\ m = K[s].next
      BY <1>5 DEF Circle
    <2>2. ~Between(s, b, m)
      <3>1. ~Between(s, c, m) /\ ~Between(s, n, m) /\ ~Between(c, s, n) /\ ~Between(c, m, n)
        BY <2>1, <1>1, <1>5 DEF Circle
      <3>2. /\ c \in Int /\ b \in Int /\ n \in Int /\ s \in Int /\ m \in Int
            /\ c # b /\ n # b /\ s # b /\ m # b /\ s # c
        BY <1>5
      <3>3. QED
        BY <3>1, <3>2, <1>2 DEF Between
    <2>3. \A t \in S : ~Between(s, t, m)
      BY <2>1, <1>5 DEF Circle
    <2>4. QED
      BY <2>1, <2>2, <2>3
  <1>6. QED
    BY <1>3, <1>4, <1>5

(* d takes the place of c, with no other member between them.              *)
LEMMA CircleRename ==
  ASSUME NEW S \in SUBSET Int, NEW H, Circle(S, H),
         NEW c \in S, NEW d \in Int, d \notin S \ {c},
         \A t \in S \ {c} : t < c <=> t < d,
         NEW K, K[d].next = IF H[c].next = c THEN d ELSE H[c].next,
         \A s \in S \ {c} : K[s].next = IF H[s].next = c THEN d ELSE H[s].next,
         NEW T, T = (S \ {c}) \cup {d}
  PROVE  Circle(T, K)
  <1> DEFINE f(x) == IF x = c THEN d ELSE x
  <1>1. \A x, y \in S : x < y <=> f(x) < f(y)
    <2> SUFFICES ASSUME NEW x \in S, NEW y \in S PROVE x < y <=> f(x) < f(y)
      OBVIOUS
    <2>1. x # c => (x < c <=> x < d) /\ x # d
      OBVIOUS
    <2>2. y # c => (y < c <=> y < d) /\ y # d
      OBVIOUS
    <2>3. x \in Int /\ y \in Int /\ c \in Int /\ d \in Int
      OBVIOUS
    <2>4. QED
      BY <2>1, <2>2, <2>3
  <1> SUFFICES ASSUME NEW u \in T
               PROVE  /\ K[u].next \in T
                      /\ \A v \in T : ~Between(u, v, K[u].next)
    BY DEF Circle
  <1>2. PICK s \in S : u = f(s)
    OBVIOUS
  <1>3. PICK n \in S : n = H[s].next
    BY DEF Circle
  <1>4. K[u].next = f(n)
    BY <1>2, <1>3
  <1>5. ASSUME NEW v \in T PROVE ~Between(u, v, f(n))
    <2>1. PICK t \in S : v = f(t)
      OBVIOUS
    <2>2. ~Between(s, t, n)
      BY <1>3 DEF Circle
    <2>3. /\ s < n <=> u < f(n)
          /\ s < t <=> u < v
          /\ t < n <=> v < f(n)
      BY <1>1, <1>2, <2>1
    <2>4. QED
      BY <2>2, <2>3 DEF Between
  <1>6. f(n) \in T
    OBVIOUS
  <1>7. QED
    BY <1>4, <1>5, <1>6

-----------------------------------------------------------------------------
(***************************************************************************)
(* Where the longest free runs lie.                                        *)
(***************************************************************************)
LEMMA StartFacts ==
  ASSUME NEW H, NEW h, Runs(H, h), NEW s \in StartsOf(h)
  PROVE  /\ s \in Int /\ s \in Heap /\ s \in IdleOf(h) /\ s - 1 \notin IdleOf(h)
         /\ H[s] \in Header /\ H[s].size \in Nat \ {0}
         /\ \A x \in Int : s <= x /\ x < s + H[s].size => x \in IdleOf(h)
         /\ s + H[s].size \in Int /\ s + H[s].size \notin IdleOf(h)
         /\ \A t \in StartsOf(h) : t <= s \/ s + H[s].size < t
  <1>1. s \in IdleOf(h) /\ s \in Heap /\ s \in Int /\ s - 1 \notin IdleOf(h)
    BY HeapAssumption DEF StartsOf, IdleOf, Heap
  <1>2. /\ H[s] \in Header /\ Run(s, H[s].size) \subseteq IdleOf(h)
        /\ s + H[s].size \notin IdleOf(h)
    BY DEF Runs
  <1>3. H[s].size \in Nat \ {0}
    BY <1>2, HeapAssumption DEF Header
  <1>4. \A x \in Int : s <= x /\ x < s + H[s].size => x \in IdleOf(h)
    <2>1. PICK n \in Nat : n = H[s].size
      BY <1>3
    <2>2. \A x \in Int : s <= x /\ x < s + n => x \in Run(s, n)
      BY <1>1 DEF Run
    <2>3. QED
      BY <1>2, <2>1, <2>2
  <1>5. ASSUME NEW t \in StartsOf(h), s < t, ~(s + H[s].size < t) PROVE FALSE
    <2>1. t \in Int /\ t \in IdleOf(h) /\ t - 1 \notin IdleOf(h)
      BY HeapAssumption DEF StartsOf, IdleOf, Heap
    <2>2. t # s + H[s].size
      BY <2>1, <1>2
    <2>3. t - 1 \in Int /\ s <= t - 1 /\ t - 1 < s + H[s].size
      BY <2>1, <2>2, <1>1, <1>3, <1>5
    <2>4. QED
      BY <2>1, <2>3, <1>4
  <1>6. \A t \in StartsOf(h) : t <= s \/ s + H[s].size < t
    <2> SUFFICES ASSUME NEW t \in StartsOf(h) PROVE t <= s \/ s + H[s].size < t
      OBVIOUS
    <2>1. t \in Int
      BY HeapAssumption DEF StartsOf, IdleOf, Heap
    <2>2. QED
      BY <2>1, <1>1, <1>5
  <1>7. s + H[s].size \in Int
    BY <1>1, <1>3
  <1>8. QED
    BY <1>1, <1>2, <1>3, <1>4, <1>6, <1>7

(* Addresses are numbers.                                                  *)
LEMMA StartsInt == \A h : StartsOf(h) \in SUBSET Int /\ StartsOf(h) \subseteq Heap
  BY HeapAssumption DEF StartsOf, IdleOf, Heap

(* A block handed out has a header with its length.                        *)
LEMMA HeldFacts ==
  ASSUME NEW H, NEW h, Handed(H, h), NEW r \in h
  PROVE  /\ r \subseteq Heap /\ r \subseteq Int
         /\ \E s \in r : /\ s \in Int /\ H[s] \in Header /\ H[s].size \in Nat \ {0}
                         /\ r = Run(s, H[s].size)
                         /\ \A x \in Int : x \in r <=> s <= x /\ x < s + H[s].size
  <1>1. PICK s \in Heap : H[s] \in Header /\ r = Run(s, H[s].size) /\ r \subseteq Heap
    BY DEF Handed
  <1>2. PICK n \in Nat \ {0} : n = H[s].size
    BY <1>1, HeapAssumption DEF Header
  <1>3. s \in Int
    BY HeapAssumption DEF Heap
  <1>4. \A x \in Int : x \in r <=> s <= x /\ x < s + n
    BY <1>1, <1>2, <1>3 DEF Run
  <1>5. s \in r
    BY <1>2, <1>3, <1>4
  <1>6. r \subseteq Int
    BY <1>1, <1>2, <1>3 DEF Run
  <1>7. QED
    BY <1>1, <1>2, <1>3, <1>4, <1>5, <1>6

(* The run that ends right in front of a unit that is not free.            *)
LEMMA RunBefore ==
  ASSUME NEW H, NEW h, Runs(H, h), Covered(H, h),
         NEW b \in Int, b \notin IdleOf(h), b - 1 \in IdleOf(h)
  PROVE  \E s \in StartsOf(h) : s + H[s].size = b
  <1>1. PICK s \in StartsOf(h) : b - 1 \in Run(s, H[s].size)
    BY DEF Covered
  <1>2. s \in Int
    BY StartFacts
  <1>3. PICK n \in Nat \ {0} : n = H[s].size
    BY StartFacts
  <1>4. s <= b - 1 /\ b - 1 < s + n
    BY <1>1, <1>2, <1>3 DEF Run
  <1>5. b < s + n => b \in IdleOf(h)
    <2>1. b < s + n => s <= b /\ b < s + H[s].size
      BY <1>2, <1>3, <1>4
    <2>2. QED
      BY <2>1, StartFacts
  <1>6. s + n = b
    BY <1>2, <1>3, <1>4, <1>5
  <1>7. QED
    BY <1>3, <1>6

(* A free run of some length lies in one of the longest.                   *)
LEMMA RoomInRun ==
  ASSUME NEW H, NEW h, Runs(H, h), Covered(H, h),
         NEW s \in Int, NEW n \in Nat \ {0}, Run(s, n) \subseteq IdleOf(h)
  PROVE  \E t \in StartsOf(h) : n <= H[t].size
  <1>1. s \in Run(s, n)
    BY DEF Run
  <1>2. PICK t \in StartsOf(h) : s \in Run(t, H[t].size)
    BY <1>1 DEF Covered
  <1>3. t \in Int /\ t + H[t].size \notin IdleOf(h)
    BY StartFacts
  <1>4. PICK m \in Nat \ {0} : m = H[t].size
    BY StartFacts
  <1>5. t <= s /\ s < t + m
    BY <1>2, <1>3, <1>4 DEF Run
  <1>6. t + m \notin Run(s, n)
    BY <1>3, <1>4
  <1>7. n <= m
    BY <1>3, <1>5, <1>6 DEF Run
  <1>8. QED
    BY <1>4, <1>7

-----------------------------------------------------------------------------
(***************************************************************************)
(* Free units become a block handed out.                                   *)
(***************************************************************************)
(* What the blocks h leave free, once they also have q, the first n of the *)
(* m units of the longest free run from c on.                              *)
Shrunk(h, q, c, m, n) ==
  /\ IdleOf(h \cup {q}) = IdleOf(h) \ q
  /\ q \subseteq IdleOf(h)
  /\ StartsOf(h \cup {q}) = (StartsOf(h) \ {c}) \cup (IF n < m THEN {c + n} ELSE {})

(* That is so if c starts a longest free run of m units.                   *)
LEMMA IdleShrinks ==
  ASSUME NEW H, NEW h, Runs(H, h), NEW c \in StartsOf(h), NEW n \in 1..H[c].size
  PROVE  Shrunk(h, Run(c, n), c, H[c].size, n)
  <1>1. IdleOf(h \cup {Run(c, n)}) = IdleOf(h) \ Run(c, n)
    BY DEF IdleOf
  <1>2. PICK m \in Nat \ {0} : m = H[c].size
    BY StartFacts
  <1>3. /\ c \in Int /\ c - 1 \notin IdleOf(h) /\ c + m \notin IdleOf(h)
        /\ \A x \in Int : c <= x /\ x < c + m => x \in IdleOf(h)
        /\ \A t \in StartsOf(h) : t <= c \/ c + m < t
    <2>1. /\ c \in Int /\ c - 1 \notin IdleOf(h) /\ c + H[c].size \notin IdleOf(h)
          /\ \A x \in Int : c <= x /\ x < c + H[c].size => x \in IdleOf(h)
          /\ \A t \in StartsOf(h) : t <= c \/ c + H[c].size < t
      BY StartFacts
    <2>2. QED
      BY <2>1, <1>2
  <1>4. n \in Nat /\ 1 <= n /\ n <= m
    BY <1>2
  <1>5. \A x \in Int : x \in Run(c, n) <=> c <= x /\ x < c + n
    BY <1>3, <1>4 DEF Run
  <1>6. Run(c, n) \subseteq Int
    BY <1>3, <1>4 DEF Run
  <1>7. Run(c, n) \subseteq IdleOf(h)
    <2> SUFFICES ASSUME NEW x \in Run(c, n) PROVE x \in IdleOf(h)
      OBVIOUS
    <2>1. x \in Int /\ c <= x /\ x < c + m
      BY <1>3, <1>4, <1>5, <1>6
    <2>2. QED
      BY <2>1, <1>3
  <1>8. IdleOf(h) \subseteq Int
    BY HeapAssumption DEF IdleOf, Heap
  <1>9. PICK J : J = IdleOf(h) \ Run(c, n)
    OBVIOUS
  <1>10. StartsOf(h \cup {Run(c, n)}) = {s \in J : s - 1 \notin J}
    BY <1>1, <1>9 DEF StartsOf
  <1>11. ASSUME NEW s \in J, s - 1 \notin J
         PROVE  s \in (StartsOf(h) \ {c}) \cup (IF n < m THEN {c + n} ELSE {})
    <2>1. s \in Int /\ s \in IdleOf(h) /\ s \notin Run(c, n)
      BY <1>8, <1>9
    <2>2. CASE s - 1 \in IdleOf(h)
      <3>1. s - 1 \in Run(c, n)
        BY <2>2, <1>9, <1>11
      <3>2. s = c + n
        BY <3>1, <2>1, <1>3, <1>4, <1>5
      <3>3. n # m
        BY <3>2, <2>1, <1>3
      <3>4. QED
        BY <3>2, <3>3, <1>4
    <2>3. CASE s - 1 \notin IdleOf(h)
      <3>1. s # c
        BY <2>1, <1>3, <1>4, <1>5
      <3>2. QED
        BY <3>1, <2>1, <2>3 DEF StartsOf
    <2>4. QED
      BY <2>2, <2>3
  <1>12. ASSUME NEW s \in StartsOf(h) \ {c} PROVE s \in J /\ s - 1 \notin J
    <2>1. s \in Int /\ s \in IdleOf(h) /\ s - 1 \notin IdleOf(h) /\ s # c
      BY StartsInt DEF StartsOf
    <2>2. s \notin Run(c, n)
      BY <2>1, <1>3, <1>4, <1>5
    <2>3. QED
      BY <2>1, <2>2, <1>9
  <1>13. n < m => c + n \in J /\ (c + n) - 1 \notin J
    BY <1>3, <1>4, <1>5, <1>9
  <1>14. StartsOf(h \cup {Run(c, n)}) = (StartsOf(h) \ {c}) \cup (IF n < m THEN {c + n} ELSE {})
    BY <1>10, <1>11, <1>12, <1>13
  <1>15. QED
    BY <1>1, <1>2, <1>7, <1>14 DEF Shrunk

(* The headers K are right once n units from c on are handed out, if they  *)
(* say so of that block and of what is left behind it, say the same of all *)
(* other blocks and are linked all round.                                  *)
LEMMA GrantSound ==
  ASSUME NEW H, NEW h, Sound(H, h), NEW c \in StartsOf(h), NEW n \in 1..H[c].size,
         NEW K \in [Heap -> Header \cup {Junk}],
         K[c] \in Header, K[c].size = n,
         n < H[c].size => K[c + n] \in Header /\ K[c + n].size = H[c].size - n,
         \A t \in StartsOf(h) \ {c} : K[t] \in Header /\ K[t].size = H[t].size,
         \A t \in UNION h : K[t] = H[t],
         Circle(StartsOf(h \cup {Run(c, n)}), K)
  PROVE  Sound(K, h \cup {Run(c, n)})
  <1>1. /\ Runs(H, h) /\ Covered(H, h) /\ Handed(H, h)
    BY DEF Sound
  <1>2. PICK m \in Nat \ {0} : m = H[c].size
    BY <1>1, StartFacts
  <1>3. PICK q : q = Run(c, n)
    OBVIOUS
  <1>4. /\ IdleOf(h \cup {q}) = IdleOf(h) \ q
        /\ q \subseteq IdleOf(h)
        /\ StartsOf(h \cup {q}) = (StartsOf(h) \ {c}) \cup (IF n < m THEN {c + n} ELSE {})
    <2>1. Shrunk(h, Run(c, n), c, H[c].size, n)
      BY <1>1, IdleShrinks
    <2>2. QED
      BY <1>2, <1>3, <2>1 DEF Shrunk
  <1>5. /\ c \in Int /\ n \in Nat /\ 1 <= n /\ n <= m /\ c \in Heap
        /\ c - 1 \notin IdleOf(h) /\ c + m \notin IdleOf(h)
        /\ \A x \in Int : c <= x /\ x < c + m => x \in IdleOf(h)
        /\ \A t \in StartsOf(h) : t <= c \/ c + m < t
    <2>1. /\ c \in Int /\ c \in Heap /\ c - 1 \notin IdleOf(h) /\ c + H[c].size \notin IdleOf(h)
          /\ \A x \in Int : c <= x /\ x < c + H[c].size => x \in IdleOf(h)
          /\ \A t \in StartsOf(h) : t <= c \/ c + H[c].size < t
      BY <1>1, StartFacts
    <2>2. QED
      BY <2>1, <1>2
  <1>6. \A x \in Int : x \in q <=> c <= x /\ x < c + n
    BY <1>3, <1>5 DEF Run
  <1>7. ASSUME NEW t \in StartsOf(h), t # c
        PROVE  /\ t \in StartsOf(h \cup {q})
               /\ K[t] \in Header /\ K[t].size = H[t].size
               /\ Run(t, K[t].size) \subseteq IdleOf(h) \ q
               /\ t + K[t].size \notin IdleOf(h)
    <2>1. K[t] \in Header /\ K[t].size = H[t].size /\ t \in StartsOf(h \cup {q})
      BY <1>4, <1>7
    <2>2. /\ t \in Int /\ Run(t, H[t].size) \subseteq IdleOf(h) /\ t + H[t].size \notin IdleOf(h)
      BY <1>1, StartFacts DEF Runs
    <2>3. PICK l \in Nat \ {0} : l = H[t].size
      BY <1>1, StartFacts
    <2>4. c <= t \/ t + l < c
      BY <1>1, <2>3, StartFacts
    <2>5. t <= c \/ c + m < t
      BY <1>5
    <2>6. ASSUME NEW x \in Run(t, l) PROVE x \notin q
      <3>1. x \in Int /\ t <= x /\ x < t + l
        BY <2>2, <2>3 DEF Run
      <3>2. QED
        BY <3>1, <2>2, <2>4, <2>5, <1>5, <1>6, <1>7
    <2>7. QED
      BY <2>1, <2>2, <2>3, <2>6
  <1>8. ASSUME n < m
        PROVE  /\ c + n \in StartsOf(h \cup {q}) /\ K[c + n] \in Header
               /\ Run(c + n, K[c + n].size) = (c + n)..(c + m - 1)
               /\ (c + n) + K[c + n].size = c + m
    <2>1. K[c + n] \in Header /\ K[c + n].size = m - n /\ c + n \in StartsOf(h \cup {q})
      BY <1>2, <1>4, <1>8
    <2>2. (c + n) + (m - n) - 1 = c + m - 1 /\ (c + n) + (m - n) = c + m
      BY <1>5
    <2>3. Run(c + n, m - n) = (c + n)..(c + m - 1)
      BY <2>2 DEF Run
    <2>4. QED
      BY <2>1, <2>2, <2>3
  <1>9. Runs(K, h \cup {q})
    <2> SUFFICES ASSUME NEW s \in StartsOf(h \cup {q})
                 PROVE  /\ K[s] \in Header /\ Run(s, K[s].size) \subseteq IdleOf(h) \ q
                        /\ s + K[s].size \notin IdleOf(h) \ q
      BY <1>4 DEF Runs
    <2>1. CASE s \in StartsOf(h) /\ s # c
      BY <2>1, <1>7
    <2>2. CASE n < m /\ s = c + n
      <3>1. (c + n)..(c + m - 1) \subseteq IdleOf(h) \ q
        <4> SUFFICES ASSUME NEW x \in (c + n)..(c + m - 1) PROVE x \in IdleOf(h) /\ x \notin q
          OBVIOUS
        <4>1. x \in Int /\ c <= x /\ x < c + m /\ ~(x < c + n)
          BY <1>5
        <4>2. QED
          BY <4>1, <1>5, <1>6
      <3>2. QED
        BY <3>1, <2>2, <1>5, <1>8
    <2>3. QED
      BY <2>1, <2>2, <1>4
  <1>10. Covered(K, h \cup {q})
    <2> SUFFICES ASSUME NEW x \in IdleOf(h), x \notin q
                 PROVE  \E s \in StartsOf(h \cup {q}) : x \in Run(s, K[s].size)
      BY <1>4 DEF Covered
    <2>1. PICK t \in StartsOf(h) : x \in Run(t, H[t].size)
      BY <1>1 DEF Covered
    <2>2. CASE t # c
      BY <2>1, <2>2, <1>7
    <2>3. CASE t = c
      <3>1. x \in Run(c, m)
        BY <2>1, <2>3, <1>2
      <3>2. x \in Int /\ c <= x /\ x < c + m
        BY <3>1, <1>5 DEF Run
      <3>3. ~(x < c + n)
        BY <3>2, <1>6
      <3>4. n < m /\ x \in (c + n)..(c + m - 1)
        BY <3>2, <3>3, <1>5
      <3>5. QED
        BY <3>4, <1>8
    <2>4. QED
      BY <2>2, <2>3
  <1>11. Handed(K, h \cup {q})
    <2>1. \A r \in h : r \cap q = {}
      BY <1>4 DEF IdleOf
    <2>2. ASSUME NEW r \in h
          PROVE  \E s \in Heap : K[s] \in Header /\ r = Run(s, K[s].size) /\ r \subseteq Heap
      <3>1. PICK s \in r : H[s] \in Header /\ r = Run(s, H[s].size)
        BY <1>1, HeldFacts
      <3>2. r \subseteq Heap
        BY <1>1, HeldFacts
      <3>3. K[s] = H[s]
        OBVIOUS
      <3>4. QED
        BY <3>1, <3>2, <3>3
    <2>3. K[c] \in Header /\ q = Run(c, K[c].size) /\ q \subseteq Heap /\ c \in Heap
      BY <1>3, <1>4, <1>5 DEF IdleOf
    <2>4. \A r, p \in h : r = p \/ r \cap p = {}
      BY <1>1 DEF Handed
    <2>5. QED
      BY <2>1, <2>2, <2>3, <2>4 DEF Handed
  <1>12. QED
    BY <1>3, <1>9, <1>10, <1>11 DEF Sound

-----------------------------------------------------------------------------
(***************************************************************************)
(* A block handed out becomes free units.                                  *)
(***************************************************************************)
(* What the blocks h leave free, once r is not among them any more, which  *)
(* has the units b to m - 1.                                               *)
Grown(h, r, b, m) ==
  /\ IdleOf(h \ {r}) = IdleOf(h) \cup r
  /\ \A x \in Int : x \in r <=> b <= x /\ x < m
  /\ r \subseteq Heap /\ r \cap IdleOf(h) = {}
  /\ b - 1 \in IdleOf(h) => StartsOf(h \ {r}) = StartsOf(h) \ {m}
  /\ b - 1 \notin IdleOf(h) => StartsOf(h \ {r}) = (StartsOf(h) \ {m}) \cup {b}

(* That is so if r is one of the blocks.                                   *)
LEMMA IdleGrows ==
  ASSUME NEW H, NEW h, Handed(H, h), NEW r \in h,
         NEW b \in Int, NEW m \in Int, b < m, r = b..(m - 1)
  PROVE  Grown(h, r, b, m)
  <1>1. /\ r \subseteq Heap /\ r \cap IdleOf(h) = {}
        /\ \A q \in h : q # r => q \cap r = {}
    BY HeldFacts DEF Handed, IdleOf
  <1>2. IdleOf(h \ {r}) = IdleOf(h) \cup r
    BY <1>1 DEF IdleOf
  <1>3. \A x \in Int : x \in r <=> b <= x /\ x < m
    OBVIOUS
  <1>4. b \in r /\ b - 1 \notin r /\ m - 1 \in Int /\ m \notin r /\ m - 1 \in r
    BY <1>3
  <1>5. IdleOf(h) \subseteq Int /\ r \subseteq Int
    BY <1>1, HeapAssumption DEF IdleOf, Heap
  <1>6. PICK J : J = IdleOf(h) \cup r
    OBVIOUS
  <1>7. StartsOf(h \ {r}) = {s \in J : s - 1 \notin J}
    BY <1>2, <1>6 DEF StartsOf
  <1>8. ASSUME NEW s \in J, s - 1 \notin J
        PROVE  s \in (StartsOf(h) \ {m}) \cup (IF b - 1 \in IdleOf(h) THEN {} ELSE {b})
    <2>1. s \in Int /\ s - 1 \notin IdleOf(h) /\ s - 1 \notin r
      BY <1>5, <1>6, <1>8
    <2>2. CASE s \in r
      <3>1. s = b
        BY <2>1, <2>2, <1>3
      <3>2. QED
        BY <3>1, <2>1
    <2>3. CASE s \notin r
      <3>1. s # m
        BY <2>1, <1>4
      <3>2. QED
        BY <3>1, <2>1, <2>3, <1>6 DEF StartsOf
    <2>4. QED
      BY <2>2, <2>3
  <1>9. ASSUME NEW s \in StartsOf(h) \ {m} PROVE s \in J /\ s - 1 \notin J
    <2>1. s \in Int /\ s \in IdleOf(h) /\ s - 1 \notin IdleOf(h) /\ s # m /\ s \notin r
      BY <1>1, StartsInt DEF StartsOf
    <2>2. s - 1 \notin r
      BY <2>1, <1>3
    <2>3. QED
      BY <2>1, <2>2, <1>6
  <1>10. b - 1 \notin IdleOf(h) => b \in J /\ b - 1 \notin J
    BY <1>4, <1>6
  <1>11. {s \in J : s - 1 \notin J} =
           (StartsOf(h) \ {m}) \cup (IF b - 1 \in IdleOf(h) THEN {} ELSE {b})
    BY <1>8, <1>9, <1>10
  <1>12. QED
    BY <1>1, <1>2, <1>3, <1>7, <1>11 DEF Grown

(* The headers K have the run of l units from p on in place of the blocks  *)
(* of H that are now part of it: units b to m - 1, and what adjoins them.  *)
Merges(H, h, K, b, m, p, l) ==
  /\ b - 1 \in IdleOf(h) => p \in StartsOf(h) /\ p + H[p].size = b
  /\ b - 1 \notin IdleOf(h) => p = b
  /\ m \in IdleOf(h) => p + l = m + H[m].size
  /\ m \notin IdleOf(h) => p + l = m
  /\ K[p] \in Header /\ K[p].size = l
  /\ \A t \in StartsOf(h) \ {p, m} : K[t] \in Header /\ K[t].size = H[t].size

(* They are right once these units are free, if they are linked all round. *)
LEMMA ReleaseSound ==
  ASSUME NEW H, NEW h, Sound(H, h), NEW r \in h,
         NEW b \in Int, NEW m \in Int, b < m, r = b..(m - 1),
         NEW p \in Int, NEW l \in Nat \ {0},
         NEW K \in [Heap -> Header \cup {Junk}],
         Merges(H, h, K, b, m, p, l),
         \A t \in UNION (h \ {r}) : K[t] = H[t],
         Circle(StartsOf(h \ {r}), K)
  PROVE  Sound(K, h \ {r})
  <1>1. /\ b - 1 \in IdleOf(h) => p \in StartsOf(h) /\ p + H[p].size = b
        /\ b - 1 \notin IdleOf(h) => p = b
        /\ m \in IdleOf(h) => p + l = m + H[m].size
        /\ m \notin IdleOf(h) => p + l = m
        /\ K[p] \in Header /\ K[p].size = l
        /\ \A t \in StartsOf(h) \ {p, m} : K[t] \in Header /\ K[t].size = H[t].size
    BY DEF Merges
  <1>2. /\ Runs(H, h) /\ Covered(H, h) /\ Handed(H, h)
    BY DEF Sound
  <1>3. /\ IdleOf(h \ {r}) = IdleOf(h) \cup r
        /\ \A x \in Int : x \in r <=> b <= x /\ x < m
        /\ r \subseteq Heap /\ r \cap IdleOf(h) = {}
        /\ b - 1 \in IdleOf(h) => StartsOf(h \ {r}) = StartsOf(h) \ {m}
        /\ b - 1 \notin IdleOf(h) => StartsOf(h \ {r}) = (StartsOf(h) \ {m}) \cup {b}
    <2>1. Grown(h, r, b, m)
      BY <1>2, IdleGrows
    <2>2. QED
      BY <2>1 DEF Grown
  <1>4. PICK e \in Int : e = p + l
    OBVIOUS
  <1>5. b < m /\ \A x \in Int : x \in r <=> b <= x /\ x < m
    BY <1>3
  <1>6. /\ p <= b /\ p \in StartsOf(h \ {r})
        /\ \A x \in Int : p <= x /\ x < b => x \in IdleOf(h)
    <2>1. CASE b - 1 \in IdleOf(h)
      <3>1. p \in StartsOf(h) /\ p + H[p].size = b
        BY <1>1, <2>1
      <3>2. H[p].size \in Nat \ {0} /\ \A x \in Int : p <= x /\ x < p + H[p].size => x \in IdleOf(h)
        BY <1>2, <3>1, StartFacts
      <3>3. p <= b /\ p # m
        BY <3>1, <3>2
      <3>4. QED
        BY <3>1, <3>2, <3>3, <2>1, <1>3
    <2>2. CASE b - 1 \notin IdleOf(h)
      <3>1. p = b
        BY <1>1, <2>2
      <3>2. b \in StartsOf(h \ {r})
        BY <2>2, <1>3
      <3>3. QED
        BY <3>1, <3>2
    <2>3. QED
      BY <2>1, <2>2
  <1>7. m \in IdleOf(h) => m \in StartsOf(h)
    <2>1. m - 1 \in r
      BY <1>5
    <2>2. m - 1 \notin IdleOf(h)
      BY <2>1, <1>3
    <2>3. QED
      BY <2>2 DEF StartsOf
  <1>8. /\ m <= e /\ e \notin IdleOf(h)
        /\ \A x \in Int : m <= x /\ x < e => x \in IdleOf(h)
    <2>1. CASE m \in IdleOf(h)
      <3>1. e = m + H[m].size
        BY <1>1, <2>1, <1>4
      <3>2. /\ H[m].size \in Nat \ {0} /\ m + H[m].size \notin IdleOf(h)
            /\ \A x \in Int : m <= x /\ x < m + H[m].size => x \in IdleOf(h)
        BY <1>2, <2>1, <1>7, StartFacts
      <3>3. QED
        BY <3>1, <3>2
    <2>2. CASE m \notin IdleOf(h)
      BY <1>1, <2>2, <1>4
    <2>3. QED
      BY <2>1, <2>2
  <1>9. e \notin r
    BY <1>5, <1>8
  <1>10. \A x \in Int : p <= x /\ x < e => x \in IdleOf(h) \cup r
    BY <1>5, <1>6, <1>8
  <1>11. Run(p, l) \subseteq IdleOf(h) \cup r /\ \A x \in Int : p <= x /\ x < e => x \in Run(p, l)
    <2>1. \A x \in Run(p, l) : x \in Int /\ p <= x /\ x < e
      BY <1>4 DEF Run
    <2>2. \A x \in Int : p <= x /\ x < e => x \in Run(p, l)
      BY <1>4 DEF Run
    <2>3. QED
      BY <2>1, <2>2, <1>10
  <1>12. ASSUME NEW t \in StartsOf(h), t # p, t # m
         PROVE  /\ t \in StartsOf(h \ {r}) /\ K[t] \in Header /\ K[t].size = H[t].size
                /\ Run(t, H[t].size) \subseteq IdleOf(h)
                /\ t + H[t].size \notin IdleOf(h) \cup r
    <2>1. t \in StartsOf(h \ {r}) /\ K[t] \in Header /\ K[t].size = H[t].size
      BY <1>1, <1>3, <1>12
    <2>2. /\ t \in Int /\ Run(t, H[t].size) \subseteq IdleOf(h) /\ t + H[t].size \notin IdleOf(h)
          /\ \A x \in Int : t <= x /\ x < t + H[t].size => x \in IdleOf(h)
      BY <1>2, StartFacts DEF Runs
    <2>3. PICK k \in Nat \ {0} : k = H[t].size
      BY <1>2, StartFacts
    <2>4. ASSUME t + k \in r PROVE FALSE
      <3>1. b <= t + k /\ t + k < m
        BY <2>2, <2>3, <2>4, <1>5
      <3>2. (t + k) - 1 \in Int /\ t <= (t + k) - 1 /\ (t + k) - 1 < t + H[t].size
        BY <2>2, <2>3
      <3>3. (t + k) - 1 \in IdleOf(h)
        BY <3>2, <2>2
      <3>4. (t + k) - 1 \notin r
        BY <3>3, <1>3
      <3>5. ~(b <= (t + k) - 1 /\ (t + k) - 1 < m)
        BY <3>2, <3>4, <1>5
      <3>6. t + k = b
        BY <3>1, <3>5, <2>2, <2>3
      <3>7. b - 1 \in IdleOf(h)
        BY <3>3, <3>6
      <3>8. p \in StartsOf(h) /\ p + H[p].size = b
        BY <1>1, <3>7
      <3>9. p <= t \/ t + H[t].size < p
        BY <1>2, <3>8, StartFacts
      <3>10. t <= p \/ p + H[p].size < t
        BY <1>2, <3>8, StartFacts
      <3>11. QED
        BY <3>6, <3>8, <3>9, <3>10, <2>2, <2>3, <1>6, <1>12
    <2>5. QED
      BY <2>1, <2>2, <2>3, <2>4
  <1>13. p # m /\ m \notin StartsOf(h \ {r})
    BY <1>1, <1>3, <1>5, <1>6
  <1>14. Runs(K, h \ {r})
    <2> SUFFICES ASSUME NEW s \in StartsOf(h \ {r})
                 PROVE  /\ K[s] \in Header /\ Run(s, K[s].size) \subseteq IdleOf(h) \cup r
                        /\ s + K[s].size \notin IdleOf(h) \cup r
      BY <1>3 DEF Runs
    <2>1. CASE s = p
      BY <1>1, <2>1, <1>4, <1>8, <1>9, <1>11
    <2>2. CASE s # p
      <3>1. s \in StartsOf(h) /\ s # m
        BY <1>1, <2>2, <1>3, <1>13
      <3>2. QED
        BY <3>1, <2>2, <1>12
    <2>3. QED
      BY <2>1, <2>2
  <1>15. Covered(K, h \ {r})
    <2> SUFFICES ASSUME NEW x \in IdleOf(h) \cup r
                 PROVE  \E s \in StartsOf(h \ {r}) : x \in Run(s, K[s].size)
      BY <1>3 DEF Covered
    <2>1. x \in Int
      BY <1>3, HeapAssumption DEF IdleOf, Heap
    <2>2. ASSUME p <= x, x < e PROVE \E s \in StartsOf(h \ {r}) : x \in Run(s, K[s].size)
      BY <1>1, <2>1, <2>2, <1>6, <1>11
    <2>3. CASE x \in r
      <3>1. b <= x /\ x < m
        BY <2>1, <2>3, <1>5
      <3>2. p <= x /\ x < e
        BY <3>1, <2>1, <1>6, <1>8
      <3>3. QED
        BY <3>2, <2>2
    <2>4. CASE x \in IdleOf(h)
      <3>1. PICK t \in StartsOf(h) : x \in Run(t, H[t].size)
        BY <1>2, <2>4 DEF Covered
      <3>2. t \in Int /\ H[t].size \in Nat
        BY <1>2, StartFacts
      <3>3. t <= x /\ x < t + H[t].size
        BY <2>1, <3>1, <3>2 DEF Run
      <3>4. CASE t = p
        <4>1. p < b
          BY <3>4, <1>3, <1>5, <1>6, HeapAssumption DEF StartsOf
        <4>2. b - 1 \in IdleOf(h)
          BY <4>1, <1>6
        <4>3. p + H[p].size = b
          BY <1>1, <4>2
        <4>4. x < e
          BY <3>3, <3>4, <4>3, <2>1, <1>5, <1>8
        <4>5. QED
          BY <4>4, <3>3, <3>4, <2>2
      <3>5. CASE t = m
        <4>1. m \in IdleOf(h)
          BY <3>5 DEF StartsOf
        <4>2. e = m + H[m].size
          BY <1>1, <4>1, <1>4
        <4>3. m <= x /\ x < e
          BY <4>2, <3>3, <3>5
        <4>4. p <= x
          BY <4>3, <2>1, <1>5, <1>6
        <4>5. QED
          BY <4>3, <4>4, <2>2
      <3>6. CASE t # p /\ t # m
        BY <3>1, <3>6, <1>12
      <3>7. QED
        BY <3>4, <3>5, <3>6
    <2>5. QED
      BY <2>3, <2>4
  <1>16. Handed(K, h \ {r})
    <2>1. ASSUME NEW q \in h \ {r}
          PROVE  \E s \in Heap : K[s] \in Header /\ q = Run(s, K[s].size) /\ q \subseteq Heap
      <3>1. PICK s \in q : H[s] \in Header /\ q = Run(s, H[s].size)
        BY <1>2, HeldFacts
      <3>2. q \subseteq Heap
        BY <1>2, HeldFacts
      <3>3. K[s] = H[s]
        OBVIOUS
      <3>4. QED
        BY <3>1, <3>2, <3>3
    <2>2. QED
      BY <2>1, <1>2 DEF Handed
  <1>17. QED
    BY <1>14, <1>15, <1>16 DEF Sound

-----------------------------------------------------------------------------
(***************************************************************************)
(* The steps of SCCMallocPtr.                                              *)
(***************************************************************************)
LEMMA Names == Idle = IdleOf(held) /\ Starts = StartsOf(held)
  BY DEF Idle, Starts, IdleOf, StartsOf

(* A block has a unit at least, its header.                                *)
LEMMA NunitsFacts ==
  ASSUME NEW n \in Sizes
  PROVE  n \in Nat /\ n < SizeMod /\ Nunits(n) \in Nat \ {0}
  <1>1. n \in Nat /\ n < SizeMod /\ SizeMod \in Nat \ {0} /\ UnitBytes \in Nat \ {0}
    BY HeapAssumption
  <1>2. n + UnitBytes - 1 \in Nat
    BY <1>1
  <1>3. PICK x \in Nat : x = n + UnitBytes - 1
    BY <1>2
  <1>4. x % SizeMod \in Nat
    BY <1>1
  <1>5. PICK y \in Nat : y = x % SizeMod
    BY <1>4
  <1>6. y \div UnitBytes \in Nat
    BY <1>1
  <1>7. Nunits(n) = y \div UnitBytes + 1
    BY <1>3, <1>5 DEF Nunits
  <1>8. QED
    BY <1>1, <1>6, <1>7

(* What the search looks at.                                               *)
LEMMA FitFacts ==
  ASSUME Inv, pc = "fit"
  PROVE  /\ Sound(hdr, held) /\ ~dangling
         /\ freeList \in StartsOf(held) /\ prev \in StartsOf(held) /\ curr \in StartsOf(held)
         /\ hdr[prev].next = curr
         /\ nunits \in Nat \ {0} /\ hdr[curr].size \in Nat \ {0}
         /\ size \in Sizes /\ nunits = Nunits(size)
  <1>1. /\ Sound(hdr, held) /\ Search /\ ~dangling
    BY DEF Inv
  <1>2. /\ freeList \in StartsOf(held) /\ prev \in StartsOf(held) /\ curr = hdr[prev].next
        /\ size \in Sizes /\ nunits = Nunits(size)
    BY <1>1, Names DEF Search
  <1>3. curr \in StartsOf(held)
    BY <1>1, <1>2 DEF Sound, Circle
  <1>4. hdr[curr].size \in Nat \ {0}
    BY <1>1, <1>3, StartFacts DEF Sound
  <1>5. QED
    BY <1>1, <1>2, <1>3, <1>4, NunitsFacts

(* The caller writes over no header.                                       *)
LEMMA CallerWrites ==
  ASSUME NEW H, NEW h, Sound(H, h), NEW c \in StartsOf(h), NEW n \in 1..H[c].size,
         NEW G \in [Heap -> Header \cup {Junk}],
         NEW K, K = [i \in Heap |-> IF i \in Run(c + 1, n - 1) THEN Junk ELSE G[i]]
  PROVE  /\ K \in [Heap -> Header \cup {Junk}]
         /\ K[c] = G[c]
         /\ \A t \in StartsOf(h) : K[t] = G[t]
         /\ \A t \in UNION h : t \in Heap /\ t \notin IdleOf(h) /\ K[t] = G[t]
         /\ n < H[c].size => c + n \in IdleOf(h) /\ c + n \in Heap /\ K[c + n] = G[c + n]
  <1>1. /\ Runs(H, h) /\ Handed(H, h)
    BY DEF Sound
  <1>2. PICK m \in Nat \ {0} : m = H[c].size
    BY <1>1, StartFacts
  <1>3. /\ c \in Int
        /\ \A x \in Int : c <= x /\ x < c + m => x \in IdleOf(h)
        /\ \A t \in StartsOf(h) : t <= c \/ c + m < t
    <2>1. /\ c \in Int
          /\ \A x \in Int : c <= x /\ x < c + H[c].size => x \in IdleOf(h)
          /\ \A t \in StartsOf(h) : t <= c \/ c + H[c].size < t
      BY <1>1, StartFacts
    <2>2. QED
      BY <2>1, <1>2
  <1>4. n \in Nat /\ 1 <= n /\ n <= m
    BY <1>2
  <1>5. \A x \in Int : x \in Run(c + 1, n - 1) <=> c < x /\ x < c + n
    BY <1>3, <1>4 DEF Run
  <1>6. K \in [Heap -> Header \cup {Junk}]
    OBVIOUS
  <1>7. \A t \in StartsOf(h) : K[t] = G[t]
    <2> SUFFICES ASSUME NEW t \in StartsOf(h) PROVE K[t] = G[t]
      OBVIOUS
    <2>1. t \in Heap /\ t \in Int
      BY StartsInt
    <2>2. t <= c \/ c + m < t
      BY <1>3
    <2>3. ~(c < t /\ t < c + n)
      BY <2>1, <2>2, <1>3, <1>4
    <2>4. t \notin Run(c + 1, n - 1)
      BY <2>1, <2>3, <1>5
    <2>5. QED
      BY <2>1, <2>4
  <1>8. \A t \in UNION h : t \in Heap /\ t \notin IdleOf(h) /\ K[t] = G[t]
    <2> SUFFICES ASSUME NEW t \in UNION h PROVE t \in Heap /\ t \notin IdleOf(h) /\ K[t] = G[t]
      OBVIOUS
    <2>1. t \in Heap /\ t \in Int /\ t \notin IdleOf(h)
      BY <1>1, HeldFacts DEF IdleOf
    <2>2. ~(c <= t /\ t < c + m)
      BY <2>1, <1>3
    <2>3. ~(c < t /\ t < c + n)
      BY <2>1, <2>2, <1>3, <1>4
    <2>4. t \notin Run(c + 1, n - 1)
      BY <2>1, <2>3, <1>5
    <2>5. QED
      BY <2>1, <2>4
  <1>9. ASSUME n < m
        PROVE  c + n \in IdleOf(h) /\ c + n \in Heap /\ K[c + n] = G[c + n]
    <2>1. c + n \in Int /\ c <= c + n /\ c + n < c + m
      BY <1>3, <1>4, <1>9
    <2>2. c + n \in IdleOf(h) /\ c + n \in Heap
      BY <2>1, <1>3 DEF IdleOf
    <2>3. c + n \notin Run(c + 1, n - 1)
      BY <2>1, <1>5
    <2>4. QED
      BY <2>2, <2>3
  <1>10. QED
    BY <1>2, <1>6, <1>7, <1>8, <1>9

(* A whole block is handed out, from behind p.                             *)
LEMMA TakeAllSound ==
  ASSUME Inv, TakeAll
  PROVE  /\ Sound(hdr', held') /\ held' = held \cup {Run(curr, nunits)}
         /\ curr \in StartsOf(held) /\ nunits \in 1..hdr[curr].size
         /\ IF IdleOf(held') = {} THEN freeList' = Null ELSE freeList' \in StartsOf(held')
  <1>1. /\ Sound(hdr, held)
        /\ prev \in StartsOf(held) /\ curr \in StartsOf(held) /\ hdr[prev].next = curr
        /\ nunits \in Nat \ {0} /\ hdr[curr].size = nunits
    BY FitFacts DEF TakeAll
  <1>2. Runs(hdr, held) /\ Circle(StartsOf(held), hdr) /\ hdr \in [Heap -> Header \cup {Junk}]
    BY <1>1 DEF Sound
  <1>3. nunits \in 1..hdr[curr].size
    BY <1>1
  <1>4. PICK G : /\ G = IF prev = curr THEN hdr ELSE [hdr EXCEPT ![prev].next = hdr[curr].next]
                 /\ Grant(G) /\ freeList' = IF prev = curr THEN Null ELSE prev
    BY DEF TakeAll
  <1>5. /\ hdr' = [i \in Heap |-> IF i \in Run(curr + 1, nunits - 1) THEN Junk ELSE G[i]]
        /\ held' = held \cup {Run(curr, nunits)}
    BY <1>4 DEF Grant
  <1>6. /\ prev \in Heap /\ curr \in Heap /\ hdr[prev] \in Header /\ hdr[curr] \in Header
        /\ hdr[curr].next \in Heap
    <2>1. prev \in Heap /\ curr \in Heap /\ hdr[prev] \in Header /\ hdr[curr] \in Header
      BY <1>1, <1>2, StartFacts
    <2>2. QED
      BY <2>1 DEF Header
  <1>7. G \in [Heap -> Header \cup {Junk}] /\ \A i \in Heap : i # prev => G[i] = hdr[i]
    <2>1. [hdr[prev] EXCEPT !.next = hdr[curr].next] \in Header
      BY <1>6 DEF Header
    <2>2. QED
      BY <2>1, <1>2, <1>4, <1>6
  <1>8. /\ G[prev] \in Header /\ G[prev].size = hdr[prev].size
        /\ prev # curr => G[prev].next = hdr[curr].next
    <2>1. CASE prev = curr
      BY <2>1, <1>4, <1>6
    <2>2. CASE prev # curr
      <3>1. G[prev] = [hdr[prev] EXCEPT !.next = hdr[curr].next]
        BY <2>2, <1>2, <1>4, <1>6
      <3>2. QED
        BY <3>1, <1>6 DEF Header
    <2>3. QED
      BY <2>1, <2>2
  <1>9. /\ hdr' \in [Heap -> Header \cup {Junk}]
        /\ \A t \in StartsOf(held) : hdr'[t] = G[t]
        /\ \A t \in UNION held : t \in Heap /\ t \notin IdleOf(held) /\ hdr'[t] = G[t]
    BY <1>1, <1>3, <1>5, <1>7, CallerWrites
  <1>10. \A t \in StartsOf(held) : hdr'[t] \in Header /\ hdr'[t].size = hdr[t].size
    <2> SUFFICES ASSUME NEW t \in StartsOf(held)
                 PROVE  hdr'[t] \in Header /\ hdr'[t].size = hdr[t].size
      OBVIOUS
    <2>1. hdr'[t] = G[t] /\ t \in Heap /\ hdr[t] \in Header
      BY <1>2, <1>9, StartFacts
    <2>2. QED
      BY <2>1, <1>7, <1>8
  <1>11. \A t \in UNION held : hdr'[t] = hdr[t]
    <2>1. prev \in IdleOf(held)
      BY <1>1 DEF StartsOf
    <2>2. QED
      BY <2>1, <1>7, <1>9
  <1>12. StartsOf(held') = StartsOf(held) \ {curr}
    <2>1. Runs(hdr, held) /\ curr \in StartsOf(held)
      BY <1>1, <1>2
    <2>2. Shrunk(held, Run(curr, nunits), curr, hdr[curr].size, nunits)
      BY <2>1, <1>3, IdleShrinks
    <2>3. ~(nunits < hdr[curr].size)
      BY <1>1
    <2>4. QED
      BY <2>2, <2>3, <1>5 DEF Shrunk
  <1>13. prev = curr => StartsOf(held') = {}
    BY <1>1, <1>2, <1>12, CircleAlone, StartsInt
  <1>14. Circle(StartsOf(held'), hdr')
    <2>1. CASE prev = curr
      BY <2>1, <1>13 DEF Circle
    <2>2. CASE prev # curr
      <3>1. hdr'[prev].next = hdr[curr].next
        BY <2>2, <1>1, <1>8, <1>9
      <3>2. \A s \in StartsOf(held) \ {prev, curr} : hdr'[s].next = hdr[s].next
        BY <1>7, <1>9, StartsInt
      <3>3. StartsOf(held) \in SUBSET Int
        BY StartsInt
      <3>4. Circle(StartsOf(held) \ {curr}, hdr')
        BY <3>1, <3>2, <3>3, <2>2, <1>1, <1>2, CircleRemove
      <3>5. QED
        BY <3>4, <1>12
    <2>3. QED
      BY <2>1, <2>2
  <1>15. Sound(hdr', held')
    <2>1. hdr'[curr] \in Header /\ hdr'[curr].size = nunits
      BY <1>1, <1>10
    <2>2. ~(nunits < hdr[curr].size)
      BY <1>1
    <2>3. Circle(StartsOf(held \cup {Run(curr, nunits)}), hdr')
      BY <1>5, <1>14
    <2>4. Sound(hdr', held \cup {Run(curr, nunits)})
      BY <2>1, <2>2, <2>3, <1>1, <1>3, <1>9, <1>10, <1>11, GrantSound
    <2>5. QED
      BY <2>4, <1>5
  <1>16. IF IdleOf(held') = {} THEN freeList' = Null ELSE freeList' \in StartsOf(held')
    <2>1. CASE prev = curr
      <3>1. IdleOf(held') = {}
        BY <2>1, <1>13, <1>15 DEF Sound, Covered
      <3>2. QED
        BY <3>1, <2>1, <1>4
    <2>2. CASE prev # curr
      <3>1. prev \in StartsOf(held') /\ freeList' = prev
        BY <2>2, <1>1, <1>4, <1>12
      <3>2. IdleOf(held') # {}
        BY <3>1 DEF StartsOf
      <3>3. QED
        BY <3>1, <3>2
    <2>3. QED
      BY <2>1, <2>2
  <1>17. QED
    BY <1>1, <1>3, <1>5, <1>15, <1>16

(* The front of a larger block is handed out, and the rear takes its place *)
(* behind p.                                                               *)
LEMMA TakeFrontSound ==
  ASSUME Inv, TakeFront
  PROVE  /\ Sound(hdr', held') /\ held' = held \cup {Run(curr, nunits)}
         /\ curr \in StartsOf(held) /\ nunits \in 1..hdr[curr].size
         /\ IdleOf(held') # {} /\ freeList' \in StartsOf(held')
  <1>1. /\ Sound(hdr, held)
        /\ prev \in StartsOf(held) /\ curr \in StartsOf(held) /\ hdr[prev].next = curr
        /\ nunits \in Nat \ {0} /\ hdr[curr].size > nunits /\ hdr[curr].size \in Nat \ {0}
    BY FitFacts DEF TakeFront
  <1>2. Runs(hdr, held) /\ Circle(StartsOf(held), hdr) /\ hdr \in [Heap -> Header \cup {Junk}]
    BY <1>1 DEF Sound
  <1>3. nunits \in 1..hdr[curr].size /\ nunits < hdr[curr].size
    BY <1>1
  <1>4. PICK new : new = curr + nunits
    OBVIOUS
  <1>5. /\ new \in Int /\ new \in IdleOf(held) /\ new \in Heap
        /\ new - 1 \in IdleOf(held) /\ new \notin StartsOf(held)
        /\ \A t \in StartsOf(held) \ {curr} : t < curr <=> t < new
    <2>1. /\ curr \in Int
          /\ \A x \in Int : curr <= x /\ x < curr + hdr[curr].size => x \in IdleOf(held)
          /\ \A t \in StartsOf(held) : t <= curr \/ curr + hdr[curr].size < t
      BY <1>1, <1>2, StartFacts
    <2>2. /\ new \in Int /\ curr <= new /\ new < curr + hdr[curr].size
          /\ new - 1 \in Int /\ curr <= new - 1 /\ new - 1 < curr + hdr[curr].size
      BY <2>1, <1>1, <1>4
    <2>3. new \in IdleOf(held) /\ new - 1 \in IdleOf(held)
      BY <2>1, <2>2
    <2>4. ASSUME NEW t \in StartsOf(held) \ {curr} PROVE t < curr <=> t < new
      <3>1. t \in Int /\ t # curr
        BY StartsInt
      <3>2. t <= curr \/ curr + hdr[curr].size < t
        BY <2>1
      <3>3. QED
        BY <3>1, <3>2, <2>1, <2>2, <1>1
    <2>5. QED
      BY <2>2, <2>3, <2>4 DEF StartsOf, IdleOf
  <1>6. PICK last : last = IF prev = curr THEN new ELSE prev
    OBVIOUS
  <1>7. PICK cut : cut = [hdr EXCEPT ![new] = [hdr[curr] EXCEPT !.size = @ - nunits],
                                     ![curr].size = nunits]
    OBVIOUS
  <1>8. PICK G : G = [cut EXCEPT ![last].next = new]
    OBVIOUS
  <1>9. freeList' = last /\ Grant(G)
    BY <1>4, <1>6, <1>7, <1>8 DEF TakeFront
  <1>10. /\ hdr' = [i \in Heap |-> IF i \in Run(curr + 1, nunits - 1) THEN Junk ELSE G[i]]
         /\ held' = held \cup {Run(curr, nunits)}
    BY <1>9 DEF Grant
  <1>11. /\ prev \in Heap /\ curr \in Heap /\ hdr[prev] \in Header /\ hdr[curr] \in Header
         /\ hdr[curr].next \in Heap /\ curr # new /\ prev # new
    <2>1. prev \in Heap /\ curr \in Heap /\ hdr[prev] \in Header /\ hdr[curr] \in Header
      BY <1>1, <1>2, StartFacts
    <2>2. QED
      BY <2>1, <1>1, <1>5 DEF Header
  <1>12. PICK front, rear, lead :
           /\ front = [hdr[curr] EXCEPT !.size = nunits]
           /\ rear = [hdr[curr] EXCEPT !.size = @ - nunits]
           /\ lead = [hdr[prev] EXCEPT !.next = new]
    OBVIOUS
  <1>13. /\ front \in Header /\ front.size = nunits /\ front.next = hdr[curr].next
         /\ rear \in Header /\ rear.size = hdr[curr].size - nunits /\ rear.next = hdr[curr].next
         /\ lead \in Header /\ lead.size = hdr[prev].size /\ lead.next = new
    <2>1. hdr[curr].size - nunits \in Nat \ {0}
      BY <1>1
    <2>2. QED
      BY <2>1, <1>1, <1>5, <1>11, <1>12 DEF Header
  <1>14. /\ cut \in [Heap -> Header \cup {Junk}]
         /\ cut[curr] = front /\ cut[new] = rear
         /\ \A i \in Heap : i # curr /\ i # new => cut[i] = hdr[i]
    BY <1>2, <1>5, <1>7, <1>11, <1>12, <1>13
  <1>15. cut[last] \in Header /\ last \in Heap
         /\ (prev = curr => cut[last] = rear) /\ (prev # curr => cut[last] = hdr[prev])
    BY <1>5, <1>6, <1>11, <1>13, <1>14
  <1>16. PICK tie : tie = [cut[last] EXCEPT !.next = new]
    OBVIOUS
  <1>17. tie \in Header /\ tie.next = new /\ tie.size = cut[last].size
    BY <1>5, <1>15, <1>16 DEF Header
  <1>18. /\ G \in [Heap -> Header \cup {Junk}]
         /\ G[last] = tie /\ \A i \in Heap : i # last => G[i] = cut[i]
    BY <1>8, <1>14, <1>15, <1>16, <1>17
  <1>19. /\ hdr' \in [Heap -> Header \cup {Junk}] /\ hdr'[new] = G[new] /\ hdr'[curr] = G[curr]
         /\ \A t \in StartsOf(held) : hdr'[t] = G[t]
         /\ \A t \in UNION held : t \in Heap /\ t \notin IdleOf(held) /\ hdr'[t] = G[t]
    BY <1>1, <1>3, <1>4, <1>10, <1>18, CallerWrites
  <1>20. hdr'[curr] \in Header /\ hdr'[curr].size = nunits
    <2>1. last # curr
      BY <1>6, <1>11
    <2>2. QED
      BY <2>1, <1>11, <1>13, <1>14, <1>18, <1>19
  <1>21. /\ hdr'[new] \in Header /\ hdr'[new].size = hdr[curr].size - nunits
         /\ hdr'[new].next = IF prev = curr THEN new ELSE hdr[curr].next
    <2>1. CASE prev = curr
      BY <2>1, <1>6, <1>13, <1>15, <1>17, <1>18, <1>19
    <2>2. CASE prev # curr
      <3>1. last # new
        BY <2>2, <1>6, <1>11
      <3>2. QED
        BY <2>2, <3>1, <1>5, <1>13, <1>14, <1>18, <1>19
    <2>3. QED
      BY <2>1, <2>2
  <1>22. prev # curr => /\ hdr'[prev] \in Header /\ hdr'[prev].size = hdr[prev].size
                        /\ hdr'[prev].next = new
    BY <1>1, <1>6, <1>15, <1>17, <1>18, <1>19
  <1>23. \A t \in StartsOf(held) \ {curr, prev} : hdr'[t] = hdr[t]
    <2> SUFFICES ASSUME NEW t \in StartsOf(held) \ {curr, prev} PROVE hdr'[t] = hdr[t]
      OBVIOUS
    <2>1. t \in Heap /\ t # new /\ t # curr /\ t # last
      BY <1>5, <1>6, StartsInt
    <2>2. QED
      BY <2>1, <1>14, <1>18, <1>19
  <1>24. \A t \in StartsOf(held) \ {curr} : hdr'[t] \in Header /\ hdr'[t].size = hdr[t].size
    <2> SUFFICES ASSUME NEW t \in StartsOf(held) \ {curr}
                 PROVE  hdr'[t] \in Header /\ hdr'[t].size = hdr[t].size
      OBVIOUS
    <2>1. hdr[t] \in Header
      BY <1>2, StartFacts
    <2>2. QED
      BY <2>1, <1>22, <1>23
  <1>25. \A t \in UNION held : hdr'[t] = hdr[t]
    <2> SUFFICES ASSUME NEW t \in UNION held PROVE hdr'[t] = hdr[t]
      OBVIOUS
    <2>1. t \in Heap /\ t \notin IdleOf(held) /\ hdr'[t] = G[t]
      BY <1>19
    <2>2. t # curr /\ t # prev /\ t # new /\ t # last
      BY <2>1, <1>1, <1>5, <1>6 DEF StartsOf
    <2>3. QED
      BY <2>1, <2>2, <1>14, <1>18
  <1>26. StartsOf(held') = (StartsOf(held) \ {curr}) \cup {new}
    <2>1. Runs(hdr, held) /\ curr \in StartsOf(held)
      BY <1>1, <1>2
    <2>2. Shrunk(held, Run(curr, nunits), curr, hdr[curr].size, nunits)
      BY <2>1, <1>3, IdleShrinks
    <2>3. QED
      BY <2>2, <1>3, <1>4, <1>10 DEF Shrunk
  <1>27. Circle(StartsOf(held'), hdr')
    <2>1. StartsOf(held) \in SUBSET Int /\ Circle(StartsOf(held), hdr) /\ curr \in StartsOf(held)
      BY <1>1, <1>2, StartsInt
    <2>2. ASSUME NEW s \in StartsOf(held), s # prev PROVE hdr[s].next # curr
      BY <2>1, <2>2, <1>1, CirclePredecessor
    <2>3. hdr'[new].next = IF hdr[curr].next = curr THEN new ELSE hdr[curr].next
      BY <2>1, <2>2, <1>1, <1>21
    <2>4. ASSUME NEW s \in StartsOf(held) \ {curr}
          PROVE  hdr'[s].next = IF hdr[s].next = curr THEN new ELSE hdr[s].next
      BY <2>2, <1>1, <1>22, <1>23
    <2>5. new \notin StartsOf(held) \ {curr} /\ new \in Int
      BY <1>5
    <2>6. \A t \in StartsOf(held) \ {curr} : t < curr <=> t < new
      BY <1>5
    <2>7. QED
      BY <2>1, <2>3, <2>4, <2>5, <2>6, <1>26, CircleRename
  <1>28. Sound(hdr', held')
    <2>1. hdr'[curr + nunits] \in Header /\ hdr'[curr + nunits].size = hdr[curr].size - nunits
      BY <1>4, <1>21
    <2>2. Circle(StartsOf(held \cup {Run(curr, nunits)}), hdr')
      BY <1>10, <1>27
    <2>3. Sound(hdr', held \cup {Run(curr, nunits)})
      BY <2>1, <2>2, <1>1, <1>3, <1>19, <1>20, <1>24, <1>25, GrantSound
    <2>4. QED
      BY <2>3, <1>10
  <1>29. last \in StartsOf(held')
    BY <1>1, <1>6, <1>26
  <1>30. IdleOf(held') # {}
    BY <1>29 DEF StartsOf
  <1>31. QED
    BY <1>1, <1>3, <1>9, <1>10, <1>28, <1>29, <1>30

-----------------------------------------------------------------------------
(***************************************************************************)
(* The steps of SCCFreePtr.                                                *)
(***************************************************************************)
(* The only block with a unit x.                                           *)
LEMMA BlockOf ==
  ASSUME NEW H, NEW h, Handed(H, h), NEW r \in h, NEW x \in r, \A i \in r : x <= i
  PROVE  /\ x \in Int /\ x \in Heap /\ x \notin IdleOf(h)
         /\ H[x] \in Header /\ H[x].size \in Nat \ {0} /\ r = Run(x, H[x].size)
         /\ {q \in h : x \notin q} = h \ {r}
  <1>1. PICK s \in r : /\ s \in Int /\ H[s] \in Header /\ H[s].size \in Nat \ {0}
                       /\ r = Run(s, H[s].size)
                       /\ \A y \in Int : y \in r <=> s <= y /\ y < s + H[s].size
    BY HeldFacts
  <1>2. r \subseteq Heap /\ r \subseteq Int
    BY HeldFacts
  <1>3. s <= x /\ x <= s /\ x \in Int
    BY <1>1, <1>2
  <1>4. x = s
    BY <1>1, <1>3
  <1>5. {q \in h : x \notin q} = h \ {r}
    BY DEF Handed
  <1>6. QED
    BY <1>1, <1>2, <1>4, <1>5 DEF IdleOf

(* Between the blocks at c and at its successor, the units from b on       *)
(* adjoin free ones only if they adjoin these two.                         *)
LEMMA Neighbours ==
  ASSUME NEW H, NEW h, Runs(H, h), Covered(H, h), Circle(StartsOf(h), H),
         NEW c \in StartsOf(h), NEW b \in Int, NEW n \in Nat \ {0},
         Between(c, b, H[c].next),
         \A x \in Int : b <= x /\ x < b + n => x \notin IdleOf(h)
  PROVE  /\ b - 1 \in IdleOf(h) <=> c + H[c].size = b
         /\ b + n \in IdleOf(h) <=> b + n = H[c].next
         /\ \A t \in StartsOf(h) \ {H[c].next} : b + n = H[c].next => (t < b <=> t < b + n)
  <1>1. PICK m \in StartsOf(h) : m = H[c].next
    BY DEF Circle
  <1>2. PICK e \in Int : e = b + n
    OBVIOUS
  <1>3. /\ c \in Int /\ m \in Int /\ c \in IdleOf(h) /\ m \in IdleOf(h)
        /\ c - 1 \notin IdleOf(h) /\ m - 1 \notin IdleOf(h)
    BY <1>1, StartFacts
  <1>4. b < e /\ b \notin IdleOf(h) /\ \A x \in Int : b <= x /\ x < e => x \notin IdleOf(h)
    BY <1>2
  <1>5. ~Between(c, c, m) /\ Between(c, b, m) /\ \A t \in StartsOf(h) : ~Between(c, t, m)
    BY <1>1 DEF Circle
  <1>6. b - 1 \in IdleOf(h) <=> c + H[c].size = b
    <2>1. ASSUME b - 1 \in IdleOf(h) PROVE c + H[c].size = b
      <3>1. PICK s \in StartsOf(h) : s + H[s].size = b
        BY <2>1, <1>4, RunBefore
      <3>2. s \in Int /\ H[s].size \in Nat \ {0}
        BY StartFacts
      <3>3. s < b
        BY <3>1, <3>2
      <3>4. c <= s \/ b < c
        BY <3>1, StartFacts
      <3>5. m <= s \/ b < m
        BY <3>1, <1>1, StartFacts
      <3>6. ~Between(c, s, m)
        BY <1>5
      <3>7. c = s
        BY <3>2, <3>3, <3>4, <3>5, <3>6, <1>3, <1>5 DEF Between
      <3>8. QED
        BY <3>1, <3>7
    <2>2. ASSUME c + H[c].size = b PROVE b - 1 \in IdleOf(h)
      <3>1. /\ H[c].size \in Nat \ {0}
            /\ \A x \in Int : c <= x /\ x < c + H[c].size => x \in IdleOf(h)
        BY StartFacts
      <3>2. b - 1 \in Int /\ c <= b - 1 /\ b - 1 < c + H[c].size
        BY <2>2, <3>1, <1>3
      <3>3. QED
        BY <3>1, <3>2
    <2>3. QED
      BY <2>1, <2>2
  <1>7. \A t \in StartsOf(h) : t < b \/ e <= t
    BY <1>4, StartFacts
  <1>8. e \in IdleOf(h) <=> e = m
    <2>1. ASSUME e \in IdleOf(h) PROVE e = m
      <3>1. e - 1 \in Int /\ b <= e - 1 /\ e - 1 < e
        BY <1>4
      <3>2. e \in StartsOf(h)
        BY <2>1, <3>1, <1>4 DEF StartsOf
      <3>3. ~Between(c, e, m)
        BY <3>2, <1>5
      <3>4. (c < b \/ e <= c) /\ (m < b \/ e <= m)
        BY <1>1, <1>7
      <3>5. QED
        BY <3>3, <3>4, <1>3, <1>4, <1>5 DEF Between
    <2>2. QED
      BY <2>1, <1>3
  <1>9. \A t \in StartsOf(h) \ {m} : e = m => (t < b <=> t < e)
    <2> SUFFICES ASSUME NEW t \in StartsOf(h), t # m, e = m PROVE t < b <=> t < e
      OBVIOUS
    <2>1. t \in Int
      BY StartsInt
    <2>2. t < b \/ e <= t
      BY <1>7
    <2>3. QED
      BY <2>1, <2>2, <1>4
  <1>10. QED
    BY <1>1, <1>2, <1>6, <1>8, <1>9

(* The first block to be free again.                                       *)
LEMMA FreeFirstSound ==
  ASSUME Sound(hdr, held), Idle = {}, NEW r \in held, NEW b \in r, \A i \in r : b <= i
  PROVE  /\ Sound([hdr EXCEPT ![b].next = b], held \ {r})
         /\ IdleOf(held \ {r}) # {} /\ b \in StartsOf(held \ {r})
  <1>1. /\ Handed(hdr, held) /\ hdr \in [Heap -> Header \cup {Junk}]
        /\ IdleOf(held) = {} /\ StartsOf(held) = {}
    BY Names DEF Sound, StartsOf
  <1>2. /\ b \in Int /\ b \in Heap /\ hdr[b] \in Header /\ hdr[b].size \in Nat \ {0}
        /\ r = Run(b, hdr[b].size)
    BY <1>1, BlockOf
  <1>3. PICK n \in Nat \ {0} : n = hdr[b].size
    BY <1>2
  <1>4. PICK K : K = [hdr EXCEPT ![b].next = b]
    OBVIOUS
  <1>5. [hdr[b] EXCEPT !.next = b] \in Header
    BY <1>2 DEF Header
  <1>6. /\ K \in [Heap -> Header \cup {Junk}] /\ K[b] = [hdr[b] EXCEPT !.next = b]
        /\ \A i \in Heap : i # b => K[i] = hdr[i]
    BY <1>1, <1>2, <1>4, <1>5
  <1>7. K[b] \in Header /\ K[b].next = b /\ K[b].size = n
    BY <1>2, <1>3, <1>5, <1>6 DEF Header
  <1>8. PICK m \in Int : m = b + n
    BY <1>2
  <1>9. r = b..(m - 1) /\ b < m
    BY <1>2, <1>3, <1>8 DEF Run
  <1>10. Grown(held, r, b, m)
    BY <1>1, <1>2, <1>9, IdleGrows
  <1>11. StartsOf(held \ {r}) = {b}
    BY <1>1, <1>10 DEF Grown
  <1>12. Circle(StartsOf(held \ {r}), K)
    BY <1>2, <1>7, <1>11 DEF Circle, Between
  <1>13. \A t \in UNION (held \ {r}) : K[t] = hdr[t]
    <2> SUFFICES ASSUME NEW q \in held \ {r}, NEW t \in q PROVE K[t] = hdr[t]
      OBVIOUS
    <2>1. t \in Heap
      BY <1>1, HeldFacts
    <2>2. t # b
      BY <1>1 DEF Handed
    <2>3. QED
      BY <2>1, <2>2, <1>6
  <1>14. Sound(K, held \ {r})
    <2>1. b - 1 \notin IdleOf(held) /\ m \notin IdleOf(held)
      BY <1>1
    <2>2. Merges(hdr, held, K, b, m, b, n)
      BY <2>1, <1>1, <1>7, <1>8 DEF Merges
    <2>3. b \in Int /\ K \in [Heap -> Header \cup {Junk}]
      BY <1>2, <1>6
    <2>4. QED
      BY <2>2, <2>3, <1>9, <1>12, <1>13, ReleaseSound
  <1>15. QED
    BY <1>4, <1>11, <1>14 DEF StartsOf

(* SCCFreePtr takes the freed block into the list, unless the only free    *)
(* block is absorbed by it.                                                *)
LEMMA PlaceSound ==
  ASSUME Inv, Place
  PROVE  /\ dangling' \in BOOLEAN
         /\ \E r \in held : held' = held \ {r}
         /\ ~dangling' => /\ Sound(hdr', held')
                          /\ IdleOf(held') # {} /\ freeList' \in StartsOf(held')
  <1>1. /\ Sound(hdr, held) /\ Search /\ pc = "place" /\ BelongsHere
        /\ hdr' = Joined /\ freeList' = curr
        /\ dangling' = (hdr[curr].next = curr /\ block + hdr[block].size = curr)
        /\ held' = {r \in held : block \notin r}
    BY DEF Inv, Place
  <1>2. /\ Runs(hdr, held) /\ Covered(hdr, held) /\ Handed(hdr, held)
        /\ Circle(StartsOf(held), hdr) /\ hdr \in [Heap -> Header \cup {Junk}]
    BY <1>1 DEF Sound
  <1>3. curr \in StartsOf(held)
    BY <1>1, Names DEF Search
  <1>4. PICK r \in held : block \in r /\ \A i \in r : block <= i
    BY <1>1 DEF Search
  <1>5. /\ block \in Int /\ block \in Heap /\ block \notin IdleOf(held)
        /\ hdr[block] \in Header /\ hdr[block].size \in Nat \ {0}
        /\ r = Run(block, hdr[block].size) /\ held' = held \ {r}
    BY <1>1, <1>2, <1>4, BlockOf
  <1>6. PICK n \in Nat \ {0} : n = hdr[block].size
    BY <1>5
  <1>7. PICK m \in Int : m = block + n
    BY <1>5
  <1>8. block < m /\ r = block..(m - 1)
    BY <1>5, <1>6, <1>7 DEF Run
  <1>9. Grown(held, r, block, m)
    BY <1>2, <1>5, <1>8, IdleGrows
  <1>10. PICK nx \in StartsOf(held) : nx = hdr[curr].next
    BY <1>2, <1>3 DEF Circle
  <1>11. /\ curr \in Int /\ nx \in Int /\ curr \in Heap /\ nx \in Heap
         /\ curr \in IdleOf(held) /\ nx \in IdleOf(held)
         /\ hdr[curr] \in Header /\ hdr[nx] \in Header
         /\ hdr[curr].size \in Nat \ {0} /\ hdr[nx].size \in Nat \ {0}
         /\ block # curr /\ block # nx /\ hdr[nx].next \in Heap /\ block < m
    <2>1. /\ curr \in Int /\ curr \in Heap /\ curr \in IdleOf(held)
          /\ hdr[curr] \in Header /\ hdr[curr].size \in Nat \ {0}
      BY <1>2, <1>3, StartFacts
    <2>2. /\ nx \in Int /\ nx \in Heap /\ nx \in IdleOf(held)
          /\ hdr[nx] \in Header /\ hdr[nx].size \in Nat \ {0}
      BY <1>2, StartFacts
    <2>3. QED
      BY <2>1, <2>2, <1>5, <1>8 DEF Header
  <1>12. Between(curr, block, nx)
    BY <1>1, <1>5, <1>10, <1>11 DEF BelongsHere, Between
  <1>13. PICK front, rear \in BOOLEAN : /\ front <=> block - 1 \in IdleOf(held)
                                        /\ rear <=> m \in IdleOf(held)
    OBVIOUS
  <1>14. /\ front <=> curr + hdr[curr].size = block
         /\ rear <=> m = nx
         /\ rear => \A t \in StartsOf(held) \ {nx} : t < nx <=> t < block
    <2>1. \A x \in Int : block <= x /\ x < block + n => x \notin IdleOf(held)
      BY <1>7, <1>9 DEF Grown
    <2>2. Between(curr, block, hdr[curr].next)
      BY <1>10, <1>12
    <2>3. /\ block - 1 \in IdleOf(held) <=> curr + hdr[curr].size = block
          /\ block + n \in IdleOf(held) <=> block + n = hdr[curr].next
          /\ \A t \in StartsOf(held) \ {hdr[curr].next} :
               block + n = hdr[curr].next => (t < block <=> t < block + n)
      BY <2>1, <2>2, <1>2, <1>3, <1>5, Neighbours
    <2>4. QED
      BY <2>3, <1>7, <1>10, <1>13
  <1>15. dangling' \in BOOLEAN
    BY <1>1
  <1>16. SUFFICES ASSUME ~dangling'
                  PROVE  /\ Sound(hdr', held')
                         /\ IdleOf(held') # {} /\ freeList' \in StartsOf(held')
    BY <1>5, <1>15
  <1>17. rear => curr # nx
    BY <1>1, <1>6, <1>7, <1>10, <1>14, <1>16
  <1>18. PICK after : after = IF rear THEN hdr[nx].next ELSE nx
    OBVIOUS
  <1>19. PICK len \in Nat \ {0} : len = IF rear THEN n + hdr[nx].size ELSE n
    BY <1>11
  <1>20. PICK M : M = MergedWithNext
    OBVIOUS
  <1>21. PICK one : one = [next |-> after, size |-> len]
    OBVIOUS
  <1>22. one \in Header /\ one.next = after /\ one.size = len
    BY <1>11, <1>18, <1>19, <1>21 DEF Header
  <1>23. /\ M \in [Heap -> Header \cup {Junk}] /\ M[block] = one
         /\ \A i \in Heap : i # block => M[i] = hdr[i]
    <2>1. CASE rear
      <3>1. block + hdr[block].size = nx /\ curr # nx
        BY <2>1, <1>6, <1>7, <1>14, <1>17
      <3>2. M = [hdr EXCEPT ![block] = [next |-> hdr[nx].next,
                                        size |-> hdr[block].size + hdr[nx].size]]
        BY <3>1, <1>10, <1>20 DEF MergedWithNext
      <3>3. M = [hdr EXCEPT ![block] = one]
        BY <2>1, <3>2, <1>6, <1>18, <1>19, <1>21
      <3>4. QED
        BY <3>3, <1>2, <1>5, <1>22
    <2>2. CASE ~rear
      <3>1. block + hdr[block].size # nx
        BY <2>2, <1>6, <1>7, <1>14
      <3>2. M = [hdr EXCEPT ![block].next = nx]
        BY <3>1, <1>10, <1>20 DEF MergedWithNext
      <3>3. [hdr[block] EXCEPT !.next = nx] = one
        BY <2>2, <1>5, <1>6, <1>18, <1>19, <1>21 DEF Header
      <3>4. QED
        BY <3>2, <3>3, <1>2, <1>5, <1>22
    <2>3. QED
      BY <2>1, <2>2
  <1>24. /\ hdr' = IF front THEN [M EXCEPT ![curr] = [next |-> M[block].next,
                                                      size |-> M[curr].size + M[block].size]]
                            ELSE [M EXCEPT ![curr].next = block]
    <2>1. M[curr] = hdr[curr]
      BY <1>11, <1>23
    <2>2. front <=> curr + M[curr].size = block
      BY <2>1, <1>14
    <2>3. QED
      BY <2>2, <1>1, <1>20 DEF Joined
  <1>25. PICK tie : tie = IF front THEN [next |-> after, size |-> hdr[curr].size + len]
                                   ELSE [hdr[curr] EXCEPT !.next = block]
    OBVIOUS
  <1>26. /\ tie \in Header
         /\ tie.next = IF front THEN after ELSE block
         /\ tie.size = IF front THEN hdr[curr].size + len ELSE hdr[curr].size
    BY <1>5, <1>11, <1>22, <1>25 DEF Header
  <1>27. /\ hdr' \in [Heap -> Header \cup {Junk}] /\ hdr'[curr] = tie
         /\ hdr'[block] = one
         /\ \A i \in Heap : i # block /\ i # curr => hdr'[i] = hdr[i]
    <2>1. M[curr] = hdr[curr] /\ M[block] = one
      BY <1>11, <1>23
    <2>2. hdr' = [M EXCEPT ![curr] = tie]
      <3>1. CASE front
        BY <3>1, <2>1, <1>22, <1>24, <1>25
      <3>2. CASE ~front
        BY <3>2, <2>1, <1>11, <1>23, <1>24, <1>25
      <3>3. QED
        BY <3>1, <3>2
    <2>3. QED
      BY <2>1, <2>2, <1>5, <1>11, <1>23, <1>26
  <1>28. \A t \in StartsOf(held) : t \in Heap /\ t # block /\ (t # curr => hdr'[t] = hdr[t])
    BY <1>5, <1>27 DEF StartsOf, IdleOf
  <1>29. StartsOf(held) \in SUBSET Int
    BY StartsInt
  <1>30. \A s \in StartsOf(held) : s # curr => hdr[s].next # nx
    BY <1>2, <1>3, <1>10, <1>29, CirclePredecessor
  <1>31. Circle(StartsOf(held'), hdr')
    <2>1. CASE front /\ ~rear
      <3>1. StartsOf(held') = StartsOf(held)
        <4>1. StartsOf(held') = StartsOf(held) \ {m}
          BY <2>1, <1>5, <1>9, <1>13 DEF Grown
        <4>2. m \notin StartsOf(held)
          BY <2>1, <1>13 DEF StartsOf
        <4>3. QED
          BY <4>1, <4>2
      <3>2. \A s \in StartsOf(held) : hdr'[s].next = hdr[s].next
        BY <2>1, <1>10, <1>18, <1>26, <1>27, <1>28
      <3>3. QED
        BY <3>1, <3>2, <1>2 DEF Circle
    <2>2. CASE ~front /\ ~rear
      <3>1. StartsOf(held') = StartsOf(held) \cup {block}
        <4>1. StartsOf(held') = (StartsOf(held) \ {m}) \cup {block}
          BY <2>2, <1>5, <1>9, <1>13 DEF Grown
        <4>2. m \notin StartsOf(held)
          BY <2>2, <1>13 DEF StartsOf
        <4>3. QED
          BY <4>1, <4>2
      <3>2. hdr'[curr].next = block /\ hdr'[block].next = hdr[curr].next
        BY <2>2, <1>10, <1>18, <1>22, <1>26, <1>27
      <3>3. \A s \in StartsOf(held) \ {curr} : hdr'[s].next = hdr[s].next
        BY <1>28
      <3>4. block \notin StartsOf(held) /\ Between(curr, block, hdr[curr].next)
        BY <1>10, <1>12, <1>28
      <3>5. Circle(StartsOf(held) \cup {block}, hdr')
        BY <3>2, <3>3, <3>4, <1>2, <1>3, <1>5, <1>29, CircleInsert
      <3>6. QED
        BY <3>1, <3>5
    <2>3. CASE ~front /\ rear
      <3>1. StartsOf(held') = (StartsOf(held) \ {nx}) \cup {block}
        BY <2>3, <1>5, <1>9, <1>13, <1>14 DEF Grown
      <3>2. block \notin StartsOf(held) \ {nx}
        BY <1>28
      <3>3. \A t \in StartsOf(held) \ {nx} : t < nx <=> t < block
        BY <2>3, <1>14
      <3>4. hdr'[block].next = IF hdr[nx].next = nx THEN block ELSE hdr[nx].next
        <4>1. hdr[nx].next # nx
          BY <2>3, <1>17, <1>30
        <4>2. QED
          BY <4>1, <2>3, <1>18, <1>22, <1>27
      <3>5. ASSUME NEW s \in StartsOf(held) \ {nx}
            PROVE  hdr'[s].next = IF hdr[s].next = nx THEN block ELSE hdr[s].next
        <4>1. CASE s = curr
          BY <4>1, <2>3, <1>10, <1>26, <1>27
        <4>2. CASE s # curr
          BY <4>2, <1>28, <1>30
        <4>3. QED
          BY <4>1, <4>2
      <3>6. Circle(StartsOf(held), hdr)
        BY <1>2
      <3>7. QED
        BY <3>1, <3>2, <3>3, <3>4, <3>5, <3>6, <1>5, <1>29, CircleRename
    <2>4. CASE front /\ rear
      <3>1. StartsOf(held') = StartsOf(held) \ {nx}
        BY <2>4, <1>5, <1>9, <1>13, <1>14 DEF Grown
      <3>2. curr # nx /\ hdr'[curr].next = hdr[nx].next
        BY <2>4, <1>17, <1>18, <1>26, <1>27
      <3>3. \A s \in StartsOf(held) \ {curr, nx} : hdr'[s].next = hdr[s].next
        BY <1>28
      <3>4. Circle(StartsOf(held) \ {nx}, hdr')
        BY <3>2, <3>3, <1>2, <1>3, <1>10, <1>29, CircleRemove
      <3>5. QED
        BY <3>1, <3>4
    <2>5. QED
      BY <2>1, <2>2, <2>3, <2>4
  <1>32. PICK p, l : p = (IF front THEN curr ELSE block)
                     /\ l = (IF front THEN hdr[curr].size + len ELSE len)
    OBVIOUS
  <1>33. Sound(hdr', held')
    <2>1. p \in Int /\ l \in Nat \ {0} /\ hdr'[p] \in Header /\ hdr'[p].size = l
      BY <1>5, <1>11, <1>22, <1>26, <1>27, <1>32
    <2>2. /\ block - 1 \in IdleOf(held) => p \in StartsOf(held) /\ p + hdr[p].size = block
          /\ block - 1 \notin IdleOf(held) => p = block
      BY <1>3, <1>13, <1>14, <1>32
    <2>3. p + l = block + len
      <3>1. CASE front
        BY <3>1, <1>5, <1>11, <1>14, <1>32
      <3>2. CASE ~front
        BY <3>2, <1>32
      <3>3. QED
        BY <3>1, <3>2
    <2>4. m \notin IdleOf(held) => p + l = m
      BY <2>3, <1>7, <1>13, <1>19
    <2>5. m \in IdleOf(held) => p + l = m + hdr[m].size
      <3>1. SUFFICES ASSUME rear PROVE block + len = nx + hdr[nx].size
        BY <2>3, <1>13, <1>14
      <3>2. block + n = nx /\ len = n + hdr[nx].size
        BY <3>1, <1>7, <1>14, <1>19
      <3>3. QED
        BY <3>2, <1>5, <1>11
    <2>6. ASSUME NEW t \in StartsOf(held) \ {p, m}
          PROVE  hdr'[t] \in Header /\ hdr'[t].size = hdr[t].size
      <3>1. CASE t = curr
        <4>1. ~front
          BY <3>1, <2>6, <1>32
        <4>2. QED
          BY <4>1, <3>1, <1>26, <1>27
      <3>2. CASE t # curr
        BY <3>2, <1>2, <1>28, StartFacts
      <3>3. QED
        BY <3>1, <3>2
    <2>7. ASSUME NEW q \in held \ {r}, NEW t \in q PROVE hdr'[t] = hdr[t]
      <3>1. t \in Heap
        BY <1>2, HeldFacts
      <3>2. t # block /\ t # curr
        BY <1>2, <1>4, <1>11 DEF Handed, IdleOf
      <3>3. QED
        BY <3>1, <3>2, <1>27
    <2>8. \A t \in UNION (held \ {r}) : hdr'[t] = hdr[t]
      BY <2>7
    <2>9. Circle(StartsOf(held \ {r}), hdr')
      BY <1>5, <1>31
    <2>10. hdr' \in [Heap -> Header \cup {Junk}] /\ Sound(hdr, held) /\ block \in Int
      BY <1>1, <1>5, <1>27
    <2>11. Merges(hdr, held, hdr', block, m, p, l)
      BY <2>1, <2>2, <2>4, <2>5, <2>6 DEF Merges
    <2>12. p \in Int /\ l \in Nat \ {0}
      BY <2>1
    <2>13. Sound(hdr', held \ {r})
      BY <2>8, <2>9, <2>10, <2>11, <2>12, <1>8, ReleaseSound
    <2>14. QED
      BY <2>13, <1>5
  <1>34. curr \in StartsOf(held')
    <2>1. curr # m
      BY <1>13, <1>14, <1>11, <1>17
    <2>2. QED
      BY <2>1, <1>3, <1>5, <1>9 DEF Grown
  <1>35. IdleOf(held') # {}
    BY <1>34 DEF StartsOf
  <1>36. QED
    BY <1>1, <1>33, <1>34, <1>35

-----------------------------------------------------------------------------
(***************************************************************************)
(* The invariant.                                                          *)
(***************************************************************************)
(* SCCInit establishes it.                                                 *)
LEMMA InitInv == Init => Inv
  <1> SUFFICES ASSUME Init PROVE Inv
    OBVIOUS
  <1>1. /\ First \in Int /\ First \in Heap /\ First - 1 \notin Heap
        /\ Units \in Nat \ {0} /\ First + Units \notin Heap
        /\ \A x \in Heap : x \in Int /\ First <= x /\ x < First + Units
    BY HeapAssumption DEF Heap
  <1>2. /\ hdr = [i \in Heap |-> IF i = First THEN [next |-> First, size |-> Units] ELSE Junk]
        /\ freeList = First /\ pc = "idle" /\ nunits = 0 /\ held = {} /\ lost = {}
        /\ dangling = FALSE
    BY DEF Init
  <1>3. IdleOf(held) = Heap
    BY <1>2 DEF IdleOf
  <1>4. StartsOf(held) = {First}
    <2>1. ASSUME NEW s \in Heap, s - 1 \notin Heap PROVE s = First
      BY <2>1, HeapAssumption DEF Heap
    <2>2. QED
      BY <2>1, <1>1, <1>3 DEF StartsOf
  <1>5. [next |-> First, size |-> Units] \in Header
    BY <1>1 DEF Header
  <1>6. hdr[First] \in Header /\ hdr[First].next = First /\ hdr[First].size = Units
    BY <1>1, <1>2, <1>5
  <1>7. hdr \in [Heap -> Header \cup {Junk}]
    BY <1>2, <1>5
  <1>8. Run(First, hdr[First].size) = Heap
    BY <1>6 DEF Run, Heap
  <1>9. Runs(hdr, held) /\ Covered(hdr, held)
    BY <1>1, <1>3, <1>4, <1>6, <1>8 DEF Runs, Covered
  <1>10. Handed(hdr, held)
    BY <1>2 DEF Handed
  <1>11. Circle(StartsOf(held), hdr)
    BY <1>1, <1>4, <1>6 DEF Circle, Between
  <1>12. Sound(hdr, held)
    BY <1>7, <1>9, <1>10, <1>11 DEF Sound
  <1>13. Search /\ LeaksOnlyBehindTheEnd
    BY <1>2 DEF Search, CrashOnlyAtTheEnd, LeaksOnlyBehindTheEnd
  <1>14. Idle # {} /\ freeList \in Starts
    BY <1>1, <1>2, <1>3, <1>4, Names
  <1>15. QED
    BY <1>2, <1>12, <1>13, <1>14 DEF Inv

(* Where SCCFreePtr begins.                                                *)
LEMMA FreeInv ==
  ASSUME Inv, NEW r \in held \ lost, Free(r)
  PROVE  Inv'
  <1>1. /\ pc = "idle" /\ ~dangling /\ Sound(hdr, held) /\ Search /\ nunits = 0
        /\ LeaksOnlyBehindTheEnd
        /\ IF Idle = {} THEN freeList = Null ELSE freeList \in Starts
    BY DEF Inv, Free, Search
  <1>2. PICK first \in r :
          /\ \A i \in r : first <= i
          /\ \/ first + 1 <= Units /\ SCCFreePtr(first, r) /\ UNCHANGED lost
             \/ first + 1 > Units /\ lost' = lost \cup {r}
                /\ UNCHANGED <<hdr, freeList, pc, curr, block, held>>
    BY DEF Free
  <1>3. UNCHANGED <<prev, size, nunits, dangling>>
    BY DEF Free
  <1>4. r \in held /\ r \subseteq Int /\ first \in Int
    BY <1>1, HeldFacts DEF Sound
  <1>5. Idle' = IdleOf(held') /\ Starts' = StartsOf(held')
    BY DEF Idle, Starts, IdleOf, StartsOf
  <1>6. Idle = IdleOf(held) /\ Starts = StartsOf(held)
    BY Names
  <1>7. CASE first + 1 <= Units /\ SCCFreePtr(first, r) /\ UNCHANGED lost
    <2>1. LeaksOnlyBehindTheEnd'
      BY <1>1, <1>7 DEF LeaksOnlyBehindTheEnd
    <2>2. CASE freeList = Null
      <3>1. /\ freeList' = first /\ hdr' = [hdr EXCEPT ![first].next = first]
            /\ held' = held \ {r} /\ pc' = pc
        BY <1>7, <2>2 DEF SCCFreePtr
      <3>2. Idle = {}
        <4>1. \A s \in Starts : s \in Int
          BY <1>6, StartsInt
        <4>2. QED
          BY <4>1, <1>1, <2>2, HeapAssumption
      <3>3. Sound(hdr', held') /\ IdleOf(held') # {} /\ freeList' \in StartsOf(held')
        BY <3>1, <3>2, <1>1, <1>2, <1>4, FreeFirstSound
      <3>4. Search'
        BY <3>1, <1>1, <1>3 DEF Search, CrashOnlyAtTheEnd
      <3>5. QED
        BY <3>3, <3>4, <2>1, <1>1, <1>3, <1>5 DEF Inv
    <2>3. CASE freeList # Null
      <3>1. /\ pc' = "place" /\ curr' = freeList /\ block' = first
            /\ hdr' = hdr /\ freeList' = freeList /\ held' = held
        BY <1>7, <2>3 DEF SCCFreePtr
      <3>2. freeList \in Starts /\ Idle # {}
        BY <1>1, <2>3
      <3>3. Idle' = Idle /\ Starts' = Starts
        BY <3>1, <1>5, <1>6
      <3>4. \E q \in held : first \in q /\ \A i \in q : first <= i
        BY <1>2, <1>4
      <3>5. Search'
        BY <3>1, <3>2, <3>3, <3>4, <1>1, <1>3 DEF Search, CrashOnlyAtTheEnd
      <3>6. QED
        BY <3>1, <3>2, <3>3, <3>5, <2>1, <1>1, <1>3 DEF Inv
    <2>4. QED
      BY <2>2, <2>3
  <1>8. CASE first + 1 > Units /\ lost' = lost \cup {r}
             /\ UNCHANGED <<hdr, freeList, pc, curr, block, held>>
    <2>1. r \cap 0..(Units - 1) = {}
      <3>1. \A i \in r : i \in Int /\ first <= i
        BY <1>2, <1>4
      <3>2. \A i \in r : ~(i <= Units - 1)
        BY <3>1, <1>4, <1>8, HeapAssumption
      <3>3. QED
        BY <3>2, HeapAssumption
    <2>2. LeaksOnlyBehindTheEnd'
      BY <2>1, <1>1, <1>8 DEF LeaksOnlyBehindTheEnd
    <2>3. Idle' = Idle /\ Starts' = Starts
      BY <1>5, <1>6, <1>8
    <2>4. Search'
      BY <1>1, <1>3, <1>8 DEF Search, CrashOnlyAtTheEnd
    <2>5. QED
      BY <2>2, <2>3, <2>4, <1>1, <1>3, <1>8 DEF Inv
  <1>9. QED
    BY <1>2, <1>7, <1>8

(* A block that is too small: the search has passed over one more.         *)
LEMMA TooSmallInv ==
  ASSUME Inv, TooSmall
  PROVE  /\ Inv'
         /\ curr = freeList => \A t \in Starts : hdr[t].size < nunits
  <1>1. /\ Sound(hdr, held) /\ ~dangling
        /\ freeList \in StartsOf(held) /\ prev \in StartsOf(held) /\ curr \in StartsOf(held)
        /\ hdr[prev].next = curr /\ nunits \in Nat \ {0} /\ hdr[curr].size \in Nat \ {0}
        /\ size \in Sizes /\ nunits = Nunits(size)
    BY FitFacts DEF TooSmall
  <1>2. /\ pc = "fit" /\ hdr[curr].size < nunits
        /\ UNCHANGED <<hdr, freeList, held, lost, dangling>>
        /\ curr # freeList => /\ prev' = curr /\ curr' = hdr[curr].next
                              /\ UNCHANGED <<pc, size, nunits, block>>
        /\ curr = freeList => Done
    BY DEF TooSmall
  <1>3. /\ LeaksOnlyBehindTheEnd /\ Idle # {}
        /\ \A t \in Starts : Passed(freeList, t, prev) => hdr[t].size < nunits
    BY <1>1, <1>2, Names DEF Inv, Search, StartsOf
  <1>4. Idle' = Idle /\ Starts' = Starts /\ Starts = StartsOf(held)
    BY <1>2, Names DEF Idle, Starts
  <1>5. \A t \in Starts : ~Between(prev, t, curr)
    BY <1>1, <1>4 DEF Sound, Circle
  <1>6. \A t \in Starts : t \in Int
    BY <1>4, StartsInt
  <1>7. ASSUME NEW t \in Starts, t = curr \/ Between(freeList, t, curr)
        PROVE  hdr[t].size < nunits
    <2>1. CASE t = curr
      BY <2>1, <1>2
    <2>2. CASE t # curr
      <3>1. Between(freeList, t, curr) /\ ~Between(prev, t, curr) /\ ~Between(prev, freeList, curr)
        BY <2>2, <1>1, <1>4, <1>5, <1>7
      <3>2. t \in Int /\ freeList \in Int /\ curr \in Int /\ prev \in Int
        BY <1>1, <1>4, <1>6
      <3>3. Passed(freeList, t, prev)
        BY <3>1, <3>2, <2>2 DEF Passed, Between
      <3>4. QED
        BY <3>3, <1>3
    <2>3. QED
      BY <2>1, <2>2
  <1>8. CASE curr = freeList
    <2>1. ASSUME NEW t \in Starts PROVE hdr[t].size < nunits
      <3>1. t = curr \/ Between(freeList, t, curr)
        BY <1>1, <1>4, <1>6, <1>8 DEF Between
      <3>2. QED
        BY <3>1, <1>7
    <2>2. pc' = "idle" /\ nunits' = 0
      BY <1>2, <1>8 DEF Done
    <2>3. Search'
      BY <2>2 DEF Search, CrashOnlyAtTheEnd
    <2>4. Inv'
      BY <2>3, <1>1, <1>2, <1>3, <1>4 DEF Inv, LeaksOnlyBehindTheEnd
    <2>5. QED
      BY <2>1, <2>4
  <1>9. CASE curr # freeList
    <2>1. prev' = curr /\ curr' = hdr[curr].next /\ UNCHANGED <<pc, size, nunits, block>>
      BY <1>2, <1>9
    <2>2. \A t \in Starts : Passed(freeList, t, curr) => hdr[t].size < nunits
      BY <1>7 DEF Passed
    <2>3. Search'
      BY <2>1, <2>2, <1>1, <1>2, <1>4 DEF Search, CrashOnlyAtTheEnd
    <2>4. QED
      BY <2>3, <1>1, <1>2, <1>3, <1>4, <1>9 DEF Inv, LeaksOnlyBehindTheEnd
  <1>10. QED
    BY <1>8, <1>9

(* Every step keeps the invariant.                                         *)
LEMMA NextInv == Inv /\ [Next]_vars => Inv'
  <1> SUFFICES ASSUME Inv, [Next]_vars PROVE Inv'
    OBVIOUS
  <1>1. Idle' = IdleOf(held') /\ Starts' = StartsOf(held')
    BY DEF Idle, Starts, IdleOf, StartsOf
  <1>2. Idle = IdleOf(held) /\ Starts = StartsOf(held)
    BY Names
  <1>3. LeaksOnlyBehindTheEnd /\ dangling \in BOOLEAN
    BY DEF Inv
  <1>4. ASSUME NEW n \in Sizes, Malloc(n) PROVE Inv'
    <2>1. /\ pc = "idle" /\ ~dangling /\ Sound(hdr, held) /\ Search
          /\ UNCHANGED <<hdr, freeList, block, held, lost, dangling>>
          /\ IF Idle = {} THEN freeList = Null ELSE freeList \in Starts
      BY <1>4 DEF Inv, Malloc
    <2>2. Idle' = Idle /\ Starts' = Starts /\ LeaksOnlyBehindTheEnd'
      BY <2>1, <1>1, <1>2, <1>3 DEF LeaksOnlyBehindTheEnd
    <2>3. \A s \in Starts : s \in Int
      BY <1>2, StartsInt
    <2>4. CASE freeList = Null
      <3>1. Idle = {}
        BY <2>1, <2>3, <2>4, HeapAssumption
      <3>2. pc' = "crashed"
        BY <1>4, <2>4 DEF Malloc
      <3>3. Search'
        BY <3>1, <3>2, <2>2 DEF Search, CrashOnlyAtTheEnd
      <3>4. QED
        BY <3>3, <2>1, <2>2 DEF Inv
    <2>5. CASE freeList # Null
      <3>1. pc' = "fit" /\ size' = n /\ nunits' = Nunits(n)
            /\ prev' = freeList /\ curr' = hdr[freeList].next
        BY <1>4, <2>5 DEF Malloc
      <3>2. freeList \in Starts
        BY <2>1, <2>5
      <3>3. \A t : ~Passed(freeList, t, freeList)
        BY DEF Passed
      <3>4. Search'
        BY <3>1, <3>2, <3>3, <2>1, <2>2 DEF Search, CrashOnlyAtTheEnd
      <3>5. QED
        BY <3>4, <2>1, <2>2 DEF Inv
    <2>6. QED
      BY <2>4, <2>5
  <1>5. CASE TakeAll \/ TakeFront
    <2>1. /\ Sound(hdr', held')
          /\ IF IdleOf(held') = {} THEN freeList' = Null ELSE freeList' \in StartsOf(held')
      BY <1>5, TakeAllSound, TakeFrontSound
    <2>2. pc' = "idle" /\ nunits' = 0 /\ lost' = lost /\ dangling' = dangling
      BY <1>5 DEF TakeAll, TakeFront, Grant, Done
    <2>3. ~dangling
      BY <1>5, FitFacts DEF TakeAll, TakeFront
    <2>4. Search' /\ LeaksOnlyBehindTheEnd'
      BY <2>2, <1>3 DEF Search, CrashOnlyAtTheEnd, LeaksOnlyBehindTheEnd
    <2>5. QED
      BY <2>1, <2>2, <2>3, <2>4, <1>1 DEF Inv
  <1>6. CASE TooSmall
    BY <1>6, TooSmallInv
  <1>7. CASE Fault
    <2>1. /\ Sound(hdr, held) /\ ~dangling /\ curr \in StartsOf(held)
      BY <1>7, FitFacts DEF Fault
    <2>2. /\ curr + nunits >= Units /\ pc' = "crashed"
          /\ UNCHANGED <<hdr, freeList, prev, curr, size, nunits, block, held, lost, dangling>>
      BY <1>7 DEF Fault
    <2>3. curr # Null
      BY <2>1, StartsInt, HeapAssumption
    <2>4. Idle' = Idle /\ Starts' = Starts
      BY <2>2, <1>1, <1>2
    <2>5. Search' /\ LeaksOnlyBehindTheEnd'
      BY <2>2, <2>3, <1>3 DEF Search, CrashOnlyAtTheEnd, LeaksOnlyBehindTheEnd
    <2>6. QED
      BY <2>1, <2>2, <2>4, <2>5 DEF Inv
  <1>8. ASSUME NEW r \in held \ lost, Free(r) PROVE Inv'
    BY <1>8, FreeInv
  <1>9. CASE Advance
    <2>1. /\ pc = "place" /\ curr' = hdr[curr].next
          /\ UNCHANGED <<hdr, freeList, pc, prev, size, nunits, block, held, lost, dangling>>
      BY <1>9 DEF Advance
    <2>2. /\ Sound(hdr, held) /\ Search /\ ~dangling
          /\ IF Idle = {} THEN freeList = Null ELSE freeList \in Starts
      BY <2>1 DEF Inv
    <2>3. hdr[curr].next \in Starts
      BY <2>1, <2>2, <1>2 DEF Search, Sound, Circle
    <2>4. Idle' = Idle /\ Starts' = Starts
      BY <2>1, <1>1, <1>2
    <2>5. Search' /\ LeaksOnlyBehindTheEnd'
      BY <2>1, <2>2, <2>3, <2>4, <1>3 DEF Search, CrashOnlyAtTheEnd, LeaksOnlyBehindTheEnd
    <2>6. QED
      BY <2>1, <2>2, <2>4, <2>5 DEF Inv
  <1>10. CASE Place
    <2>1. /\ dangling' \in BOOLEAN
          /\ ~dangling' => /\ Sound(hdr', held')
                           /\ IdleOf(held') # {} /\ freeList' \in StartsOf(held')
      BY <1>10, PlaceSound
    <2>2. pc' = "idle" /\ nunits' = 0 /\ lost' = lost
      BY <1>10 DEF Place, Done
    <2>3. Search' /\ LeaksOnlyBehindTheEnd'
      BY <2>2, <1>3 DEF Search, CrashOnlyAtTheEnd, LeaksOnlyBehindTheEnd
    <2>4. QED
      BY <2>1, <2>2, <2>3, <1>1 DEF Inv
  <1>11. CASE UNCHANGED vars
    BY <1>11 DEF vars, Inv, Search, CrashOnlyAtTheEnd, LeaksOnlyBehindTheEnd, Idle, Starts
  <1>12. QED
    BY <1>4, <1>5, <1>6, <1>7, <1>8, <1>9, <1>10, <1>11 DEF Next, Searching

(* The free list is sound in every state in which freeList does not        *)
(* dangle, and so is what the searches count on.                           *)
THEOREM InvInvariant == Spec => []Inv
  BY InitInv, NextInv, PTL DEF Spec

-----------------------------------------------------------------------------
(***************************************************************************)
(* The properties.                                                         *)
(***************************************************************************)
(* Up to the moment that freeList dangles, the list has one header for     *)
(* each longest run of free units, with its length, and leads round all of *)
(* them in the order of addresses, from freeList too; each block handed    *)
(* out still has its length.                                               *)
THEOREM ListIsSound == Spec => []FreeListSound
  <1>1. Inv => FreeListSound
    <2> SUFFICES ASSUME Inv, ~dangling
                 PROVE  /\ IF Idle = {} THEN freeList = Null ELSE freeList \in Starts
                        /\ \A s \in Starts :
                             LET next == hdr[s].next
                                 end  == s + hdr[s].size
                             IN  /\ Run(s, hdr[s].size) \subseteq Idle /\ end \notin Idle
                                 /\ next \in Starts
                                 /\ \A t \in Starts :
                                      IF s < next THEN t <= s \/ next <= t ELSE next <= t /\ t <= s
                        /\ \A r \in held : \E s \in r : r = Run(s, hdr[s].size)
      BY DEF FreeListSound
    <2>1. /\ Runs(hdr, held) /\ Handed(hdr, held) /\ Circle(StartsOf(held), hdr)
          /\ IF Idle = {} THEN freeList = Null ELSE freeList \in Starts
          /\ Idle = IdleOf(held) /\ Starts = StartsOf(held)
      BY Names DEF Inv, Sound
    <2>2. ASSUME NEW s \in Starts
          PROVE  /\ Run(s, hdr[s].size) \subseteq Idle /\ s + hdr[s].size \notin Idle
                 /\ hdr[s].next \in Starts
                 /\ \A t \in Starts : IF s < hdr[s].next THEN t <= s \/ hdr[s].next <= t
                                                         ELSE hdr[s].next <= t /\ t <= s
      <3>1. Run(s, hdr[s].size) \subseteq Idle /\ s + hdr[s].size \notin Idle
        BY <2>1 DEF Runs
      <3>2. PICK n \in Starts : n = hdr[s].next
        BY <2>1 DEF Circle
      <3>3. ASSUME NEW t \in Starts PROVE IF s < n THEN t <= s \/ n <= t ELSE n <= t /\ t <= s
        <4>1. ~Between(s, t, n)
          BY <2>1, <3>2 DEF Circle
        <4>2. s \in Int /\ t \in Int /\ n \in Int
          BY <2>1, StartsInt
        <4>3. QED
          BY <4>1, <4>2 DEF Between
      <3>4. QED
        BY <3>1, <3>2, <3>3
    <2>3. \A r \in held : \E s \in r : r = Run(s, hdr[s].size)
      BY <2>1, HeldFacts
    <2>4. QED
      BY <2>1, <2>2, <2>3
  <1>2. QED
    BY <1>1, InvInvariant, PTL

(* A program crashes in SCCMallocPtr only with every unit handed out, or   *)
(* when the block it gets reaches to the end of the mapping; and only      *)
(* blocks wholly behind that end leak.                                     *)
THEOREM OnlyTheEndHurts == Spec => []HarmOnlyAtTheEnd
  <1>1. Inv => HarmOnlyAtTheEnd
    BY DEF Inv, Search, CrashOnlyAtTheEnd, HarmOnlyAtTheEnd
  <1>2. QED
    BY <1>1, InvInvariant, PTL

(* The block searched for has room for what was asked, unless the sum in   *)
(* the computation of nunits exceeds a size_t.                             *)
THEOREM RequestsFit == Spec => []RoomForRequest
  <1>1. ASSUME NEW n \in Sizes, n <= SizeMod - UnitBytes
        PROVE  (Nunits(n) - 1) * UnitBytes >= n
    <2>1. n \in Nat /\ SizeMod \in Nat \ {0} /\ UnitBytes \in Nat \ {0}
      BY HeapAssumption
    <2>2. PICK x \in Nat : x = n + UnitBytes - 1
      BY <2>1
    <2>3. x < SizeMod
      BY <2>1, <2>2, <1>1
    <2>4. x % SizeMod = x
      BY <2>1, <2>3
    <2>5. PICK q, o \in Nat : q = x \div UnitBytes /\ o = x % UnitBytes
      BY <2>1
    <2>6. x = q * UnitBytes + o /\ o < UnitBytes
      BY <2>1, <2>5
    <2>7. Nunits(n) = q + 1
      BY <2>2, <2>4, <2>5 DEF Nunits
    <2>8. q * UnitBytes \in Nat
      BY <2>1
    <2>9. q * UnitBytes >= n
      BY <2>1, <2>2, <2>6, <2>8
    <2>10. QED
      BY <2>7, <2>9
  <1>2. Inv => RoomForRequest
    <2> SUFFICES ASSUME Inv, pc = "fit", ~(size > SizeMod - UnitBytes)
                 PROVE  (nunits - 1) * UnitBytes >= size
      BY DEF RoomForRequest
    <2>1. size \in Sizes /\ nunits = Nunits(size)
      BY FitFacts
    <2>2. size <= SizeMod - UnitBytes
      BY <2>1, HeapAssumption
    <2>3. QED
      BY <2>1, <2>2, <1>1
  <1>3. QED
    BY <1>2, InvInvariant, PTL

(* SCCMallocPtr and SCCFreePtr keep the promise of Regions, up to the      *)
(* moment that freeList dangles: the blocks handed out are disjoint and in *)
(* the heap, and NULL is the answer only if no run of that length is free. *)
THEOREM ImplementsRegions == Spec => BlocksSpec
  <1>1. Init => Blocks!Init
    BY DEF Init, Blocks!Init
  <1>2. ASSUME Inv, [Next]_vars PROVE [Blocks!Next]_(Blocks!vars)
    <2> USE DEF Blocks!vars
    <2>1. ASSUME Sound(hdr, held), curr \in StartsOf(held), nunits \in Nat \ {0},
                 nunits \in 1..hdr[curr].size,
                 held' = held \cup {Run(curr, nunits)}, nunits' = 0, ~dangling'
          PROVE  Blocks!Grant
      <3>1. Runs(hdr, held)
        BY <2>1 DEF Sound
      <3>2. Shrunk(held, Run(curr, nunits), curr, hdr[curr].size, nunits)
        BY <2>1, <3>1, IdleShrinks
      <3>3. Run(curr, nunits) \subseteq Heap /\ \A r \in held : r \cap Run(curr, nunits) = {}
        BY <3>2 DEF Shrunk, IdleOf
      <3>4. curr \in Heap
        BY <2>1, StartsInt
      <3>5. Run(curr, nunits) = Blocks!Run(curr, nunits)
        BY DEF Run, Blocks!Run
      <3>6. Blocks!Fits(curr, nunits)
        BY <3>3, <3>5 DEF Blocks!Fits
      <3>7. QED
        BY <2>1, <3>4, <3>5, <3>6 DEF Blocks!Grant
    <2>2. ASSUME NEW n \in Sizes, Malloc(n) PROVE [Blocks!Next]_(Blocks!vars)
      <3>1. /\ pc = "idle" /\ ~dangling /\ UNCHANGED <<held, dangling>>
            /\ (nunits' = nunits \/ nunits' = Nunits(n))
        BY <2>2 DEF Malloc
      <3>2. nunits = 0
        BY <1>2, <3>1 DEF Inv, Search
      <3>3. Nunits(n) \in Nat \ {0}
        BY NunitsFacts
      <3>4. QED
        BY <3>1, <3>2, <3>3 DEF Blocks!Next, Blocks!Ask
    <2>3. CASE TakeAll
      <3>1. Sound(hdr, held) /\ nunits \in Nat \ {0} /\ ~dangling
        BY <1>2, <2>3, FitFacts DEF TakeAll
      <3>2. /\ curr \in StartsOf(held) /\ nunits \in 1..hdr[curr].size
            /\ held' = held \cup {Run(curr, nunits)}
        BY <1>2, <2>3, TakeAllSound
      <3>3. nunits' = 0 /\ dangling' = dangling
        BY <2>3 DEF TakeAll, Grant, Done
      <3>4. QED
        BY <2>1, <3>1, <3>2, <3>3 DEF Blocks!Next
    <2>4. CASE TakeFront
      <3>1. Sound(hdr, held) /\ nunits \in Nat \ {0} /\ ~dangling
        BY <1>2, <2>4, FitFacts DEF TakeFront
      <3>2. /\ curr \in StartsOf(held) /\ nunits \in 1..hdr[curr].size
            /\ held' = held \cup {Run(curr, nunits)}
        BY <1>2, <2>4, TakeFrontSound
      <3>3. nunits' = 0 /\ dangling' = dangling
        BY <2>4 DEF TakeFront, Grant, Done
      <3>4. QED
        BY <2>1, <3>1, <3>2, <3>3 DEF Blocks!Next
    <2>5. CASE TooSmall
      <3>1. /\ Sound(hdr, held) /\ ~dangling /\ nunits \in Nat \ {0}
            /\ UNCHANGED <<held, dangling>>
        BY <1>2, <2>5, FitFacts DEF TooSmall
      <3>2. CASE curr # freeList
        BY <3>1, <3>2, <2>5 DEF TooSmall
      <3>3. CASE curr = freeList
        <4>1. nunits' = 0
          BY <2>5, <3>3 DEF TooSmall, Done
        <4>2. \A t \in StartsOf(held) : hdr[t].size < nunits
          BY <1>2, <2>5, <3>3, TooSmallInv, Names
        <4>3. ASSUME NEW s \in Heap, Blocks!Fits(s, nunits) PROVE FALSE
          <5>1. Run(s, nunits) \subseteq IdleOf(held)
            BY <4>3 DEF Blocks!Fits, Blocks!Run, Run, IdleOf
          <5>2. s \in Int
            BY HeapAssumption DEF Heap
          <5>3. PICK t \in StartsOf(held) : nunits <= hdr[t].size
            BY <3>1, <5>1, <5>2, RoomInRun DEF Sound
          <5>4. hdr[t].size \in Nat
            BY <3>1, StartFacts DEF Sound
          <5>5. QED
            BY <4>2, <5>3, <5>4, <3>1
        <4>4. QED
          BY <3>1, <4>1, <4>3 DEF Blocks!Next, Blocks!Refuse
      <3>4. QED
        BY <3>2, <3>3
    <2>6. CASE Fault \/ Advance
      BY <2>6 DEF Fault, Advance
    <2>7. ASSUME NEW r \in held \ lost, Free(r) PROVE [Blocks!Next]_(Blocks!vars)
      <3>1. /\ pc = "idle" /\ ~dangling /\ UNCHANGED <<nunits, dangling>>
            /\ (held' = held \/ held' = held \ {r})
        BY <2>7 DEF Free, SCCFreePtr
      <3>2. nunits = 0
        BY <1>2, <3>1 DEF Inv, Search
      <3>3. QED
        BY <3>1, <3>2 DEF Blocks!Next, Blocks!Return
    <2>8. CASE Place
      <3>1. nunits = 0 /\ nunits' = 0
        BY <1>2, <2>8 DEF Inv, Search, Place, Done
      <3>2. dangling' \in BOOLEAN /\ \E r \in held : held' = held \ {r}
        BY <1>2, <2>8, PlaceSound
      <3>3. CASE dangling'
        BY <3>3 DEF Blocks!Next, Blocks!Broken
      <3>4. CASE ~dangling'
        BY <3>1, <3>2, <3>4 DEF Blocks!Next, Blocks!Return
      <3>5. QED
        BY <3>3, <3>4
    <2>9. CASE UNCHANGED vars
      BY <2>9 DEF vars
    <2>10. QED
      BY <1>2, <2>2, <2>3, <2>4, <2>5, <2>6, <2>7, <2>8, <2>9 DEF Next, Searching
  <1>3. QED
    BY <1>1, <1>2, InvInvariant, PTL DEF Spec, BlocksSpec, Blocks!Spec
=============================================================================

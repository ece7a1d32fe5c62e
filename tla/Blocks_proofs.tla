--------------------------- MODULE Blocks_proofs ---------------------------
(***************************************************************************)
(* Proofs about the storage of the server as MCBlocks puts it together:    *)
(* the buffer pool finds every block, forgets no modified one, loses no    *)
(* buffer; the mount and extent tables keep their invariants.              *)
(* Each holds whichever part of the storage a behaviour moves.             *)
(***************************************************************************)
EXTENDS MCBlocks, FiniteSetTheorems, SequenceTheorems, WellFoundedInduction, TLAPS

-----------------------------------------------------------------------------
(* The hash table of the pool: slots in a ring, and the loop of rehash that *)
(* closes the hole behind a deleted entry.                                  *)

\* How far below the slot h, going round, the slot s is.
Below(h, s) == IF s <= h THEN h - s ELSE h - s + Size

\* The remainder of what lies between -Size and Size.
LEMMA Modulo ==
  ASSUME NEW n \in Int, -Size < n, n < Size, Size \in Nat \ {0}
  PROVE  n % Size = IF n >= 0 THEN n ELSE n + Size
  OBVIOUS

\* Slot and Below are each other's inverse.
LEMMA Ring ==
  /\ Size \in Nat \ {0}
  /\ \A h \in Slots, j \in Slots : Slot(h, j) \in Slots /\ Below(h, Slot(h, j)) = j
  /\ \A h \in Slots, s \in Slots : Below(h, s) \in Slots /\ Slot(h, Below(h, s)) = s
  <1>0. Size \in Nat \ {0}
    BY PoolAssumption, FS_CardinalityType
  <1>1. ASSUME NEW h \in Slots, NEW j \in Slots
        PROVE  Slot(h, j) = IF j <= h THEN h - j ELSE h - j + Size
    <2>1. h - j \in Int /\ -Size < h - j /\ h - j < Size
      BY <1>0 DEF Slots
    <2> DEFINE n == h - j
    <2>2. n % Size = IF n >= 0 THEN n ELSE n + Size
      <3> HIDE DEF n
      <3> QED BY <1>0, <2>1, Modulo DEF n
    <2> QED BY <1>0, <2>2 DEF Slot, Slots
  <1> QED BY <1>0, <1>1 DEF Slots, Below

Tables == [Slots -> Buf \union {Nil}]
Keys   == [Buf -> ({0} \union Blk) \X Mid]

LEMMA HashInSlots ==
  ASSUME NEW keys \in Keys
  PROVE  \A b \in Buf : HashOf(keys[b]) \in Slots
  <1> TAKE b \in Buf
  <1>1. keys[b][1] \in {0} \union Blk /\ keys[b][2] \in Mid
    BY DEF Keys
  <1> QED BY <1>1, PoolAssumption DEF HashOf, Slots

\* The slot y is probed before x in the search for what is in x.
Before(t, keys, x, y) == Below(HashOf(keys[t[x]]), y) < Below(HashOf(keys[t[x]]), x)

\* While the hole is open: behind the slots visited, entries may have it on
\* their way; those in slots visited do not.
InLoop(st, t, keys, first, e, j) ==
  /\ st.t \in Tables /\ st.hole \in Slots /\ st.end \in BOOLEAN /\ st = [t |-> st.t, hole |-> st.hole, end |-> st.end]
  /\ st.t[st.hole] = Nil
  /\ st.t[e] = Nil /\ st.hole # e
  /\ \A x, y \in Slots : st.t[x] = st.t[y] /\ st.t[x] # Nil => x = y
  /\ \A c \in Buf : (\E x \in Slots : st.t[x] = c) <=> (\E x \in Slots \ {first} : t[x] = c)
  /\ \A x, y \in Slots : st.t[x] # Nil /\ Before(st.t, keys, x, y) => st.t[y] # Nil \/ y = st.hole
Open(st, keys, first, e, j) ==
  /\ Below(first, st.hole) <= j /\ Below(first, e) > j
  /\ \A x \in Slots : st.t[x] # Nil /\ Below(first, x) <= j => ~Before(st.t, keys, x, st.hole)
  /\ \A y \in Slots : Below(first, y) <= j => st.t[y] # Nil \/ y = st.hole
Closed(st, keys) ==
  \A x, y \in Slots : st.t[x] # Nil /\ Before(st.t, keys, x, y) => st.t[y] # Nil
LoopInv(st, t, keys, first, e, j) ==
  /\ InLoop(st, t, keys, first, e, j)
  /\ IF st.end THEN Closed(st, keys) ELSE Open(st, keys, first, e, j)

\* Of three slots on a ring the middle one is on the way to the last.
LEMMA Middle ==
  ASSUME NEW f \in Slots, NEW v \in Slots, NEW a \in Slots, NEW b \in Slots, NEW c \in Slots,
         Below(f, a) < Below(f, b), Below(f, b) < Below(f, c), Below(v, a) < Below(v, c)
  PROVE  Below(v, b) < Below(v, c) /\ Below(v, a) < Below(v, b)
  BY Ring DEF Below, Slots
LEMMA Around ==
  ASSUME NEW f \in Slots, NEW v \in Slots, NEW a \in Slots, NEW b \in Slots, NEW c \in Slots,
         Below(f, c) < Below(f, a), Below(f, a) < Below(f, b), Below(v, a) < Below(v, c)
  PROVE  Below(v, b) < Below(v, c)
  BY Ring DEF Below, Slots
LEMMA WithinIsBefore ==
  ASSUME NEW v \in Slots, NEW at \in Slots, NEW hole \in Slots, at # hole
  PROVE  Within(v, at, hole) <=> Below(v, hole) < Below(v, at)
  BY Ring DEF Below, Slots, Within
LEMMA BelowSame ==
  ASSUME NEW h \in Slots, NEW x \in Slots, NEW y \in Slots, Below(h, x) = Below(h, y)
  PROVE  x = y
  BY Ring DEF Below, Slots

LEMMA LoopStep ==
  ASSUME NEW st, NEW t \in Tables, NEW keys \in Keys, NEW first \in Slots, NEW e \in Slots,
         NEW j \in 1..(Size - 1), LoopInv(st, t, keys, first, e, j - 1)
  PROVE  LoopInv(MovedUp(st, keys, Slot(first, j)), t, keys, first, e, j)
  <1> DEFINE at == Slot(first, j)
             np == st.t[at]
             new == MovedUp(st, keys, at)
  <1>0. at \in Slots /\ Below(first, at) = j /\ j \in Nat /\ e \in Slots
    <2>1. j \in Slots
      BY Ring DEF Slots
    <2> QED BY <2>1, Ring
  <1> HIDE DEF at
  <1>1. /\ st.t \in Tables /\ st.hole \in Slots /\ st.end \in BOOLEAN
        /\ st = [t |-> st.t, hole |-> st.hole, end |-> st.end]
        /\ st.t[st.hole] = Nil /\ st.t[e] = Nil /\ st.hole # e
    BY DEF LoopInv, InLoop
  <1>2. /\ \A x, y \in Slots : st.t[x] = st.t[y] /\ st.t[x] # Nil => x = y
        /\ \A c \in Buf : (\E x \in Slots : st.t[x] = c) <=> (\E x \in Slots \ {first} : t[x] = c)
        /\ \A x, y \in Slots : st.t[x] # Nil /\ Before(st.t, keys, x, y) => st.t[y] # Nil \/ y = st.hole
    BY DEF LoopInv, InLoop
  <1>3. \A x, y \in Slots : Below(x, y) \in Nat
    BY Ring DEF Slots, Below
  <1>4. \A x \in Slots : st.t[x] # Nil => HashOf(keys[st.t[x]]) \in Slots
    BY <1>1, HashInSlots DEF Tables
  <1>5. CASE st.end \/ np = Nil
    <2>1. new = [t |-> st.t, hole |-> st.hole, end |-> TRUE]
      <3>1. new = [st EXCEPT !.end = TRUE]
        BY <1>5 DEF MovedUp
      <3> QED BY <3>1, <1>1
    <2>2. InLoop(new, t, keys, first, e, j)
      BY <2>1, <1>1, <1>2 DEF InLoop
    <2>3. Closed(st, keys)
      <3>1. CASE st.end
        BY <3>1 DEF LoopInv
      <3>2. CASE ~st.end
        <4>1. Open(st, keys, first, e, j - 1) /\ np = Nil
          BY <3>2, <1>5 DEF LoopInv
        <4> SUFFICES ASSUME NEW x \in Slots, st.t[x] # Nil, Before(st.t, keys, x, st.hole)
                     PROVE  FALSE
          BY <1>2 DEF Closed
        <4> DEFINE v == HashOf(keys[st.t[x]])
        <4>2. v \in Slots /\ Below(v, st.hole) < Below(v, x)
          BY <1>4 DEF Before
        <4>3. ~(Below(first, x) <= j - 1) /\ Below(first, st.hole) <= j - 1
          BY <4>1 DEF Open
        <4>4. x # at
          BY <4>1
        <4>5. Below(first, x) > j
          BY <4>3, <4>4, <1>0, <1>3, BelowSame
        <4>6. Below(v, at) < Below(v, x)
          <5> HIDE DEF v
          <5>1. Below(first, st.hole) < Below(first, at) /\ Below(first, at) < Below(first, x)
            BY <1>0, <1>1, <1>3, <4>3, <4>5
          <5> QED BY <5>1, <1>0, <1>1, <4>2, Middle
        <4>7. at = st.hole
          BY <4>6, <4>1, <1>0, <1>2 DEF Before
        <4> QED BY <4>7, <4>3, <1>0, <1>3
      <3> QED BY <3>1, <3>2
    <2>4. Closed(new, keys)
      BY <2>1, <2>3 DEF Closed, Before
    <2>5. new.end = TRUE
      BY <2>1
    <2> QED BY <2>5, <2>2, <2>4 DEF LoopInv, at
  <1>6. CASE ~(st.end \/ np = Nil)
    <2>0. Open(st, keys, first, e, j - 1)
      BY <1>6 DEF LoopInv
    <2>1. at # st.hole /\ at # e /\ np \in Buf /\ HashOf(keys[np]) \in Slots
      BY <1>6, <1>1, <1>0, <1>4 DEF Tables
    <2>2. Below(first, st.hole) <= j /\ Below(first, e) > j
      <3>1. Below(first, e) # j
        BY <2>1, <1>0, BelowSame
      <3> QED BY <3>1, <2>0, <1>0, <1>1, <1>3 DEF Open
    <2>3. CASE ~Within(HashOf(keys[np]), at, st.hole)
      <3>1. new = st
        BY <2>3, <1>6 DEF MovedUp
      <3>2. ~Before(st.t, keys, at, st.hole)
        BY <2>3, <2>1, <1>0, <1>1, WithinIsBefore DEF Before
      <3>3. \A x \in Slots : Below(first, x) <= j => x = at \/ Below(first, x) <= j - 1
        BY <1>0, <1>3, BelowSame
      <3>4. Open(st, keys, first, e, j)
        BY <3>2, <3>3, <2>0, <2>2, <1>6 DEF Open
      <3>5. InLoop(st, t, keys, first, e, j)
        BY DEF LoopInv, InLoop
      <3>6. ~st.end
        BY <1>6
      <3>7. LoopInv(st, t, keys, first, e, j)
        BY <3>4, <3>5, <3>6 DEF LoopInv
      <3> QED BY <3>1, <3>7 DEF at
    <2>4. CASE Within(HashOf(keys[np]), at, st.hole)
      <3> DEFINE u == [st.t EXCEPT ![st.hole] = np, ![at] = Nil]
      <3>1. new = [t |-> u, hole |-> at, end |-> FALSE]
        BY <2>4, <1>6 DEF MovedUp
      <3>2. /\ u \in Tables
            /\ u[at] = Nil /\ u[st.hole] = np
            /\ \A x \in Slots : x # at /\ x # st.hole => u[x] = st.t[x]
        BY <1>0, <1>1, <2>1 DEF Tables
      <3> HIDE DEF u
      <3>3. \A x, y \in Slots : u[x] = u[y] /\ u[x] # Nil => x = y
        BY <3>2, <1>1, <1>2, <1>0, <1>6
      <3>4. \A c \in Buf : (\E x \in Slots : u[x] = c) <=> (\E x \in Slots : st.t[x] = c)
        <4> TAKE c \in Buf
        <4>0. Nil \notin Buf
          BY PoolAssumption
        <4>1. ASSUME NEW x \in Slots, u[x] = c PROVE \E y \in Slots : st.t[y] = c
          BY <4>0, <4>1, <3>2, <1>0, <1>1
        <4>2. ASSUME NEW x \in Slots, st.t[x] = c PROVE \E y \in Slots : u[y] = c
          BY <4>0, <4>2, <3>2, <1>0, <1>1
        <4> QED BY <4>1, <4>2
      <3>5. Before(st.t, keys, at, st.hole)
        BY <2>4, <2>1, <1>0, <1>1, WithinIsBefore DEF Before
      <3>6. ASSUME NEW x \in Slots, NEW y \in Slots, u[x] # Nil, Before(u, keys, x, y)
            PROVE  u[y] # Nil \/ y = at
        <4>1. CASE x = st.hole
          <5>1. Below(HashOf(keys[np]), y) < Below(HashOf(keys[np]), st.hole)
            BY <4>1, <3>6, <3>2 DEF Before
          <5>2. Below(HashOf(keys[np]), st.hole) < Below(HashOf(keys[np]), at)
            BY <3>5 DEF Before
          <5>3. y # st.hole /\ Below(HashOf(keys[np]), y) < Below(HashOf(keys[np]), at)
            BY <5>1, <5>2, <2>1, <1>0, <1>1, <1>3
          <5>4. st.t[y] # Nil
            BY <5>3, <1>0, <1>2, <1>6 DEF Before
          <5> QED BY <5>3, <5>4, <3>2
        <4>2. CASE x # st.hole
          <5>1. x # at /\ u[x] = st.t[x]
            BY <4>2, <3>6, <3>2
          <5>2. st.t[y] # Nil \/ y = st.hole
            BY <5>1, <3>6, <1>2 DEF Before
          <5> QED BY <5>2, <3>2, <1>1, <1>6
        <4> QED BY <4>1, <4>2
      <3>7. ASSUME NEW x \in Slots, u[x] # Nil, Below(first, x) <= j, Before(u, keys, x, at)
            PROVE  FALSE
        <4>1. x # st.hole
          <5> SUFFICES ASSUME x = st.hole PROVE FALSE
            OBVIOUS
          <5>1. Below(HashOf(keys[np]), at) < Below(HashOf(keys[np]), st.hole)
            BY <3>7, <3>2 DEF Before
          <5>2. Below(HashOf(keys[np]), st.hole) < Below(HashOf(keys[np]), at)
            BY <3>5 DEF Before
          <5> QED BY <5>1, <5>2, <2>1, <1>0, <1>1, <1>3
        <4>2. x # at /\ u[x] = st.t[x]
          BY <4>1, <3>7, <3>2
        <4> DEFINE v == HashOf(keys[st.t[x]])
        <4>3. v \in Slots /\ Below(v, at) < Below(v, x)
          BY <4>2, <3>7, <1>4 DEF Before
        <4>4. Below(first, x) < Below(first, at) /\ Below(first, at) < Below(first, e)
          BY <4>2, <3>7, <2>2, <1>0, <1>3, BelowSame
        <4>5. Below(v, e) < Below(v, x)
          <5> HIDE DEF v
          <5> QED BY <4>3, <4>4, <1>0, Around
        <4>6. st.t[e] # Nil \/ e = st.hole
          BY <4>2, <4>5, <3>7, <1>2, <1>0 DEF Before
        <4> QED BY <4>6, <1>1
      <3>8. \A y \in Slots : Below(first, y) <= j => u[y] # Nil \/ y = at
        <4> SUFFICES ASSUME NEW y \in Slots, Below(first, y) <= j, y # at PROVE u[y] # Nil
          OBVIOUS
        <4>1. Below(first, y) <= j - 1
          BY <1>0, <1>3, BelowSame
        <4>2. st.t[y] # Nil \/ y = st.hole
          BY <4>1, <2>0 DEF Open
        <4> QED BY <4>2, <3>2, <1>6
      <3>9. u[e] = Nil /\ at # e
        BY <3>2, <1>1, <1>0, <2>1
      <3>10. new.t = u /\ new.hole = at /\ new.end = FALSE
        BY <3>1
      <3> HIDE DEF new
      <3>11. InLoop(new, t, keys, first, e, j)
        <4>1. \A c \in Buf : (\E x \in Slots : u[x] = c) <=> (\E x \in Slots \ {first} : t[x] = c)
          BY <3>4, <1>2
        <4> QED BY <3>1, <3>2, <3>3, <3>6, <3>9, <3>10, <4>1, <1>0 DEF InLoop
      <3>12. Open(new, keys, first, e, j)
        BY <3>7, <3>8, <3>10, <2>2, <1>0 DEF Open
      <3>13. LoopInv(new, t, keys, first, e, j)
        BY <3>10, <3>11, <3>12 DEF LoopInv
      <3> QED BY <3>13 DEF new, at
    <2> QED BY <2>3, <2>4
  <1> QED BY <1>5, <1>6

\* A set of numbers has a least one.
LEMMA Least ==
  ASSUME NEW J \in SUBSET Nat, J # {}
  PROVE  \E j \in J : \A k \in J : j <= k
  <1>1. PICK j \in J : \A k \in J : ~(<<k, j>> \in OpToRel(<, Nat))
    BY NatLessThanWellFounded, WFMin
  <1>2. \A k \in J : ~(k < j)
    BY <1>1 DEF OpToRel
  <1> QED BY <1>2

\* Induction up to n, for a set.
LEMMA Upto ==
  ASSUME NEW n \in Nat, NEW J, 0 \in J, \A i \in 0..(n - 1) : i \in J => i + 1 \in J
  PROVE  \A i \in 0..n : i \in J
  <1> SUFFICES ASSUME NEW i \in 0..n, i \notin J PROVE FALSE
    OBVIOUS
  <1> DEFINE K == {k \in 0..n : k \notin J}
  <1>1. K \in SUBSET Nat /\ K # {}
    OBVIOUS
  <1>2. PICK k \in K : \A l \in K : k <= l
    BY <1>1, Least
  <1>3. k \in 0..n /\ k \notin J /\ k # 0
    BY <1>2
  <1>4. k - 1 \in 0..(n - 1) /\ k - 1 \in J
    <2>1. k - 1 \in 0..n /\ ~(k <= k - 1)
      BY <1>3
    <2>2. k - 1 \notin K
      BY <2>1, <1>2
    <2> QED BY <1>3, <2>1, <2>2
  <1>5. (k - 1) + 1 \in J
    BY <1>4
  <1> QED BY <1>3, <1>5

\* Iterating a function n times, from a state of S.
Iterates(f, n, S, s, g) ==
  f \in [0..n -> S] /\ f[0] = s /\ \A i \in 1..n : f[i] = g[<<f[i - 1], i>>]
LEMMA Iterate ==
  ASSUME NEW n \in Nat, NEW S, NEW s \in S, NEW g \in [S \X (1..n) -> S]
  PROVE  \E f : Iterates(f, n, S, s, g)
  <1> DEFINE J == {m \in 0..n : \E f \in [0..m -> S] : f[0] = s /\ \A i \in 1..m : f[i] = g[<<f[i - 1], i>>]}
  <1>1. 0 \in J
    <2> DEFINE f == [i \in 0..0 |-> s]
    <2>1. f \in [0..0 -> S] /\ f[0] = s /\ (\A i \in 1..0 : f[i] = g[<<f[i - 1], i>>]) /\ 0 \in 0..n
      OBVIOUS
    <2> HIDE DEF f
    <2> QED BY <2>1
  <1>2. ASSUME NEW m \in 0..(n - 1), m \in J PROVE m + 1 \in J
    <2>1. PICK f \in [0..m -> S] : f[0] = s /\ \A i \in 1..m : f[i] = g[<<f[i - 1], i>>]
      BY <1>2
    <2> DEFINE h == [i \in 0..(m + 1) |-> IF i = m + 1 THEN g[<<f[m], m + 1>>] ELSE f[i]]
    <2>2. \A i \in 0..m : h[i] = f[i]
      OBVIOUS
    <2>3. h[m + 1] = g[<<f[m], m + 1>>] /\ h[m + 1] \in S
      BY <2>1
    <2>4. h \in [0..(m + 1) -> S]
      BY <2>1, <2>3
    <2> HIDE DEF h
    <2>5. h[0] = s
      BY <2>1, <2>2
    <2>6. ASSUME NEW i \in 1..(m + 1) PROVE h[i] = g[<<h[i - 1], i>>]
      <3>1. CASE i = m + 1
        BY <3>1, <2>2, <2>3, SMTT(60)
      <3>2. CASE i # m + 1
        <4>1. i \in 1..m /\ i - 1 \in 0..m /\ i \in 0..m
          BY <3>2
        <4> QED BY <4>1, <2>1, <2>2
      <3> QED BY <3>1, <3>2
    <2> QED BY <2>4, <2>5, <2>6
  <1>3. n \in J
    <2> HIDE DEF J
    <2> QED BY <1>1, <1>2, Upto
  <1> QED BY <1>3 DEF Iterates

IsClosing(q, t, keys, first) ==
  q = [j \in 0..(Size - 1) |->
         IF j = 0 THEN [t |-> [t EXCEPT ![first] = Nil], hole |-> first, end |-> FALSE]
                  ELSE MovedUp(q[j - 1], keys, Slot(first, j))]
LEMMA ClosingIs ==
  ASSUME NEW t, NEW keys, NEW first, NEW f, IsClosing(f, t, keys, first)
  PROVE  \E q : Closing(t, keys, first) = q[Size - 1].t /\ IsClosing(q, t, keys, first)
  BY DEF Closing, IsClosing

LEMMA MovedUpType ==
  ASSUME NEW st \in [t : Tables, hole : Slots, end : BOOLEAN], NEW keys, NEW at \in Slots
  PROVE  MovedUp(st, keys, at) \in [t : Tables, hole : Slots, end : BOOLEAN]
  <1>1. st.t \in Tables /\ st.hole \in Slots /\ st.end \in BOOLEAN /\ st = [t |-> st.t, hole |-> st.hole, end |-> st.end]
    OBVIOUS
  <1>2. CASE st.end \/ st.t[at] = Nil
    <2> DEFINE yes == TRUE
    <2>1. yes \in BOOLEAN /\ MovedUp(st, keys, at) = [st EXCEPT !.end = yes]
      BY <1>2 DEF MovedUp
    <2> HIDE DEF yes
    <2> QED BY <2>1, <1>1
  <1>3. CASE ~(st.end \/ st.t[at] = Nil) /\ ~Within(HashOf(keys[st.t[at]]), at, st.hole)
    BY <1>3 DEF MovedUp
  <1>4. CASE ~(st.end \/ st.t[at] = Nil) /\ Within(HashOf(keys[st.t[at]]), at, st.hole)
    <2> DEFINE u == [st.t EXCEPT ![st.hole] = st.t[at], ![at] = Nil]
    <2>1. MovedUp(st, keys, at) = [t |-> u, hole |-> at, end |-> FALSE]
      BY <1>4 DEF MovedUp
    <2>2. u \in Tables
      BY <1>1 DEF Tables
    <2> QED BY <2>1, <2>2
  <1> QED BY <1>2, <1>3, <1>4

\* The loop of rehash, round by round.
LEMMA ClosingRec ==
  ASSUME NEW t \in Tables, NEW keys, NEW first \in Slots
  PROVE  \E q : /\ Closing(t, keys, first) = q[Size - 1].t
                /\ q[0] = [t |-> [t EXCEPT ![first] = Nil], hole |-> first, end |-> FALSE]
                /\ \A i \in 1..(Size - 1) : q[i] = MovedUp(q[i - 1], keys, Slot(first, i))
  <1> DEFINE n == Size - 1
             S == [t : Tables, hole : Slots, end : BOOLEAN]
             base == [t |-> [t EXCEPT ![first] = Nil], hole |-> first, end |-> FALSE]
             g == [p \in S \X (1..n) |-> MovedUp(p[1], keys, Slot(first, p[2]))]
  <1>0. n \in Nat /\ 0..(Size - 1) = Slots /\ \A j \in 1..n : j \in Slots /\ Slot(first, j) \in Slots
    <2>1. n \in Nat /\ 0..(Size - 1) = Slots /\ \A j \in 1..n : j \in Slots
      BY Ring DEF Slots
    <2> HIDE DEF n
    <2> QED BY <2>1, Ring
  <1>1. /\ [t EXCEPT ![first] = Nil] \in Tables
        /\ [t EXCEPT ![first] = Nil][first] = Nil
        /\ \A x \in Slots : x # first => [t EXCEPT ![first] = Nil][x] = t[x]
    BY DEF Tables
  <1>2. base \in S
    BY <1>1
  <1>3. g \in [S \X (1..n) -> S]
    <2> SUFFICES ASSUME NEW p \in S \X (1..n) PROVE MovedUp(p[1], keys, Slot(first, p[2])) \in S
      OBVIOUS
    <2> QED BY <1>0, MovedUpType
  <1>4. PICK f : Iterates(f, n, S, base, g)
    <2> HIDE DEF g, S, base, n
    <2>1. n \in Nat
      BY <1>0
    <2>2. base \in S /\ g \in [S \X (1..n) -> S]
      BY <1>2, <1>3
    <2> QED BY <2>1, <2>2, Iterate
  <1>5. \A i \in 1..n : f[i] = MovedUp(f[i - 1], keys, Slot(first, i))
    <2> TAKE i \in 1..n
    <2>1. i - 1 \in 0..n
      BY <1>0
    <2>2. <<f[i - 1], i>> \in S \X (1..n) /\ f[i] = g[<<f[i - 1], i>>]
      BY <2>1, <1>4 DEF Iterates
    <2> QED BY <2>2
  <1>6. f = [j \in 0..(Size - 1) |-> IF j = 0 THEN base ELSE MovedUp(f[j - 1], keys, Slot(first, j))]
    <2> HIDE DEF S, base, g
    <2>1. \A j \in 0..n : f[j] = IF j = 0 THEN base ELSE MovedUp(f[j - 1], keys, Slot(first, j))
      BY <1>4, <1>5 DEF Iterates
    <2> QED BY <2>1, <1>4 DEF Iterates
  <1>7. PICK q : /\ Closing(t, keys, first) = q[n].t
                 /\ q = [j \in 0..(Size - 1) |-> IF j = 0 THEN base ELSE MovedUp(q[j - 1], keys, Slot(first, j))]
    <2>1. IsClosing(f, t, keys, first)
      BY <1>6 DEF IsClosing
    <2> HIDE DEF S, g, n, base
    <2>2. \E q : Closing(t, keys, first) = q[Size - 1].t /\ IsClosing(q, t, keys, first)
      BY <2>1, ClosingIs
    <2> QED BY <2>2 DEF IsClosing, n, base
  <1> HIDE DEF g, S
  <1>8. q[0] = base /\ \A i \in 1..n : q[i] = MovedUp(q[i - 1], keys, Slot(first, i))
    <2> HIDE DEF base
    <2>1. \A i \in 0..n : q[i] = IF i = 0 THEN base ELSE MovedUp(q[i - 1], keys, Slot(first, i))
      BY <1>7
    <2> QED BY <2>1, <1>0
  <1> HIDE DEF base
  <1>9. Closing(t, keys, first) = q[n].t
    BY <1>7
  <1> QED BY <1>8, <1>9 DEF base, n

\* The table it leaves is one.
LEMMA ClosingType ==
  ASSUME NEW t \in Tables, NEW keys, NEW first \in Slots
  PROVE  Closing(t, keys, first) \in Tables
  <1> DEFINE n == Size - 1
             S == [t : Tables, hole : Slots, end : BOOLEAN]
             base == [t |-> [t EXCEPT ![first] = Nil], hole |-> first, end |-> FALSE]
  <1>0. n \in Nat /\ \A j \in 1..n : j \in Slots /\ Slot(first, j) \in Slots
    <2>1. n \in Nat /\ \A j \in 1..n : j \in Slots
      BY Ring DEF Slots
    <2> HIDE DEF n
    <2> QED BY <2>1, Ring
  <1>1. base \in S
    <2>1. [t EXCEPT ![first] = Nil] \in Tables
      BY DEF Tables
    <2> QED BY <2>1
  <1>2. PICK q : Closing(t, keys, first) = q[n].t /\ q[0] = base
                 /\ \A i \in 1..n : q[i] = MovedUp(q[i - 1], keys, Slot(first, i))
    BY ClosingRec
  <1> HIDE DEF base
  <1> DEFINE J == {i \in 0..n : q[i] \in S}
  <1>3. 0 \in J
    BY <1>0, <1>1, <1>2
  <1>4. ASSUME NEW i \in 0..(n - 1), i \in J PROVE i + 1 \in J
    <2>1. i + 1 \in 1..n /\ i + 1 \in 0..n /\ (i + 1) - 1 = i
      BY <1>0
    <2>2. q[i + 1] = MovedUp(q[i], keys, Slot(first, i + 1)) /\ q[i] \in S
      BY <2>1, <1>2, <1>4
    <2> QED BY <2>1, <2>2, <1>0, MovedUpType
  <1>5. n \in J
    <2> HIDE DEF n, J
    <2>1. \A i \in 0..n : i \in J
      BY <1>0, <1>3, <1>4, Upto
    <2> QED BY <2>1, <1>0
  <1> QED BY <1>2, <1>5

\* What the loop of rehash leaves: every other entry is still there, once, and
\* no empty slot is on the way to one.
LEMMA ClosesUp ==
  ASSUME NEW t \in Tables, NEW keys \in Keys, NEW first \in Slots, NEW e \in Slots, e # first, t[e] = Nil,
         \A x, y \in Slots \ {first} : t[x] = t[y] /\ t[x] # Nil => x = y,
         \A x \in Slots \ {first}, y \in Slots : t[x] # Nil /\ Before(t, keys, x, y) => t[y] # Nil
  PROVE  LET u == Closing(t, keys, first)
         IN  /\ u \in Tables
             /\ \A x, y \in Slots : u[x] = u[y] /\ u[x] # Nil => x = y
             /\ \A c \in Buf : (\E x \in Slots : u[x] = c) <=> (\E x \in Slots \ {first} : t[x] = c)
             /\ \A x, y \in Slots : u[x] # Nil /\ Before(u, keys, x, y) => u[y] # Nil
  <1> DEFINE n == Size - 1
             base == [t |-> [t EXCEPT ![first] = Nil], hole |-> first, end |-> FALSE]
  <1>0. n \in Nat
    BY Ring
  <1>1. /\ [t EXCEPT ![first] = Nil] \in Tables
        /\ [t EXCEPT ![first] = Nil][first] = Nil
        /\ \A x \in Slots : x # first => [t EXCEPT ![first] = Nil][x] = t[x]
    BY DEF Tables
  <1>7. PICK q : /\ Closing(t, keys, first) = q[n].t /\ q[0] = base
                 /\ \A i \in 1..n : q[i] = MovedUp(q[i - 1], keys, Slot(first, i))
    BY ClosingRec
  <1>8. q[0] = base /\ \A i \in 1..n : q[i] = MovedUp(q[i - 1], keys, Slot(first, i))
    BY <1>7
  <1> DEFINE J == {i \in 0..n : LoopInv(q[i], t, keys, first, e, i)}
  <1>9. 0 \in J
    <2> DEFINE u == [t EXCEPT ![first] = Nil]
    <2>1. u \in Tables /\ u[first] = Nil /\ u[e] = Nil /\ \A x \in Slots : x # first => u[x] = t[x]
      BY <1>1
    <2> HIDE DEF u
    <2>2. q[0].t = u /\ q[0].hole = first /\ q[0].end = FALSE /\ q[0] = [t |-> u, hole |-> first, end |-> FALSE]
      BY <1>8 DEF u
    <2>3. /\ Below(first, first) = 0 /\ Below(first, e) > 0
          /\ \A x \in Slots : Below(first, x) <= 0 => x = first
      <3>1. Size \in Nat
        BY Ring
      <3> HIDE DEF base, n, u
      <3> QED BY <3>1 DEF Below, Slots
    <2>4. \A c \in Buf : (\E x \in Slots : u[x] = c) <=> (\E x \in Slots \ {first} : t[x] = c)
      <3>1. Nil \notin Buf
        BY PoolAssumption
      <3> QED BY <2>1, <3>1
    <2>5. \A x, y \in Slots : u[x] = u[y] /\ u[x] # Nil => x = y
      BY <2>1
    <2>6. \A x, y \in Slots : u[x] # Nil /\ Before(u, keys, x, y) => u[y] # Nil \/ y = first
      BY <2>1 DEF Before
    <2>7. InLoop(q[0], t, keys, first, e, 0)
      BY <2>1, <2>2, <2>4, <2>5, <2>6 DEF InLoop
    <2>8. Open(q[0], keys, first, e, 0)
      BY <2>1, <2>2, <2>3 DEF Open
    <2> QED BY <2>2, <2>7, <2>8, <1>0 DEF LoopInv
  <1>10. ASSUME NEW i \in 0..(n - 1), i \in J PROVE i + 1 \in J
    <2>1. i + 1 \in 1..(Size - 1) /\ (i + 1) - 1 = i /\ i + 1 \in 0..n
      BY <1>0
    <2>2. LoopInv(q[i], t, keys, first, e, (i + 1) - 1)
      BY <1>10, <2>1
    <2>3. LoopInv(MovedUp(q[i], keys, Slot(first, i + 1)), t, keys, first, e, i + 1)
      BY <2>1, <2>2, LoopStep
    <2> QED BY <2>1, <2>3, <1>8
  <1>11. LoopInv(q[n], t, keys, first, e, n)
    <2>0. n \in Nat /\ 0 \in J /\ \A i \in 0..(n - 1) : i \in J => i + 1 \in J
      BY <1>0, <1>9, <1>10
    <2>1. n \in J
      <3> HIDE DEF n, J
      <3>1. \A i \in 0..n : i \in J
        BY <2>0, Upto
      <3> QED BY <3>1, <2>0
    <2> QED BY <2>1 DEF J
  <1>12. q[n].end /\ Closed(q[n], keys) /\ InLoop(q[n], t, keys, first, e, n)
    <2>1. Below(first, e) \in Slots
      BY Ring
    <2>2. Below(first, e) \in Nat /\ ~(Below(first, e) > n)
      <3>1. Size \in Nat
        BY Ring
      <3> HIDE DEF base, J
      <3> QED BY <2>1, <3>1 DEF Slots
    <2> QED BY <1>11, <2>2 DEF LoopInv, Open
  <1>13. Closing(t, keys, first) = q[n].t
    BY <1>7
  <1> HIDE DEF n, base, J
  <1> QED BY <1>12, <1>13 DEF InLoop, Closed

-----------------------------------------------------------------------------
(* A probe, and what a table in order lets it find.                         *)

\* What the search for goal from h finds.
LEMMA ProbeFirst ==
  ASSUME NEW t, NEW h \in Slots, NEW goal, NEW s \in Slots, t[s] = Nil \/ s \in goal
  PROVE  LET k == Probes(t, h, goal)
         IN  /\ k \in Slots /\ k < Size /\ Slot(h, k) \in Slots
             /\ t[Slot(h, k)] = Nil \/ Slot(h, k) \in goal
             /\ \A y \in Slots : Below(h, y) < Below(h, Slot(h, k)) => t[y] # Nil /\ y \notin goal
  <1> DEFINE K == {k \in 0..(Size - 1) : t[Slot(h, k)] = Nil \/ Slot(h, k) \in goal}
             p == CHOOSE k \in K : \A j \in K : k <= j
  <1>0. Size \in Nat /\ 0..(Size - 1) = Slots
    BY Ring DEF Slots
  <1>1. Below(h, s) \in K
    BY Ring, <1>0
  <1>2. K \in SUBSET Nat /\ K # {}
    BY <1>0, <1>1
  <1>3. \E k \in K : \A j \in K : k <= j
    <2> HIDE DEF K
    <2> QED BY <1>2, Least
  <1>4. p \in K /\ \A j \in K : p <= j
    <2> HIDE DEF K
    <2> QED BY <1>3
  <1>5. Probes(t, h, goal) = p
    BY <1>2 DEF Probes
  <1> HIDE DEF p
  <1>6. p \in Slots /\ p < Size /\ Slot(h, p) \in Slots /\ Below(h, Slot(h, p)) = p
    <2>1. p \in 0..(Size - 1)
      BY <1>4
    <2> QED BY <2>1, <1>0, Ring
  <1>7. t[Slot(h, p)] = Nil \/ Slot(h, p) \in goal
    BY <1>4
  <1>8. ASSUME NEW y \in Slots, Below(h, y) < p PROVE t[y] # Nil /\ y \notin goal
    <2>1. Below(h, y) \in Slots /\ Slot(h, Below(h, y)) = y
      BY Ring
    <2>2. ~(p <= Below(h, y))
      BY <2>1, <1>8, <1>6, <1>0
    <2>3. Below(h, y) \notin K
      BY <2>2, <1>4
    <2> QED BY <2>1, <2>3, <1>0
  <1> QED BY <1>5, <1>6, <1>7, <1>8

LEMMA ProbeEnds ==
  ASSUME NEW t, NEW h \in Slots, NEW goal, NEW s \in Slots, t[s] = Nil \/ s \in goal,
         \A y \in Slots : Below(h, y) < Below(h, s) => t[y] # Nil /\ y \notin goal
  PROVE  Probes(t, h, goal) < Size /\ Slot(h, Probes(t, h, goal)) = s
  <1> DEFINE k == Probes(t, h, goal)
             p == Slot(h, k)
  <1>1. /\ k < Size /\ p \in Slots
        /\ t[p] = Nil \/ p \in goal
        /\ \A y \in Slots : Below(h, y) < Below(h, p) => t[y] # Nil /\ y \notin goal
    BY ProbeFirst
  <1> HIDE DEF p
  <1>2. ~(Below(h, s) < Below(h, p)) /\ ~(Below(h, p) < Below(h, s))
    BY <1>1
  <1>3. p = s
    <2>1. Below(h, s) \in Slots /\ Below(h, p) \in Slots
      BY <1>1, Ring
    <2>2. Below(h, s) \in Nat /\ Below(h, p) \in Nat
      BY <2>1 DEF Slots
    <2> QED BY <1>1, <1>2, <2>2, BelowSame
  <1> QED BY <1>1, <1>3 DEF p

\* There are more slots than buffers: besides any slot another one is empty.
LEMMA Empty ==
  ASSUME NEW t \in Tables, \A x, y \in Slots : t[x] = t[y] /\ t[x] # Nil => x = y, NEW s \in Slots
  PROVE  \E e \in Slots : e # s /\ t[e] = Nil
  <1> SUFFICES ASSUME \A x \in Slots \ {s} : t[x] # Nil PROVE FALSE
    OBVIOUS
  <1> DEFINE D == Slots \ {s}
             f == [x \in D |-> t[x]]
  <1>1. f \in [D -> Buf]
    BY DEF Tables
  <1>2. IsFiniteSet(Slots) /\ Cardinality(Slots) = Size
    BY Ring, FS_Interval DEF Slots
  <1>3. IsFiniteSet(D) /\ Cardinality(D) = Size - 1
    BY <1>2, FS_RemoveElement
  <1>4. IsFiniteSet(Buf) /\ Cardinality(Buf) < Cardinality(D)
    BY <1>3, PoolAssumption, FS_CardinalityType
  <1>5. PICK x, y \in D : x # y /\ f[x] = f[y]
    <2> HIDE DEF D, f
    <2> QED BY <1>1, <1>3, <1>4, FS_PigeonHole
  <1> QED BY <1>5

\* rehash of a buffer that is in no other slot than keep changes nothing.
LEMMA RehashSame ==
  ASSUME NEW t, NEW keys, NEW bp, NEW h \in Slots, NEW keep,
         \A x \in Slots : t[x] = bp => x = keep, \E e \in Slots : t[e] = Nil
  PROVE  Rehash(t, keys, bp, h, keep) = t
  <1>1. {x \in Slots : t[x] = bp} \ {keep} = {}
    OBVIOUS
  <1>2. t[Slot(h, Probes(t, h, {}))] = Nil
    BY ProbeFirst
  <1> QED BY <1>1, <1>2 DEF Rehash

\* rehash deletes the entry it finds.
LEMMA RehashDeletes ==
  ASSUME NEW t, NEW keys, NEW bp, NEW h \in Slots, NEW keep, NEW o \in Slots,
         bp # Nil, t[o] = bp, o # keep, \A x \in Slots : t[x] = bp => x \in {o, keep},
         \A y \in Slots : Below(h, y) < Below(h, o) => t[y] # Nil
  PROVE  Rehash(t, keys, bp, h, keep) = Closing(t, keys, o)
  <1>1. {x \in Slots : t[x] = bp} \ {keep} = {o}
    OBVIOUS
  <1>2. \A y \in Slots : Below(h, y) < Below(h, o) => t[y] # Nil /\ y \notin {o}
    BY Ring DEF Slots
  <1>3. Probes(t, h, {o}) < Size /\ Slot(h, Probes(t, h, {o})) = o
    BY <1>2, ProbeEnds
  <1> QED BY <1>1, <1>3, Ring DEF Rehash

\* Each block is in one buffer, that buffer in one slot, and no empty slot is
\* on the way from the block's hash value to it.
HashInv(t, keys) ==
  /\ t \in Tables /\ keys \in Keys
  /\ \A x, y \in Slots : t[x] = t[y] /\ t[x] # Nil => x = y
  /\ \A x \in Slots : t[x] # Nil => keys[t[x]][1] # 0
  /\ \A b \in Buf : keys[b][1] # 0 => \E x \in Slots : t[x] = b
  /\ \A x, y \in Slots : t[x] # Nil /\ Before(t, keys, x, y) => t[y] # Nil
  /\ \A b, c \in Buf : keys[b] = keys[c] /\ keys[b][1] # 0 => b = c

\* Where indexOf ends.
LEMMA IndexIs ==
  ASSUME NEW t, NEW keys, HashInv(t, keys), NEW o \in Slots, t[o] # Nil, NEW goal, o \in goal,
         \A x \in goal : x \in Slots => t[x] = t[o]
  PROVE  Probes(t, HashOf(keys[t[o]]), goal) < Size
         /\ Slot(HashOf(keys[t[o]]), Probes(t, HashOf(keys[t[o]]), goal)) = o
  <1> DEFINE h == HashOf(keys[t[o]])
  <1>1. h \in Slots
    BY HashInSlots DEF HashInv, Tables
  <1>2. \A y \in Slots : Below(h, y) < Below(h, o) => t[y] # Nil
    BY DEF HashInv, Before
  <1>3. \A y \in goal : y \in Slots => y = o
    BY DEF HashInv
  <1>4. \A y \in Slots : Below(h, y) < Below(h, o) => y \notin goal
    <2>1. Below(h, o) \in Nat
      BY <1>1, Ring DEF Slots
    <2> QED BY <1>3, <2>1
  <1> HIDE DEF h
  <1>5. Probes(t, h, goal) < Size /\ Slot(h, Probes(t, h, goal)) = o
    BY <1>1, <1>2, <1>4, ProbeEnds
  <1> QED BY <1>5 DEF h

\* BlocksFound, from the invariant of the hash table.
LEMMA HashFinds ==
  ASSUME HashInv(table, key)
  PROVE  BlocksFound
  <1>1. ASSUME NEW b \in Buf, key[b][1] # 0 PROVE Ends(key[b]) /\ table[Lookup(key[b])] = b
    <2>1. PICK o \in Slots : table[o] = b
      BY <1>1 DEF HashInv
    <2>2. table[o] # Nil
      BY <2>1, PoolAssumption
    <2>3. o \in Holding(key[b]) /\ \A x \in Holding(key[b]) : x \in Slots => table[x] = table[o]
      <3>1. ASSUME NEW x \in Slots, table[x] # Nil, key[table[x]] = key[b] PROVE table[x] = b
        <4>1. table[x] \in Buf
          BY <3>1 DEF HashInv, Tables
        <4> QED BY <4>1, <3>1, <1>1 DEF HashInv
      <3> QED BY <3>1, <2>1, <2>2 DEF Holding
    <2> DEFINE goal == Holding(key[b])
    <2>4. Probes(table, HashOf(key[b]), goal) < Size
          /\ Slot(HashOf(key[b]), Probes(table, HashOf(key[b]), goal)) = o
      <3> HIDE DEF goal
      <3>1. o \in goal /\ \A x \in goal : x \in Slots => table[x] = table[o]
        BY <2>3 DEF goal
      <3> QED BY <3>1, <2>1, <2>2, IndexIs
    <2> QED BY <2>1, <2>4 DEF Ends, Lookup
  <1>2. \E s \in Slots : table[s] = Nil
    <2>1. 0 \in Slots
      BY Ring DEF Slots
    <2> QED BY <2>1, Empty DEF HashInv
  <1> QED BY <1>1, <1>2 DEF BlocksFound

-----------------------------------------------------------------------------
(* A buffer reused for another block, and one cleared.                      *)

\* A block found nowhere is in no buffer, and the way to where its search ended
\* has no empty slot.
LEMMA NotFound ==
  ASSUME HashInv(table, key), NEW k \in Blk \X Mid, Ends(k), table[Lookup(k)] = Nil
  PROVE  /\ Lookup(k) \in Slots /\ HashOf(k) \in Slots
         /\ \A b \in Buf : key[b] # k
         /\ \A y \in Slots : Below(HashOf(k), y) < Below(HashOf(k), Lookup(k)) => table[y] # Nil
  <1>0. HashOf(k) \in Slots
    BY PoolAssumption DEF HashOf, Slots
  <1>1. \E e \in Slots : table[e] = Nil
    <2>1. 0 \in Slots
      BY Ring DEF Slots
    <2> QED BY <2>1, Empty DEF HashInv
  <1> DEFINE goal == Holding(k)
             p == Slot(HashOf(k), Probes(table, HashOf(k), goal))
  <1>2. /\ p \in Slots
        /\ \A y \in Slots : Below(HashOf(k), y) < Below(HashOf(k), p) => table[y] # Nil /\ y \notin goal
    <2> HIDE DEF goal
    <2> QED BY <1>0, <1>1, ProbeFirst
  <1>3. Lookup(k) = p
    BY DEF Lookup
  <1>4. ASSUME NEW b \in Buf, key[b] = k PROVE FALSE
    <2>1. k[1] # 0
      BY PoolAssumption
    <2>2. PICK o \in Slots : table[o] = b
      BY <1>4, <2>1 DEF HashInv
    <2>3. table[o] # Nil
      BY <2>2, PoolAssumption
    <2>4. o \in goal /\ \A x \in goal : x \in Slots => table[x] = table[o]
      <3>1. ASSUME NEW x \in Slots, table[x] # Nil, key[table[x]] = key[b] PROVE table[x] = b
        <4>1. table[x] \in Buf
          BY <3>1 DEF HashInv, Tables
        <4> QED BY <4>1, <3>1, <2>1, <1>4 DEF HashInv
      <3> QED BY <3>1, <2>2, <2>3, <1>4 DEF Holding
    <2>5. p = o
      <3> HIDE DEF goal
      <3>1. Slot(HashOf(key[table[o]]), Probes(table, HashOf(key[table[o]]), goal)) = o
        BY <2>3, <2>4, IndexIs
      <3> QED BY <3>1, <2>2, <1>4
    <2> QED BY <2>5, <2>3, <1>3
  <1> HIDE DEF p
  <1> QED BY <1>0, <1>2, <1>3, <1>4

\* find: the buffer b is given the block k, in the slot where its search ended,
\* and its old entry is deleted.
LEMMA Reused ==
  ASSUME NEW t, NEW keys, HashInv(t, keys), NEW k \in Blk \X Mid, NEW b \in Buf, NEW s \in Slots,
         HashOf(k) \in Slots, t[s] = Nil, \A c \in Buf : keys[c] # k,
         \A y \in Slots : Below(HashOf(k), y) < Below(HashOf(k), s) => t[y] # Nil
  PROVE  HashInv(Rehash([t EXCEPT ![s] = b], [keys EXCEPT ![b] = k], b, HashOf(keys[b]), s),
                 [keys EXCEPT ![b] = k])
  <1> DEFINE u == [t EXCEPT ![s] = b]
             new == [keys EXCEPT ![b] = k]
             r == Rehash(u, new, b, HashOf(keys[b]), s)
  <1>0. /\ t \in Tables /\ keys \in Keys /\ Nil \notin Buf /\ k[1] # 0
        /\ HashOf(keys[b]) \in Slots
    BY HashInSlots, PoolAssumption DEF HashInv
  <1>1. u \in Tables /\ u[s] = b /\ \A x \in Slots : x # s => u[x] = t[x]
    BY <1>0 DEF Tables
  <1>2. new \in Keys /\ new[b] = k /\ \A c \in Buf : c # b => new[c] = keys[c]
    BY <1>0 DEF Keys
  <1> HIDE DEF u, new
  <1>3. \A c, d \in Buf : new[c] = new[d] /\ new[c][1] # 0 => c = d
    BY <1>2 DEF HashInv
  <1>4. \A x \in Slots : u[x] # Nil => new[u[x]][1] # 0
    <2> SUFFICES ASSUME NEW x \in Slots, u[x] # Nil, u[x] # b PROVE new[u[x]][1] # 0
      BY <1>0, <1>2
    <2>1. u[x] = t[x] /\ t[x] \in Buf
      BY <1>0, <1>1 DEF Tables
    <2> QED BY <2>1, <1>2 DEF HashInv
  <1>5. \A c \in Buf : new[c][1] # 0 => \E x \in Slots : u[x] = c /\ (c # b => t[x] = c)
    <2> TAKE c \in Buf
    <2>1. CASE c = b
      BY <2>1, <1>1
    <2>2. ASSUME c # b, new[c][1] # 0 PROVE \E x \in Slots : u[x] = c /\ t[x] = c
      <3>1. PICK x \in Slots : t[x] = c
        BY <2>2, <1>2 DEF HashInv
      <3>2. x # s
        BY <3>1, <1>0
      <3> QED BY <3>1, <3>2, <1>1
    <2> QED BY <2>1, <2>2
  \* The ways to the entries that are not the old one of b.
  <1>6. ASSUME NEW x \in Slots, NEW y \in Slots, u[x] # Nil, x = s \/ t[x] # b, Before(u, new, x, y)
        PROVE  u[y] # Nil
    <2>0. y = s \/ t[y] = u[y]
      BY <1>1
    <2>1. CASE x = s
      <3>1. Below(HashOf(k), y) < Below(HashOf(k), s)
        BY <2>1, <1>6, <1>1, <1>2 DEF Before
      <3> QED BY <3>1, <2>0, <1>0, <1>1
    <2>2. CASE x # s
      <3>1. u[x] = t[x] /\ t[x] \in Buf /\ new[t[x]] = keys[t[x]]
        BY <2>2, <1>6, <1>0, <1>1, <1>2 DEF Tables
      <3>2. Before(t, keys, x, y)
        BY <3>1, <1>6 DEF Before
      <3>3. t[y] # Nil
        BY <3>1, <3>2, <1>6 DEF HashInv
      <3> QED BY <3>3, <2>0, <1>0, <1>1
    <2> QED BY <2>1, <2>2
  <1>7. PICK e \in Slots : e # s /\ t[e] = Nil
    BY <1>0, Empty DEF HashInv
  <1>8. u[e] = Nil
    BY <1>1, <1>7
  <1>9. CASE \A x \in Slots : t[x] # b
    <2>1. \A x \in Slots : u[x] = b => x = s
      BY <1>9, <1>1
    <2>2. r = u
      BY <2>1, <1>0, <1>8, RehashSame
    <2>3. \A x, y \in Slots : u[x] = u[y] /\ u[x] # Nil => x = y
      BY <2>1, <1>1 DEF HashInv
    <2>4. HashInv(u, new)
      BY <2>3, <1>1, <1>2, <1>3, <1>4, <1>5, <1>6, <1>9 DEF HashInv
    <2> HIDE DEF r
    <2>5. HashInv(r, new)
      BY <2>2, <2>4
    <2> QED BY <2>5 DEF r, u, new
  <1>10. ASSUME NEW o \in Slots, t[o] = b PROVE HashInv(r, new)
    <2>1. o # s /\ u[o] = b /\ o # e
      BY <1>10, <1>0, <1>1, <1>7
    <2>2. \A x \in Slots : t[x] = b => x = o
      BY <1>10, <1>0 DEF HashInv
    <2>3. \A x \in Slots : u[x] = b => x \in {o, s}
      BY <2>2, <1>1
    <2>4. \A y \in Slots : Below(HashOf(keys[b]), y) < Below(HashOf(keys[b]), o) => u[y] # Nil
      <3> SUFFICES ASSUME NEW y \in Slots, Below(HashOf(keys[b]), y) < Below(HashOf(keys[b]), o)
                   PROVE  u[y] # Nil
        OBVIOUS
      <3>1. Before(t, keys, o, y)
        BY <1>10 DEF Before
      <3>2. t[y] # Nil
        BY <3>1, <1>10, <1>0 DEF HashInv
      <3> QED BY <3>2, <1>0, <1>1
    <2>5. r = Closing(u, new, o)
      BY <2>1, <2>3, <2>4, <1>0, RehashDeletes
    <2>6. \A x, y \in Slots \ {o} : u[x] = u[y] /\ u[x] # Nil => x = y
      BY <2>1, <2>2, <1>1 DEF HashInv
    <2>7. \A x \in Slots \ {o}, y \in Slots : u[x] # Nil /\ Before(u, new, x, y) => u[y] # Nil
      BY <2>2, <1>6
    <2> HIDE DEF r
    <2> DEFINE c == Closing(u, new, o)
    <2>8. /\ c \in Tables
          /\ \A x, y \in Slots : c[x] = c[y] /\ c[x] # Nil => x = y
          /\ \A d \in Buf : (\E x \in Slots : c[x] = d) <=> (\E x \in Slots \ {o} : u[x] = d)
          /\ \A x, y \in Slots : c[x] # Nil /\ Before(c, new, x, y) => c[y] # Nil
      BY <2>1, <2>6, <2>7, <1>1, <1>2, <1>8, ClosesUp
    <2> HIDE DEF c
    <2>9. \A x \in Slots : c[x] # Nil => new[c[x]][1] # 0
      <3> SUFFICES ASSUME NEW x \in Slots, c[x] # Nil PROVE new[c[x]][1] # 0
        OBVIOUS
      <3>1. c[x] \in Buf
        BY <2>8 DEF Tables
      <3>2. PICK z \in Slots : u[z] = c[x]
        BY <3>1, <2>8
      <3> QED BY <3>1, <3>2, <1>0, <1>4
    <2>10. \A d \in Buf : new[d][1] # 0 => \E x \in Slots : c[x] = d
      <3> SUFFICES ASSUME NEW d \in Buf, new[d][1] # 0 PROVE \E x \in Slots \ {o} : u[x] = d
        BY <2>8
      <3>1. CASE d = b
        BY <3>1, <1>1, <2>1
      <3>2. CASE d # b
        <4>1. PICK x \in Slots : u[x] = d /\ t[x] = d
          BY <3>2, <1>5
        <4>2. x # o
          BY <4>1, <3>2, <1>10
        <4> QED BY <4>1, <4>2
      <3> QED BY <3>1, <3>2
    <2>11. HashInv(c, new)
      BY <2>8, <2>9, <2>10, <1>2, <1>3 DEF HashInv
    <2> QED BY <2>11, <2>5 DEF c
  <1>11. HashInv(r, new)
    <2> HIDE DEF r
    <2> QED BY <1>9, <1>10 DEF r, u, new
  <1> QED BY <1>11 DEF r, u, new

\* clear: the entry of b is deleted.
LEMMA Cleared ==
  ASSUME NEW t, NEW keys, HashInv(t, keys), NEW b \in Buf
  PROVE  HashInv(Rehash(t, keys, b, HashOf(keys[b]), 0-1), [keys EXCEPT ![b] = <<0, @[2]>>])
  <1> DEFINE new == [keys EXCEPT ![b] = <<0, @[2]>>]
             r == Rehash(t, keys, b, HashOf(keys[b]), 0-1)
  <1>0. /\ t \in Tables /\ keys \in Keys /\ Nil \notin Buf /\ HashOf(keys[b]) \in Slots
    BY HashInSlots, PoolAssumption DEF HashInv
  <1>1. new \in Keys /\ new[b] = <<0, keys[b][2]>> /\ \A c \in Buf : c # b => new[c] = keys[c]
    BY <1>0 DEF Keys
  <1> HIDE DEF new
  <1>2. \A c, d \in Buf : new[c] = new[d] /\ new[c][1] # 0 => c = d
    BY <1>1 DEF HashInv
  <1>3. PICK e \in Slots : t[e] = Nil
    <2>1. 0 \in Slots
      BY Ring DEF Slots
    <2> QED BY <2>1, <1>0, Empty DEF HashInv
  <1>4. CASE \A x \in Slots : t[x] # b
    <2>1. r = t
      BY <1>4, <1>0, <1>3, RehashSame
    <2> HIDE DEF r
    <2>2. \A x \in Slots : t[x] # Nil => t[x] \in Buf /\ new[t[x]] = keys[t[x]]
      BY <1>0, <1>1, <1>4 DEF Tables
    <2>3. \A x, y \in Slots : t[x] # Nil /\ Before(t, new, x, y) => t[y] # Nil
      BY <2>2 DEF HashInv, Before
    <2>4. \A x \in Slots : t[x] # Nil => new[t[x]][1] # 0
      BY <2>2 DEF HashInv
    <2>5. \A c \in Buf : new[c][1] # 0 => \E x \in Slots : t[x] = c
      BY <1>1 DEF HashInv
    <2>6. HashInv(t, new)
      BY <2>3, <2>4, <2>5, <1>0, <1>1, <1>2 DEF HashInv
    <2>7. HashInv(r, new)
      BY <2>1, <2>6
    <2> QED BY <2>7 DEF r, new
  <1>5. ASSUME NEW o \in Slots, t[o] = b PROVE HashInv(r, new)
    <2>1. o # e /\ \A x \in Slots : t[x] = b => x \in {o, 0-1}
      BY <1>5, <1>0, <1>3 DEF HashInv
    <2>2. \A y \in Slots : Below(HashOf(keys[b]), y) < Below(HashOf(keys[b]), o) => t[y] # Nil
      BY <1>5, <1>0 DEF HashInv, Before
    <2>3. r = Closing(t, keys, o)
      <3>1. o # 0-1
        BY Ring DEF Slots
      <3> QED BY <3>1, <2>1, <2>2, <1>5, <1>0, RehashDeletes
    <2> HIDE DEF r
    <2> DEFINE c == Closing(t, keys, o)
    <2>4. /\ c \in Tables
          /\ \A x, y \in Slots : c[x] = c[y] /\ c[x] # Nil => x = y
          /\ \A d \in Buf : (\E x \in Slots : c[x] = d) <=> (\E x \in Slots \ {o} : t[x] = d)
          /\ \A x, y \in Slots : c[x] # Nil /\ Before(c, keys, x, y) => c[y] # Nil
      <3>1. \A x, y \in Slots \ {o} : t[x] = t[y] /\ t[x] # Nil => x = y
        BY DEF HashInv
      <3>2. \A x \in Slots \ {o}, y \in Slots : t[x] # Nil /\ Before(t, keys, x, y) => t[y] # Nil
        BY DEF HashInv
      <3> QED BY <3>1, <3>2, <2>1, <1>0, <1>3, ClosesUp
    <2> HIDE DEF c
    <2>5. \A x \in Slots : c[x] # Nil => c[x] \in Buf /\ c[x] # b /\ \E z \in Slots : t[z] = c[x]
      <3> SUFFICES ASSUME NEW x \in Slots, c[x] # Nil
                   PROVE  c[x] \in Buf /\ c[x] # b /\ \E z \in Slots : t[z] = c[x]
        OBVIOUS
      <3>1. c[x] \in Buf
        BY <2>4 DEF Tables
      <3>2. PICK z \in Slots \ {o} : t[z] = c[x]
        BY <3>1, <2>4
      <3>3. t[z] # b
        BY <3>1, <3>2, <1>5, <1>0 DEF HashInv
      <3> QED BY <3>1, <3>2, <3>3
    <2>6. \A x \in Slots : c[x] # Nil => new[c[x]] = keys[c[x]]
      BY <2>5, <1>1
    <2>7. \A x \in Slots : c[x] # Nil => new[c[x]][1] # 0
      <3> SUFFICES ASSUME NEW x \in Slots, c[x] # Nil PROVE keys[c[x]][1] # 0
        BY <2>6
      <3>1. PICK z \in Slots : t[z] = c[x]
        BY <2>5
      <3> QED BY <3>1 DEF HashInv
    <2>8. \A d \in Buf : new[d][1] # 0 => \E x \in Slots : c[x] = d
      <3> SUFFICES ASSUME NEW d \in Buf, new[d][1] # 0 PROVE \E x \in Slots \ {o} : t[x] = d
        BY <2>4
      <3>1. d # b /\ keys[d][1] # 0
        BY <1>1
      <3>2. PICK x \in Slots : t[x] = d
        BY <3>1 DEF HashInv
      <3> QED BY <3>1, <3>2, <1>5
    <2>9. \A x, y \in Slots : c[x] # Nil /\ Before(c, new, x, y) => c[y] # Nil
      BY <2>4, <2>6 DEF Before
    <2>10. HashInv(c, new)
      BY <2>4, <2>7, <2>8, <2>9, <1>1, <1>2 DEF HashInv
    <2> QED BY <2>10, <2>3 DEF c
  <1>6. HashInv(r, new)
    <2> HIDE DEF r
    <2> QED BY <1>4, <1>5 DEF r, new
  <1> QED BY <1>6 DEF r, new

-----------------------------------------------------------------------------
(* The loops of get, sync and clear: types, and their values step by step.  *)

LEMMA ReleaseType ==
  ASSUME NEW c \in Seq(Buf), NEW b \in Buf
  PROVE  Release(c, b) \in Seq(Buf)
  <1>1. CASE "LOW" \in flags[b] /\ Len(c) > 1
    <2>1. SubSeq(c, 1, Len(c) - 2) \in Seq(Buf) /\ SubSeq(c, Len(c) - 1, Len(c)) \in Seq(Buf)
      BY <1>1, SubSeqProperties
    <2>2. <<b>> \in Seq(Buf)
      OBVIOUS
    <2>3. SubSeq(c, 1, Len(c) - 2) \o <<b>> \o SubSeq(c, Len(c) - 1, Len(c)) \in Seq(Buf)
      BY <2>1, <2>2, ConcatProperties
    <2> QED BY <1>1, <2>3 DEF Release
  <1>2. CASE ~("LOW" \in flags[b] /\ Len(c) > 1)
    BY <1>2, AppendProperties DEF Release
  <1> QED BY <1>1, <1>2

LEMMA TouchType ==
  ASSUME NEW t \in Seq(Buf), NEW b \in Buf
  PROVE  Touch(t, b) \in Seq(Buf)
  BY AppendProperties DEF Touch

Flushing == [t : Seq(Buf), f : [Buf -> SUBSET {"MOD", "CHK", "LOW"}]]
Clearing == [t : Tables, k : Keys]

\* The flags a sync leaves.
LEMMA WrittenType ==
  ASSUME NEW m, NEW t \in Seq(Buf), NEW f \in [Buf -> SUBSET {"MOD", "CHK", "LOW"}], NEW lim
  PROVE  Written(m, t, f, lim) \in [Buf -> SUBSET {"MOD", "CHK", "LOW"}]
  BY DEF Written

LEMMA RehashType ==
  ASSUME NEW t \in Tables, NEW keys, NEW bp, NEW h \in Slots, NEW keep
  PROVE  Rehash(t, keys, bp, h, keep) \in Tables
  <1> DEFINE goal == {x \in Slots : t[x] = bp} \ {keep}
             k == Probes(t, h, goal)
  <1>1. CASE \E s \in Slots : t[s] = Nil \/ s \in goal
    <2>1. Slot(h, k) \in Slots
      <3> HIDE DEF goal
      <3> QED BY <1>1, ProbeFirst
    <2> QED BY <2>1, ClosingType DEF Rehash
  <1>2. CASE ~\E s \in Slots : t[s] = Nil \/ s \in goal
    <2>1. \A j \in 0..(Size - 1) : Slot(h, j) \in Slots
      BY Ring DEF Slots
    <2>2. k = Size
      BY <1>2, <2>1 DEF Probes
    <2> QED BY <2>2 DEF Rehash
  <1> QED BY <1>1, <1>2

LEMMA ClearType ==
  ASSUME NEW st \in Clearing, NEW b \in Buf
  PROVE  Clear(st, b) \in Clearing
  <1>1. st.t \in Tables /\ st.k \in Keys /\ HashOf(st.k[b]) \in Slots
    BY HashInSlots DEF Clearing
  <1>2. [st.k EXCEPT ![b] = <<0, @[2]>>] \in Keys
    BY <1>1 DEF Keys
  <1>3. Rehash(st.t, st.k, b, HashOf(st.k[b]), 0-1) \in Tables
    BY <1>1, RehashType
  <1> QED BY <1>2, <1>3 DEF Clear, Clearing

\* The loops of get, round by round.
IsReleaseAll(q, c, s) ==
  q = [i \in 0..Len(s) |-> IF i = 0 THEN c ELSE Release(q[i - 1], s[Len(s) + 1 - i])]
LEMMA ReleaseAllIs ==
  ASSUME NEW c, NEW s, NEW f, IsReleaseAll(f, c, s)
  PROVE  \E q : ReleaseAll(c, s) = q[Len(s)] /\ IsReleaseAll(q, c, s)
  BY DEF ReleaseAll, IsReleaseAll
LEMMA ReleaseAllRec ==
  ASSUME NEW c \in Seq(Buf), NEW s \in Seq(Buf)
  PROVE  \E q : /\ ReleaseAll(c, s) = q[Len(s)] /\ q[0] = c
                /\ \A i \in 0..Len(s) : q[i] \in Seq(Buf)
                /\ \A i \in 1..Len(s) : q[i] = Release(q[i - 1], s[Len(s) + 1 - i])
  <1> DEFINE n == Len(s)
             S == Seq(Buf)
             g == [p \in S \X (1..n) |-> Release(p[1], s[Len(s) + 1 - p[2]])]
  <1>0. n \in Nat
    OBVIOUS
  <1>1. c \in S
    OBVIOUS
  <1>2. \A r \in S : \A i \in 1..n : Release(r, s[Len(s) + 1 - i]) \in S
    <2> SUFFICES ASSUME NEW r \in Seq(Buf), NEW i \in 1..Len(s) PROVE Release(r, s[Len(s) + 1 - i]) \in Seq(Buf)
      OBVIOUS
    <2>1. s[Len(s) + 1 - i] \in Buf
      BY ElementOfSeq
    <2> QED BY <2>1, ReleaseType
  <1>3. g \in [S \X (1..n) -> S]
    <2> HIDE DEF S, n
    <2> QED BY <1>2
  <1>4. PICK f : Iterates(f, n, S, c, g)
    <2> DEFINE b == c
    <2>1. b \in S
      BY <1>1
    <2> HIDE DEF g, S, n, b
    <2>2. \E f : Iterates(f, n, S, b, g)
      BY <1>0, <1>3, <2>1, Iterate
    <2> QED BY <2>2 DEF b
  <1>5. \A i \in 1..n : f[i - 1] \in S /\ f[i] = Release(f[i - 1], s[Len(s) + 1 - i])
    <2> HIDE DEF S
    <2> SUFFICES ASSUME NEW i \in 1..n PROVE f[i - 1] \in S /\ f[i] = Release(f[i - 1], s[Len(s) + 1 - i])
      OBVIOUS
    <2>1. i - 1 \in 0..n
      BY <1>0
    <2>2. <<f[i - 1], i>> \in S \X (1..n) /\ f[i] = g[<<f[i - 1], i>>]
      BY <2>1, <1>4 DEF Iterates
    <2> QED BY <2>2
  <1>6. f = [i \in 0..n |-> IF i = 0 THEN c ELSE Release(f[i - 1], s[Len(s) + 1 - i])]
    <2> HIDE DEF S, g, n
    <2>1. \A i \in 0..n : f[i] = IF i = 0 THEN c ELSE Release(f[i - 1], s[Len(s) + 1 - i])
      <3> TAKE i \in 0..n
      <3>1. CASE i = 0
        BY <3>1, <1>4 DEF Iterates
      <3>2. CASE i # 0
        <4>1. i \in 1..n
          BY <3>2, <1>0
        <4> QED BY <4>1, <3>2, <1>5
      <3> QED BY <3>1, <3>2
    <2> QED BY <2>1, <1>4 DEF Iterates
  <1>7. PICK q : ReleaseAll(c, s) = q[n] /\ IsReleaseAll(q, c, s)
    <2>1. IsReleaseAll(f, c, s)
      BY <1>6 DEF IsReleaseAll
    <2> HIDE DEF S, g, n
    <2> QED BY <2>1, ReleaseAllIs DEF n
  <1>8. q[0] = c /\ \A i \in 1..n : q[i] = Release(q[i - 1], s[Len(s) + 1 - i])
    <2>1. \A i \in 0..n : q[i] = IF i = 0 THEN c ELSE Release(q[i - 1], s[Len(s) + 1 - i])
      BY <1>7 DEF IsReleaseAll
    <2> HIDE DEF n
    <2> QED BY <2>1, <1>0
  <1> DEFINE J == {i \in 0..n : q[i] \in S}
  <1>9. 0 \in J
    <2> HIDE DEF S
    <2> QED BY <1>0, <1>1, <1>8
  <1>10. ASSUME NEW i \in 0..(n - 1), i \in J PROVE i + 1 \in J
    <2> HIDE DEF S
    <2>1. i + 1 \in 1..n /\ i + 1 \in 0..n /\ (i + 1) - 1 = i /\ q[i] \in S
      BY <1>0, <1>10
    <2> QED BY <2>1, <1>2, <1>8
  <1>11. \A i \in 0..n : q[i] \in S
    <2> HIDE DEF n, J, S
    <2>1. \A i \in 0..n : i \in J
      BY <1>0, <1>9, <1>10, Upto
    <2> QED BY <2>1 DEF J
  <1>12. ReleaseAll(c, s) = q[n]
    BY <1>7
  <1> QED BY <1>8, <1>11, <1>12

\* And of the touched array.
IsTouchAll(q, c, s) ==
  q = [i \in 0..Len(s) |-> IF i = 0 THEN c ELSE Touch(q[i - 1], s[Len(s) + 1 - i])]
LEMMA TouchAllIs ==
  ASSUME NEW c, NEW s, NEW f, IsTouchAll(f, c, s)
  PROVE  \E q : TouchAll(c, s) = q[Len(s)] /\ IsTouchAll(q, c, s)
  BY DEF TouchAll, IsTouchAll
LEMMA TouchAllRec ==
  ASSUME NEW c \in Seq(Buf), NEW s \in Seq(Buf)
  PROVE  \E q : /\ TouchAll(c, s) = q[Len(s)] /\ q[0] = c
                /\ \A i \in 0..Len(s) : q[i] \in Seq(Buf)
                /\ \A i \in 1..Len(s) : q[i] = Touch(q[i - 1], s[Len(s) + 1 - i])
  <1> DEFINE n == Len(s)
             S == Seq(Buf)
             g == [p \in S \X (1..n) |-> Touch(p[1], s[Len(s) + 1 - p[2]])]
  <1>0. n \in Nat
    OBVIOUS
  <1>1. c \in S
    OBVIOUS
  <1>2. \A r \in S : \A i \in 1..n : Touch(r, s[Len(s) + 1 - i]) \in S
    <2> SUFFICES ASSUME NEW r \in Seq(Buf), NEW i \in 1..Len(s) PROVE Touch(r, s[Len(s) + 1 - i]) \in Seq(Buf)
      OBVIOUS
    <2>1. s[Len(s) + 1 - i] \in Buf
      BY ElementOfSeq
    <2> QED BY <2>1, TouchType
  <1>3. g \in [S \X (1..n) -> S]
    <2> HIDE DEF S, n
    <2> QED BY <1>2
  <1>4. PICK f : Iterates(f, n, S, c, g)
    <2> DEFINE b == c
    <2>1. b \in S
      BY <1>1
    <2> HIDE DEF g, S, n, b
    <2>2. \E f : Iterates(f, n, S, b, g)
      BY <1>0, <1>3, <2>1, Iterate
    <2> QED BY <2>2 DEF b
  <1>5. \A i \in 1..n : f[i - 1] \in S /\ f[i] = Touch(f[i - 1], s[Len(s) + 1 - i])
    <2> HIDE DEF S
    <2> SUFFICES ASSUME NEW i \in 1..n PROVE f[i - 1] \in S /\ f[i] = Touch(f[i - 1], s[Len(s) + 1 - i])
      OBVIOUS
    <2>1. i - 1 \in 0..n
      BY <1>0
    <2>2. <<f[i - 1], i>> \in S \X (1..n) /\ f[i] = g[<<f[i - 1], i>>]
      BY <2>1, <1>4 DEF Iterates
    <2> QED BY <2>2
  <1>6. f = [i \in 0..n |-> IF i = 0 THEN c ELSE Touch(f[i - 1], s[Len(s) + 1 - i])]
    <2> HIDE DEF S, g, n
    <2>1. \A i \in 0..n : f[i] = IF i = 0 THEN c ELSE Touch(f[i - 1], s[Len(s) + 1 - i])
      <3> TAKE i \in 0..n
      <3>1. CASE i = 0
        BY <3>1, <1>4 DEF Iterates
      <3>2. CASE i # 0
        <4>1. i \in 1..n
          BY <3>2, <1>0
        <4> QED BY <4>1, <3>2, <1>5
      <3> QED BY <3>1, <3>2
    <2> QED BY <2>1, <1>4 DEF Iterates
  <1>7. PICK q : TouchAll(c, s) = q[n] /\ IsTouchAll(q, c, s)
    <2>1. IsTouchAll(f, c, s)
      BY <1>6 DEF IsTouchAll
    <2> HIDE DEF S, g, n
    <2> QED BY <2>1, TouchAllIs DEF n
  <1>8. q[0] = c /\ \A i \in 1..n : q[i] = Touch(q[i - 1], s[Len(s) + 1 - i])
    <2>1. \A i \in 0..n : q[i] = IF i = 0 THEN c ELSE Touch(q[i - 1], s[Len(s) + 1 - i])
      BY <1>7 DEF IsTouchAll
    <2> HIDE DEF n
    <2> QED BY <2>1, <1>0
  <1> DEFINE J == {i \in 0..n : q[i] \in S}
  <1>9. 0 \in J
    <2> HIDE DEF S
    <2> QED BY <1>0, <1>1, <1>8
  <1>10. ASSUME NEW i \in 0..(n - 1), i \in J PROVE i + 1 \in J
    <2> HIDE DEF S
    <2>1. i + 1 \in 1..n /\ i + 1 \in 0..n /\ (i + 1) - 1 = i /\ q[i] \in S
      BY <1>0, <1>10
    <2> QED BY <2>1, <1>2, <1>8
  <1>11. \A i \in 0..n : q[i] \in S
    <2> HIDE DEF n, J, S
    <2>1. \A i \in 0..n : i \in J
      BY <1>0, <1>9, <1>10, Upto
    <2> QED BY <2>1 DEF J
  <1>12. TouchAll(c, s) = q[n]
    BY <1>7
  <1> QED BY <1>8, <1>11, <1>12

\* The elements of a sequence that are in M, one by one.
IsKept(q, t, M) ==
  q = [i \in 0..Len(t) |-> IF i = 0 THEN <<>> ELSE (IF t[i] \in M THEN Append(q[i - 1], t[i]) ELSE q[i - 1])]
LEMMA KeptIs ==
  ASSUME NEW t, NEW M, NEW f, IsKept(f, t, M)
  PROVE  \E q : Kept(t, M) = q[Len(t)] /\ IsKept(q, t, M)
  BY DEF Kept, IsKept
KeptBy(q, t, M) ==
  /\ Kept(t, M) = q[Len(t)] /\ q[0] = <<>>
  /\ \A i \in 0..Len(t) : q[i] \in Seq(Buf)
  /\ \A i \in 1..Len(t) : q[i] = (IF t[i] \in M THEN Append(q[i - 1], t[i]) ELSE q[i - 1])
LEMMA KeptRec ==
  ASSUME NEW t \in Seq(Buf), NEW M
  PROVE  \E q : KeptBy(q, t, M)
  <1> DEFINE n == Len(t)
             S == Seq(Buf)
             g == [p \in S \X (1..n) |-> (IF t[p[2]] \in M THEN Append(p[1], t[p[2]]) ELSE p[1])]
  <1>0. n \in Nat
    OBVIOUS
  <1>1. <<>> \in S
    BY EmptySeq
  <1>2. \A r \in S : \A i \in 1..n : (IF t[i] \in M THEN Append(r, t[i]) ELSE r) \in S
    BY ElementOfSeq, AppendProperties
  <1>3. g \in [S \X (1..n) -> S]
    <2> HIDE DEF S, n
    <2> QED BY <1>2
  <1>4. PICK f : Iterates(f, n, S, <<>>, g)
    <2> DEFINE b == <<>>
    <2>1. b \in S
      BY <1>1
    <2> HIDE DEF g, S, n, b
    <2>2. \E f : Iterates(f, n, S, b, g)
      BY <1>0, <1>3, <2>1, Iterate
    <2> QED BY <2>2 DEF b
  <1>5. \A i \in 1..n : f[i - 1] \in S /\ f[i] = (IF t[i] \in M THEN Append(f[i - 1], t[i]) ELSE f[i - 1])
    <2> HIDE DEF S
    <2> SUFFICES ASSUME NEW i \in 1..n PROVE f[i - 1] \in S /\ f[i] = (IF t[i] \in M THEN Append(f[i - 1], t[i]) ELSE f[i - 1])
      OBVIOUS
    <2>1. i - 1 \in 0..n
      BY <1>0
    <2>2. <<f[i - 1], i>> \in S \X (1..n) /\ f[i] = g[<<f[i - 1], i>>]
      BY <2>1, <1>4 DEF Iterates
    <2> QED BY <2>2
  <1>6. f = [i \in 0..n |-> IF i = 0 THEN <<>> ELSE (IF t[i] \in M THEN Append(f[i - 1], t[i]) ELSE f[i - 1])]
    <2> HIDE DEF S, g, n
    <2>1. \A i \in 0..n : f[i] = IF i = 0 THEN <<>> ELSE (IF t[i] \in M THEN Append(f[i - 1], t[i]) ELSE f[i - 1])
      <3> TAKE i \in 0..n
      <3>1. CASE i = 0
        BY <3>1, <1>4 DEF Iterates
      <3>2. CASE i # 0
        <4>1. i \in 1..n
          BY <3>2, <1>0
        <4> QED BY <4>1, <3>2, <1>5
      <3> QED BY <3>1, <3>2
    <2> QED BY <2>1, <1>4 DEF Iterates
  <1>7. PICK q : Kept(t, M) = q[n] /\ IsKept(q, t, M)
    <2>1. IsKept(f, t, M)
      BY <1>6 DEF IsKept
    <2> HIDE DEF S, g, n
    <2> QED BY <2>1, KeptIs DEF n
  <1>8. q[0] = <<>> /\ \A i \in 1..n : q[i] = (IF t[i] \in M THEN Append(q[i - 1], t[i]) ELSE q[i - 1])
    <2>1. \A i \in 0..n : q[i] = IF i = 0 THEN <<>> ELSE (IF t[i] \in M THEN Append(q[i - 1], t[i]) ELSE q[i - 1])
      BY <1>7 DEF IsKept
    <2> HIDE DEF n
    <2> QED BY <2>1, <1>0
  <1> DEFINE J == {i \in 0..n : q[i] \in S}
  <1>9. 0 \in J
    <2> HIDE DEF S
    <2> QED BY <1>0, <1>1, <1>8
  <1>10. ASSUME NEW i \in 0..(n - 1), i \in J PROVE i + 1 \in J
    <2> HIDE DEF S
    <2>1. i + 1 \in 1..n /\ i + 1 \in 0..n /\ (i + 1) - 1 = i /\ q[i] \in S
      BY <1>0, <1>10
    <2> QED BY <2>1, <1>2, <1>8
  <1>11. \A i \in 0..n : q[i] \in S
    <2> HIDE DEF n, J, S
    <2>1. \A i \in 0..n : i \in J
      BY <1>0, <1>9, <1>10, Upto
    <2> QED BY <2>1 DEF J
  <1>12. Kept(t, M) = q[n]
    BY <1>7
  <1>13. KeptBy(q, t, M)
    <2> HIDE DEF g, J
    <2> QED BY <1>8, <1>11, <1>12, Zenon DEF KeptBy
  <1> QED BY <1>13

LEMMA SyncedType ==
  ASSUME NEW m, NEW t \in Seq(Buf), NEW f \in [Buf -> SUBSET {"MOD", "CHK", "LOW"}], NEW lim
  PROVE  /\ Synced(m, t, f, lim) \in Flushing
         /\ Waited(m, t, f) \in Flushing
  <1> DEFINE w == Waited(m, t, f)
             M == {b \in Buf : key[b][2] # m \/ "MOD" \in f[b]}
  <1>1. w.t \in Seq(Buf)
    <2> HIDE DEF M
    <2>1. PICK q : KeptBy(q, t, M)
      BY KeptRec
    <2>2. Kept(t, M) \in Seq(Buf)
      BY <2>1 DEF KeptBy
    <2> QED BY <2>2 DEF Waited, M
  <1>2. w.f \in [Buf -> SUBSET {"MOD", "CHK", "LOW"}]
    BY DEF Waited
  <1>3. w \in Flushing
    BY <1>1, <1>2 DEF Waited, Flushing
  <1> HIDE DEF w
  <1>4. Written(m, w.t, w.f, lim) \in [Buf -> SUBSET {"MOD", "CHK", "LOW"}]
    BY <1>1, <1>2, WrittenType
  <1>5. Synced(m, t, f, lim) = [t |-> w.t, f |-> Written(m, w.t, w.f, lim)]
    BY DEF Synced, w
  <1>6. Synced(m, t, f, lim) \in Flushing
    BY <1>1, <1>4, <1>5 DEF Flushing
  <1> QED BY <1>3, <1>6 DEF w

LEMMA RoundType ==
  ASSUME NEW st \in Flushing
  PROVE  Round(st) \in Flushing
  <1>1. st.t \in Seq(Buf) /\ st.f \in [Buf -> SUBSET {"MOD", "CHK", "LOW"}]
    BY DEF Flushing
  <1> QED BY <1>1, SyncedType DEF Round

\* The rounds of flushing.
IsRounds(q, st) ==
  q = [i \in 0..(2 * MaxTouch) |-> IF i = 0 THEN st ELSE Round(q[i - 1])]
LEMMA RoundsIs ==
  ASSUME NEW st, NEW f, IsRounds(f, st)
  PROVE  \E q : Rounds(st) = q[(2 * MaxTouch)] /\ IsRounds(q, st)
  BY DEF Rounds, IsRounds
LEMMA RoundsRec ==
  ASSUME NEW st \in Flushing
  PROVE  \E q : /\ Rounds(st) = q[(2 * MaxTouch)] /\ q[0] = st
                /\ \A i \in 0..(2 * MaxTouch) : q[i] \in Flushing
                /\ \A i \in 1..(2 * MaxTouch) : q[i] = Round(q[i - 1])
  <1> DEFINE n == (2 * MaxTouch)
             S == Flushing
             g == [p \in S \X (1..n) |-> Round(p[1])]
  <1>0. n \in Nat
    BY PoolAssumption
  <1>1. st \in S
    OBVIOUS
  <1>2. \A r \in S : \A i \in 1..n : Round(r) \in S
    BY RoundType
  <1>3. g \in [S \X (1..n) -> S]
    <2> HIDE DEF S, n
    <2> QED BY <1>2
  <1>4. PICK f : Iterates(f, n, S, st, g)
    <2> DEFINE b == st
    <2>1. b \in S
      BY <1>1
    <2> HIDE DEF g, S, n, b
    <2>2. \E f : Iterates(f, n, S, b, g)
      BY <1>0, <1>3, <2>1, Iterate
    <2> QED BY <2>2 DEF b
  <1>5. \A i \in 1..n : f[i - 1] \in S /\ f[i] = Round(f[i - 1])
    <2> HIDE DEF S
    <2> SUFFICES ASSUME NEW i \in 1..n PROVE f[i - 1] \in S /\ f[i] = Round(f[i - 1])
      OBVIOUS
    <2>1. i - 1 \in 0..n
      BY <1>0
    <2>2. <<f[i - 1], i>> \in S \X (1..n) /\ f[i] = g[<<f[i - 1], i>>]
      BY <2>1, <1>4 DEF Iterates
    <2> QED BY <2>2
  <1>6. f = [i \in 0..n |-> IF i = 0 THEN st ELSE Round(f[i - 1])]
    <2> HIDE DEF S, g, n
    <2>1. \A i \in 0..n : f[i] = IF i = 0 THEN st ELSE Round(f[i - 1])
      <3> TAKE i \in 0..n
      <3>1. CASE i = 0
        BY <3>1, <1>4 DEF Iterates
      <3>2. CASE i # 0
        <4>1. i \in 1..n
          BY <3>2, <1>0
        <4> QED BY <4>1, <3>2, <1>5
      <3> QED BY <3>1, <3>2
    <2> QED BY <2>1, <1>4 DEF Iterates
  <1>7. PICK q : Rounds(st) = q[n] /\ IsRounds(q, st)
    <2>1. IsRounds(f, st)
      BY <1>6 DEF IsRounds
    <2> HIDE DEF S, g, n
    <2> QED BY <2>1, RoundsIs DEF n
  <1>8. q[0] = st /\ \A i \in 1..n : q[i] = Round(q[i - 1])
    <2>1. \A i \in 0..n : q[i] = IF i = 0 THEN st ELSE Round(q[i - 1])
      BY <1>7 DEF IsRounds
    <2> HIDE DEF n
    <2> QED BY <2>1, <1>0
  <1> DEFINE J == {i \in 0..n : q[i] \in S}
  <1>9. 0 \in J
    <2> HIDE DEF S
    <2> QED BY <1>0, <1>1, <1>8
  <1>10. ASSUME NEW i \in 0..(n - 1), i \in J PROVE i + 1 \in J
    <2> HIDE DEF S
    <2>1. i + 1 \in 1..n /\ i + 1 \in 0..n /\ (i + 1) - 1 = i /\ q[i] \in S
      BY <1>0, <1>10
    <2> QED BY <2>1, <1>2, <1>8
  <1>11. \A i \in 0..n : q[i] \in S
    <2> HIDE DEF n, J, S
    <2>1. \A i \in 0..n : i \in J
      BY <1>0, <1>9, <1>10, Upto
    <2> QED BY <2>1 DEF J
  <1>12. Rounds(st) = q[n]
    BY <1>7
  <1> QED BY <1>8, <1>11, <1>12

\* The buffers cleared, one by one.
IsClearAll(q, st, s) ==
  q = [i \in 0..Len(s) |-> IF i = 0 THEN st ELSE Clear(q[i - 1], s[i])]
LEMMA ClearAllIs ==
  ASSUME NEW st, NEW s, NEW f, IsClearAll(f, st, s)
  PROVE  \E q : ClearAll(st, s) = q[Len(s)] /\ IsClearAll(q, st, s)
  BY DEF ClearAll, IsClearAll
LEMMA ClearAllRec ==
  ASSUME NEW st \in Clearing, NEW s \in Seq(Buf)
  PROVE  \E q : /\ ClearAll(st, s) = q[Len(s)] /\ q[0] = st
                /\ \A i \in 0..Len(s) : q[i] \in Clearing
                /\ \A i \in 1..Len(s) : q[i] = Clear(q[i - 1], s[i])
  <1> DEFINE n == Len(s)
             S == Clearing
             g == [p \in S \X (1..n) |-> Clear(p[1], s[p[2]])]
  <1>0. n \in Nat
    OBVIOUS
  <1>1. st \in S
    OBVIOUS
  <1>2. \A r \in S : \A i \in 1..n : Clear(r, s[i]) \in S
    BY ClearType, ElementOfSeq
  <1>3. g \in [S \X (1..n) -> S]
    <2> HIDE DEF S, n
    <2> QED BY <1>2
  <1>4. PICK f : Iterates(f, n, S, st, g)
    <2> DEFINE b == st
    <2>1. b \in S
      BY <1>1
    <2> HIDE DEF g, S, n, b
    <2>2. \E f : Iterates(f, n, S, b, g)
      BY <1>0, <1>3, <2>1, Iterate
    <2> QED BY <2>2 DEF b
  <1>5. \A i \in 1..n : f[i - 1] \in S /\ f[i] = Clear(f[i - 1], s[i])
    <2> HIDE DEF S
    <2> SUFFICES ASSUME NEW i \in 1..n PROVE f[i - 1] \in S /\ f[i] = Clear(f[i - 1], s[i])
      OBVIOUS
    <2>1. i - 1 \in 0..n
      BY <1>0
    <2>2. <<f[i - 1], i>> \in S \X (1..n) /\ f[i] = g[<<f[i - 1], i>>]
      BY <2>1, <1>4 DEF Iterates
    <2> QED BY <2>2
  <1>6. f = [i \in 0..n |-> IF i = 0 THEN st ELSE Clear(f[i - 1], s[i])]
    <2> HIDE DEF S, g, n
    <2>1. \A i \in 0..n : f[i] = IF i = 0 THEN st ELSE Clear(f[i - 1], s[i])
      <3> TAKE i \in 0..n
      <3>1. CASE i = 0
        BY <3>1, <1>4 DEF Iterates
      <3>2. CASE i # 0
        <4>1. i \in 1..n
          BY <3>2, <1>0
        <4> QED BY <4>1, <3>2, <1>5
      <3> QED BY <3>1, <3>2
    <2> QED BY <2>1, <1>4 DEF Iterates
  <1>7. PICK q : ClearAll(st, s) = q[n] /\ IsClearAll(q, st, s)
    <2>1. IsClearAll(f, st, s)
      BY <1>6 DEF IsClearAll
    <2> HIDE DEF S, g, n
    <2> QED BY <2>1, ClearAllIs DEF n
  <1>8. q[0] = st /\ \A i \in 1..n : q[i] = Clear(q[i - 1], s[i])
    <2>1. \A i \in 0..n : q[i] = IF i = 0 THEN st ELSE Clear(q[i - 1], s[i])
      BY <1>7 DEF IsClearAll
    <2> HIDE DEF n
    <2> QED BY <2>1, <1>0
  <1> DEFINE J == {i \in 0..n : q[i] \in S}
  <1>9. 0 \in J
    <2> HIDE DEF S
    <2> QED BY <1>0, <1>1, <1>8
  <1>10. ASSUME NEW i \in 0..(n - 1), i \in J PROVE i + 1 \in J
    <2> HIDE DEF S
    <2>1. i + 1 \in 1..n /\ i + 1 \in 0..n /\ (i + 1) - 1 = i /\ q[i] \in S
      BY <1>0, <1>10
    <2> QED BY <2>1, <1>2, <1>8
  <1>11. \A i \in 0..n : q[i] \in S
    <2> HIDE DEF n, J, S
    <2>1. \A i \in 0..n : i \in J
      BY <1>0, <1>9, <1>10, Upto
    <2> QED BY <2>1 DEF J
  <1>12. ClearAll(st, s) = q[n]
    BY <1>7
  <1> QED BY <1>8, <1>11, <1>12

-----------------------------------------------------------------------------
(* Types of the actions.                                                    *)

LEMMA Ordered ==
  ASSUME NEW S, IsFiniteSet(S)
  PROVE  /\ SetToSeq(S) \in Seq(S)
  <1> DEFINE n == Cardinality(S)
  <1>1. n \in Nat /\ ExistsBijection(1..n, S)
    BY FS_CardinalityType
  <1>2. PICK f \in Bijection(1..n, S) : TRUE
    BY <1>1 DEF ExistsBijection
  <1>3. f \in [1..n -> S] /\ IsInjective(f)
    BY <1>2 DEF Bijection, Injection, IsInjective
  <1>4. SetToSeq(S) \in [1..n -> S]
    BY <1>3 DEF SetToSeq
  <1> QED BY <1>1, <1>4

\* The place SelectInSeq finds.
LEMMA Selected ==
  ASSUME NEW n \in Nat, NEW I \in SUBSET (1..n)
  PROVE  (IF I # {} THEN Min(I) ELSE 0) \in 0..n
  <1>1. I # {} => \E x \in I : \A y \in I : x <= y
    BY Least
  <1>2. I # {} => Min(I) \in I
    BY <1>1 DEF Min
  <1>3. CASE I = {}
    <2>1. (IF I # {} THEN Min(I) ELSE 0) = 0
      BY <1>3
    <2> QED BY <2>1
  <1>4. CASE I # {}
    <2>1. (IF I # {} THEN Min(I) ELSE 0) = Min(I)
      BY <1>4
    <2>2. Min(I) \in 1..n
      BY <1>2, <1>4
    <2>3. Min(I) \in 0..n
      <3> DEFINE m == Min(I)
      <3> HIDE DEF m
      <3>1. m \in 1..n => m \in 0..n
        OBVIOUS
      <3> QED BY <3>1, <2>2 DEF m
    <2> QED BY <2>1, <2>3
  <1> QED BY <1>3, <1>4

LEMMA LookupType ==
  ASSUME NEW k \in Blk \X Mid, Ends(k), table \in Tables
  PROVE  Lookup(k) \in Slots
  <1> DEFINE goal == Holding(k)
             h == HashOf(k)
             p == Probes(table, h, goal)
  <1>1. h \in Slots
    BY PoolAssumption DEF HashOf, Slots
  <1>2. p < Size
    BY DEF Ends
  <1>3. CASE \E s \in Slots : table[s] = Nil \/ s \in goal
    <2>1. Slot(h, p) \in Slots
      <3> HIDE DEF goal
      <3> QED BY <1>1, <1>3, ProbeFirst
    <2> QED BY <2>1 DEF Lookup
  <1>4. CASE ~\E s \in Slots : table[s] = Nil \/ s \in goal
    <2>1. \A j \in 0..(Size - 1) : Slot(h, j) \in Slots
      BY <1>1, Ring DEF Slots
    <2>2. p = Size
      BY <1>4, <2>1 DEF Probes
    <2> QED BY <1>2, <2>2, Ring
  <1> QED BY <1>3, <1>4

\* What Miss does, with its LETs named.
MissIs(k, fails, new, i, b, s) ==
  /\ i \in 1..Len(chain) /\ b = chain[i] /\ s = Lookup(k)
  /\ chain' = SubSeq(chain, i + 1, Len(chain)) \o SubSeq(chain, 1, i - 1)
  /\ inuse' = Append(inuse, b)
  /\ table' = Rehash([table EXCEPT ![s] = b], [key EXCEPT ![b] = k], b, HashOf(key[b]), s)
  /\ key' = [key EXCEPT ![b] = IF fails THEN <<0, k[2]>> ELSE k]
  /\ flags' = [flags EXCEPT ![b] = IF new THEN {"MOD"} ELSE IF ~fails THEN {}
                 ELSE IF "MOD" \in @ THEN {"CHK"} ELSE @]
  /\ changed' = IF new THEN changed \union {b} ELSE changed
  /\ new => b \in changed \/ Cardinality(changed) < MaxBuf
  /\ touched' = touched

LEMMA Missed ==
  ASSUME TypeOK, NEW k \in Blk \X Mid, NEW fails, NEW new, Miss(k, fails, new)
  PROVE  \E i, b, s : MissIs(k, fails, new, i, b, s)
  <1> DEFINE I == {j \in 1..Len(chain) : ~Encumbered(chain[j])}
             clean == IF I # {} THEN Min(I) ELSE 0
             i == IF clean = 0 THEN 1 ELSE clean
  <1>1. chain \in Seq(Buf) /\ chain # <<>>
    BY DEF TypeOK, Miss
  <1>2. clean \in 0..Len(chain)
    <2> HIDE DEF I
    <2>1. I \in SUBSET (1..Len(chain))
      BY DEF I
    <2> QED BY <2>1, <1>1, Selected
  <1>3. SelectInSeq(chain, LAMBDA c : ~Encumbered(c)) = clean
    BY DEF SelectInSeq
  <1> HIDE DEF clean
  <1>4. i \in 1..Len(chain)
    BY <1>1, <1>2, EmptySeq
  <1>5. MissIs(k, fails, new, i, chain[i], Lookup(k))
    BY <1>3, <1>4 DEF Miss, MissIs
  <1> QED BY <1>5

LEMMA TypeInit == Init => TypeOK
  <1> SUFFICES ASSUME Init PROVE TypeOK
    OBVIOUS
  <1>1. chain \in Seq(Buf)
    BY Ordered, PoolAssumption DEF Init
  <1>2. table \in [Slots -> Buf \union {Nil}]
    BY DEF Init
  <1>3. key \in [Buf -> ({0} \union Blk) \X Mid]
    BY PoolAssumption DEF Init
  <1>4. flags \in [Buf -> SUBSET {"MOD", "CHK", "LOW"}] /\ changed \subseteq Buf
    BY DEF Init
  <1>5. inuse \in Seq(Buf) /\ touched \in Seq(Buf)
    BY EmptySeq DEF Init
  <1> QED BY <1>1, <1>2, <1>3, <1>4, <1>5 DEF TypeOK

LEMMA TypeHit ==
  ASSUME TypeOK, NEW k \in Blk \X Mid, Hit(k)
  PROVE  TypeOK'
  <1> DEFINE b == table[Lookup(k)]
             I == {j \in 1..Len(chain) : chain[j] = b}
             i == IF I # {} THEN Min(I) ELSE 0
  <1>1. chain \in Seq(Buf) /\ inuse \in Seq(Buf) /\ table \in Tables
    BY DEF TypeOK, Tables
  <1>2. b \in Buf
    <2>1. Lookup(k) \in Slots
      BY <1>1, LookupType DEF Hit
    <2>2. b # Nil
      BY DEF Hit
    <2> QED BY <2>1, <2>2, <1>1 DEF Tables
  <1> HIDE DEF b
  <1>3. i \in 0..Len(chain)
    <2> HIDE DEF I
    <2>1. I \in SUBSET (1..Len(chain))
      BY DEF I
    <2> QED BY <2>1, <1>1, Selected
  <1>4. SelectInSeq(chain, LAMBDA c : c = b) = i
    BY DEF SelectInSeq
  <1> HIDE DEF i
  <1>5. RemoveAt(chain, i) \in Seq(Buf)
    <2>1. SubSeq(chain, 1, i - 1) \in Seq(Buf) /\ SubSeq(chain, i + 1, Len(chain)) \in Seq(Buf)
      BY <1>1, <1>3, SubSeqProperties
    <2> QED BY <2>1, ConcatProperties DEF RemoveAt
  <1>6. Append(inuse, b) \in Seq(Buf)
    BY <1>1, <1>2, AppendProperties
  <1>7. chain' \in Seq(Buf) /\ inuse' \in Seq(Buf)
    BY <1>1, <1>4, <1>5, <1>6 DEF Hit, b
  <1>8. UNCHANGED <<table, key, flags, touched, changed>>
    BY DEF Hit
  <1> QED BY <1>7, <1>8 DEF TypeOK

LEMMA TypeMiss ==
  ASSUME TypeOK, NEW k \in Blk \X Mid, NEW fails \in BOOLEAN, NEW new \in BOOLEAN, Miss(k, fails, new)
  PROVE  TypeOK'
  <1>1. PICK i, b, s : MissIs(k, fails, new, i, b, s)
    BY Missed
  <1>2. chain \in Seq(Buf) /\ inuse \in Seq(Buf) /\ table \in Tables /\ key \in Keys
        /\ flags \in [Buf -> SUBSET {"MOD", "CHK", "LOW"}] /\ changed \subseteq Buf
    BY DEF TypeOK, Tables, Keys
  <1>3. b \in Buf /\ s \in Slots /\ i \in 1..Len(chain)
    <2>1. s \in Slots
      BY <1>1, <1>2, LookupType DEF MissIs, Miss
    <2> QED BY <2>1, <1>1, <1>2, ElementOfSeq DEF MissIs
  <1>4. table' \in Tables
    <2>1. [table EXCEPT ![s] = b] \in Tables
      BY <1>2, <1>3 DEF Tables
    <2>2. HashOf(key[b]) \in Slots
      BY <1>2, <1>3, HashInSlots
    <2> DEFINE u == [table EXCEPT ![s] = b]
               keys == [key EXCEPT ![b] = k]
               h == HashOf(key[b])
    <2> HIDE DEF u, keys, h
    <2>3. Rehash(u, keys, b, h, s) \in Tables
      BY <2>1, <2>2, RehashType DEF u, h
    <2> QED BY <2>3, <1>1 DEF MissIs, u, keys, h
  <1>5. key' \in Keys
    <2>1. <<0, k[2]>> \in ({0} \union Blk) \X Mid /\ k \in ({0} \union Blk) \X Mid
      OBVIOUS
    <2> DEFINE to == IF fails THEN <<0, k[2]>> ELSE k
    <2>2. to \in ({0} \union Blk) \X Mid /\ key' = [key EXCEPT ![b] = to]
      BY <2>1, <1>1 DEF MissIs
    <2> HIDE DEF to
    <2> QED BY <2>2, <1>2, <1>3 DEF Keys
  <1>6. flags' \in [Buf -> SUBSET {"MOD", "CHK", "LOW"}]
    BY <1>1, <1>2, <1>3 DEF MissIs
  <1>7. chain' \in Seq(Buf)
    <2>1. SubSeq(chain, i + 1, Len(chain)) \in Seq(Buf) /\ SubSeq(chain, 1, i - 1) \in Seq(Buf)
      BY <1>2, <1>3, SubSeqProperties
    <2> QED BY <2>1, <1>1, ConcatProperties DEF MissIs
  <1>8. inuse' \in Seq(Buf)
    BY <1>1, <1>2, <1>3, AppendProperties DEF MissIs
  <1>9. changed' \subseteq Buf /\ touched' = touched
    BY <1>1, <1>2, <1>3 DEF MissIs
  <1> QED BY <1>4, <1>5, <1>6, <1>7, <1>8, <1>9 DEF TypeOK, Tables, Keys

LEMMA TypeOther ==
  ASSUME TypeOK
  PROVE  /\ Get => TypeOK'
         /\ Finish => TypeOK'
         /\ \A b \in Buf, low \in BOOLEAN : Modify(b, low) => TypeOK'
         /\ \A np, bp \in Buf : Swap(np, bp) => TypeOK'
         /\ \A m \in Mid : Unmount(m) => TypeOK'
  <1>0. /\ chain \in Seq(Buf) /\ inuse \in Seq(Buf) /\ touched \in Seq(Buf)
        /\ table \in [Slots -> Buf \union {Nil}] /\ key \in [Buf -> ({0} \union Blk) \X Mid]
        /\ flags \in [Buf -> SUBSET {"MOD", "CHK", "LOW"}] /\ changed \subseteq Buf
    BY DEF TypeOK
  <1>1. ASSUME Get PROVE TypeOK'
    <2>1. PICK q : ReleaseAll(chain, inuse) = q[Len(inuse)] /\ \A i \in 0..Len(inuse) : q[i] \in Seq(Buf)
      BY <1>0, ReleaseAllRec
    <2>2. PICK r : TouchAll(touched, inuse) = r[Len(inuse)] /\ \A i \in 0..Len(inuse) : r[i] \in Seq(Buf)
      BY <1>0, TouchAllRec
    <2>3. Len(inuse) \in 0..Len(inuse)
      BY <1>0
    <2>4. chain' \in Seq(Buf) /\ touched' \in Seq(Buf) /\ inuse' \in Seq(Buf)
      BY <1>1, <2>1, <2>2, <2>3, EmptySeq DEF Get, Released
    <2>5. flags' \in [Buf -> SUBSET {"MOD", "CHK", "LOW"}]
      BY <1>0, <1>1 DEF Get
    <2>6. UNCHANGED <<table, key, changed>>
      BY <1>1 DEF Get
    <2> QED BY <1>0, <2>4, <2>5, <2>6 DEF TypeOK
  <1>2. ASSUME Finish PROVE TypeOK'
    <2> DEFINE st == [t |-> touched, f |-> flags]
               all == Rounds(st)
    <2>1. st \in Flushing
      BY <1>0 DEF Flushing
    <2> HIDE DEF st
    <2>2. PICK q : Rounds(st) = q[2 * MaxTouch] /\ \A i \in 0..(2 * MaxTouch) : q[i] \in Flushing
      BY <2>1, RoundsRec
    <2>3. all \in Flushing
      BY <2>2, PoolAssumption
    <2>4. touched' = all.t /\ flags' = all.f /\ changed' = {} /\ UNCHANGED <<table, key, chain, inuse>>
      BY <1>2 DEF Finish, st
    <2> HIDE DEF all
    <2>5. touched' \in Seq(Buf) /\ flags' \in [Buf -> SUBSET {"MOD", "CHK", "LOW"}]
      BY <2>3, <2>4 DEF Flushing
    <2> QED BY <1>0, <2>4, <2>5 DEF TypeOK
  <1>3. ASSUME NEW b \in Buf, NEW low \in BOOLEAN, Modify(b, low) PROVE TypeOK'
    <2>1. flags' \in [Buf -> SUBSET {"MOD", "CHK", "LOW"}]
      BY <1>0, <1>3 DEF Modify
    <2>2. changed' \subseteq Buf /\ UNCHANGED <<table, key, chain, inuse, touched>>
      BY <1>0, <1>3 DEF Modify
    <2> QED BY <1>0, <2>1, <2>2 DEF TypeOK
  <1>4. ASSUME NEW np \in Buf, NEW bp \in Buf, Swap(np, bp) PROVE TypeOK'
    <2>1. table' \in [Slots -> Buf \union {Nil}]
      BY <1>0, <1>4 DEF Swap
    <2>2. key' \in [Buf -> ({0} \union Blk) \X Mid]
      BY <1>0, <1>4 DEF Swap
    <2>3. UNCHANGED <<flags, chain, inuse, touched, changed>>
      BY <1>4 DEF Swap
    <2> QED BY <1>0, <2>1, <2>2, <2>3 DEF TypeOK
  <1>5. ASSUME NEW m \in Mid, Unmount(m) PROVE TypeOK'
    <2> DEFINE one == Synced(m, touched, flags, Len(touched))
               two == Synced(m, one.t, one.f, Len(one.t))
               s == SetToSeq({b \in Buf : key[b][2] = m})
               st == [t |-> table, k |-> key]
               end == ClearAll(st, s)
    <2>1. one \in Flushing
      BY <1>0, SyncedType
    <2>2. two \in Flushing
      <3> HIDE DEF one
      <3>1. one.t \in Seq(Buf) /\ one.f \in [Buf -> SUBSET {"MOD", "CHK", "LOW"}]
        BY <2>1 DEF Flushing
      <3> QED BY <3>1, SyncedType
    <2>3. st \in Clearing
      BY <1>0 DEF Clearing, Tables, Keys
    <2>4. s \in Seq(Buf)
      <3> DEFINE D == {b \in Buf : key[b][2] = m}
      <3>1. D \in SUBSET Buf
        OBVIOUS
      <3> HIDE DEF D
      <3>2. IsFiniteSet(D)
        BY <3>1, PoolAssumption, FS_Subset
      <3>3. SetToSeq(D) \in Seq(Buf)
        BY <3>1, <3>2, Ordered, SeqMonotonic
      <3> QED BY <3>3 DEF D
    <2> HIDE DEF st, s
    <2>5. PICK q : ClearAll(st, s) = q[Len(s)] /\ \A i \in 0..Len(s) : q[i] \in Clearing
      BY <2>3, <2>4, ClearAllRec
    <2>6. end \in Clearing
      BY <2>4, <2>5
    <2>7. /\ touched' = two.t /\ flags' = two.f /\ table' = end.t /\ key' = end.k
          /\ UNCHANGED <<chain, inuse, changed>>
      BY <1>5 DEF Unmount, st, s
    <2> HIDE DEF two, end
    <2>8. touched' \in Seq(Buf) /\ flags' \in [Buf -> SUBSET {"MOD", "CHK", "LOW"}]
      BY <2>2, <2>7 DEF Flushing
    <2>9. table' \in [Slots -> Buf \union {Nil}] /\ key' \in [Buf -> ({0} \union Blk) \X Mid]
      BY <2>6, <2>7 DEF Clearing, Tables, Keys
    <2> QED BY <1>0, <2>7, <2>8, <2>9 DEF TypeOK
  <1> QED BY <1>1, <1>2, <1>3, <1>4, <1>5

LEMMA TypeStep ==
  ASSUME TypeOK, [Next]_vars
  PROVE  TypeOK'
  <1>1. CASE UNCHANGED vars
    BY <1>1 DEF TypeOK, vars
  <1>2. ASSUME NEW k \in Blk \X Mid, Hit(k) \/ Miss(k, FALSE, FALSE) \/ Miss(k, FALSE, TRUE) \/ Miss(k, TRUE, FALSE)
        PROVE  TypeOK'
    BY <1>2, TypeHit, TypeMiss
  <1>3. CASE Get \/ Finish
    BY <1>3, TypeOther
  <1>4. CASE \E b \in Buf, low \in BOOLEAN : Modify(b, low)
    BY <1>4, TypeOther
  <1>5. CASE \E np, bp \in Buf : Swap(np, bp)
    BY <1>5, TypeOther
  <1>6. CASE \E m \in Mid : Unmount(m)
    BY <1>6, TypeOther
  <1> QED BY <1>1, <1>2, <1>3, <1>4, <1>5, <1>6 DEF Next

-----------------------------------------------------------------------------
\* BlocksFound.
FoundInv == TypeOK /\ HashInv(table, key) /\ \A b \in changed : key[b][1] # 0

LEMMA FoundInit == Init => FoundInv
  <1> SUFFICES ASSUME Init PROVE FoundInv
    OBVIOUS
  <1>1. TypeOK
    BY TypeInit
  <1>2. \A x \in Slots : table[x] = Nil
    BY DEF Init
  <1>3. \A b \in Buf : key[b][1] = 0
    BY DEF Init
  <1>4. changed = {}
    BY DEF Init
  <1>5. HashInv(table, key)
    BY <1>1, <1>2, <1>3 DEF HashInv, TypeOK, Tables, Keys
  <1> QED BY <1>1, <1>4, <1>5 DEF FoundInv

LEMMA FoundMiss ==
  ASSUME FoundInv, NEW k \in Blk \X Mid, NEW new \in BOOLEAN, Miss(k, FALSE, new)
  PROVE  FoundInv'
  <1>1. TypeOK /\ TypeOK'
    BY TypeMiss DEF FoundInv
  <1>2. PICK i, b, s : MissIs(k, FALSE, new, i, b, s)
    BY <1>1, Missed
  <1>3. b \in Buf
    BY <1>1, <1>2, ElementOfSeq DEF MissIs, TypeOK
  <1>4. /\ s \in Slots /\ HashOf(k) \in Slots /\ table[s] = Nil
        /\ \A c \in Buf : key[c] # k
        /\ \A y \in Slots : Below(HashOf(k), y) < Below(HashOf(k), s) => table[y] # Nil
    BY <1>2, NotFound DEF FoundInv, Miss, MissIs
  <1> DEFINE keys == [key EXCEPT ![b] = k]
             r == Rehash([table EXCEPT ![s] = b], keys, b, HashOf(key[b]), s)
  <1>5. HashInv(r, keys)
    BY <1>3, <1>4, Reused DEF FoundInv
  <1>6. table' = r /\ key' = keys
    BY <1>2 DEF MissIs
  <1>7. \A c \in changed' : key'[c][1] # 0
    <2>1. key \in Keys /\ k[1] # 0 /\ changed \subseteq Buf
      BY <1>1, PoolAssumption DEF TypeOK, Keys
    <2>2. keys[b] = k /\ \A c \in Buf : c # b => keys[c] = key[c]
      BY <2>1, <1>3 DEF Keys
    <2>3. changed' \subseteq changed \union {b}
      BY <1>2 DEF MissIs
    <2> HIDE DEF keys
    <2> QED BY <2>1, <2>2, <2>3, <1>6 DEF FoundInv
  <1> HIDE DEF r, keys
  <1>8. HashInv(table', key')
    BY <1>5, <1>6
  <1> QED BY <1>1, <1>7, <1>8 DEF FoundInv, HashInv, Before, HashOf

LEMMA IndexOfIs ==
  ASSUME FoundInv, NEW b \in Buf, key[b][1] # 0
  PROVE  IndexOf(b) \in Slots /\ table[IndexOf(b)] = b
  <1>1. PICK o \in Slots : table[o] = b
    BY DEF FoundInv, HashInv
  <1>2. table[o] # Nil
    BY <1>1, PoolAssumption
  <1> DEFINE goal == {s \in Slots : table[s] = b}
  <1>3. o \in goal /\ \A x \in goal : x \in Slots => table[x] = table[o]
    BY <1>1
  <1>4. Slot(HashOf(key[b]), Probes(table, HashOf(key[b]), goal)) = o
    <2> HIDE DEF goal
    <2> QED BY <1>1, <1>2, <1>3, IndexIs DEF FoundInv
  <1> QED BY <1>1, <1>4 DEF IndexOf

\* The two exchange their keys and their slots: each slot keeps its key.
LEMMA FoundSwap ==
  ASSUME FoundInv, NEW np \in Buf, NEW bp \in Buf, Swap(np, bp)
  PROVE  FoundInv'
  <1>0. TypeOK /\ TypeOK'
    BY TypeOther DEF FoundInv
  <1>1. key[np][1] # 0 /\ key[bp][1] # 0 /\ np # bp /\ changed' = changed /\ changed \subseteq Buf
    BY <1>0 DEF FoundInv, Swap, TypeOK
  <1> DEFINE i == IndexOf(np)
             j == IndexOf(bp)
  <1>2. i \in Slots /\ j \in Slots /\ table[i] = np /\ table[j] = bp /\ i # j
    BY <1>1, IndexOfIs
  <1> HIDE DEF i, j
  <1>3. table' = [table EXCEPT ![i] = bp, ![j] = np] /\ key' = [key EXCEPT ![np] = key[bp], ![bp] = key[np]]
    BY DEF Swap, i, j
  <1>4. /\ table \in Tables /\ key \in Keys /\ table' \in Tables /\ key' \in Keys /\ Nil \notin Buf
    BY <1>0, PoolAssumption DEF TypeOK, Tables, Keys
  <1>5. table'[i] = bp /\ table'[j] = np /\ \A x \in Slots : x \notin {i, j} => table'[x] = table[x]
    BY <1>2, <1>3, <1>4 DEF Tables
  <1>6. key'[np] = key[bp] /\ key'[bp] = key[np] /\ \A c \in Buf : c \notin {np, bp} => key'[c] = key[c]
    BY <1>1, <1>3, <1>4 DEF Keys
  <1>7. \A x \in Slots : (table'[x] = Nil <=> table[x] = Nil) /\ (table[x] # Nil => key'[table'[x]] = key[table[x]])
    <2> TAKE x \in Slots
    <2>1. CASE x \in {i, j}
      BY <2>1, <1>2, <1>4, <1>5, <1>6
    <2>2. CASE x \notin {i, j}
      <3>1. table'[x] = table[x]
        BY <2>2, <1>5
      <3>2. table[x] # Nil => table[x] \in Buf /\ table[x] # np /\ table[x] # bp
        BY <2>2, <1>2, <1>4 DEF Tables, FoundInv, HashInv
      <3> QED BY <3>1, <3>2, <1>6
    <2> QED BY <2>1, <2>2
  <1> DEFINE t == table'
             keys == key'
  <1>8. \A x, y \in Slots : t[x] = t[y] /\ t[x] # Nil => x = y
    <2> SUFFICES ASSUME NEW x \in Slots, NEW y \in Slots, t[x] = t[y], t[x] # Nil PROVE x = y
      OBVIOUS
    <2>0. \A z \in Slots : z \notin {i, j} => table[z] # np /\ table[z] # bp
      BY <1>2, <1>4 DEF FoundInv, HashInv
    <2>1. CASE x \in {i, j}
      BY <2>0, <2>1, <1>1, <1>2, <1>5
    <2>2. CASE y \in {i, j}
      BY <2>0, <2>2, <1>1, <1>2, <1>5
    <2>3. CASE x \notin {i, j} /\ y \notin {i, j}
      BY <2>3, <1>5 DEF FoundInv, HashInv
    <2> QED BY <2>1, <2>2, <2>3
  <1>9. \A x \in Slots : t[x] # Nil => keys[t[x]][1] # 0
    BY <1>7 DEF FoundInv, HashInv
  <1>10. \A b \in Buf : keys[b][1] # 0 => \E x \in Slots : t[x] = b
    <2> SUFFICES ASSUME NEW b \in Buf, keys[b][1] # 0 PROVE \E x \in Slots : t[x] = b
      OBVIOUS
    <2>1. CASE b \in {np, bp}
      BY <2>1, <1>2, <1>5
    <2>2. CASE b \notin {np, bp}
      <3>1. PICK x \in Slots : table[x] = b
        BY <2>2, <1>6 DEF FoundInv, HashInv
      <3> QED BY <3>1, <2>2, <1>2, <1>5
    <2> QED BY <2>1, <2>2
  <1>11. \A x, y \in Slots : t[x] # Nil /\ Before(t, keys, x, y) => t[y] # Nil
    BY <1>7 DEF FoundInv, HashInv, Before
  <1>12. \A b, c \in Buf : keys[b] = keys[c] /\ keys[b][1] # 0 => b = c
    <2> SUFFICES ASSUME NEW b \in Buf, NEW c \in Buf, keys[b] = keys[c], keys[b][1] # 0 PROVE b = c
      OBVIOUS
    <2> DEFINE o(d) == IF d = np THEN bp ELSE IF d = bp THEN np ELSE d
    <2>1. keys[b] = key[o(b)] /\ keys[c] = key[o(c)] /\ o(b) \in Buf /\ o(c) \in Buf
      BY <1>1, <1>6
    <2>2. o(b) = o(c)
      <3> DEFINE x == o(b)
                 y == o(c)
      <3>1. x \in Buf /\ y \in Buf /\ key[x] = key[y] /\ key[x][1] # 0
        BY <2>1
      <3> HIDE DEF x, y
      <3>2. x = y
        BY <3>1 DEF FoundInv, HashInv
      <3> QED BY <3>2 DEF x, y
    <2> QED BY <2>2, <1>1
  <1>13. HashInv(t, keys)
    BY <1>4, <1>8, <1>9, <1>10, <1>11, <1>12 DEF HashInv
  <1>14. \A c \in changed' : key'[c][1] # 0
    BY <1>1, <1>6 DEF FoundInv
  <1> QED BY <1>0, <1>13, <1>14 DEF FoundInv, HashInv, Before, HashOf

LEMMA FoundUnmount ==
  ASSUME FoundInv, NEW m \in Mid, Unmount(m)
  PROVE  FoundInv'
  <1>0. TypeOK /\ TypeOK'
    BY TypeOther DEF FoundInv
  <1> DEFINE s == SetToSeq({b \in Buf : key[b][2] = m})
             st == [t |-> table, k |-> key]
             end == ClearAll(st, s)
  <1>1. st \in Clearing
    BY DEF Clearing, FoundInv, HashInv
  <1>2. s \in Seq(Buf)
    <2> DEFINE D == {b \in Buf : key[b][2] = m}
    <2>1. D \in SUBSET Buf
      OBVIOUS
    <2> HIDE DEF D
    <2>2. IsFiniteSet(D)
      BY <2>1, PoolAssumption, FS_Subset
    <2>3. SetToSeq(D) \in Seq(Buf)
      BY <2>1, <2>2, Ordered, SeqMonotonic
    <2> QED BY <2>3 DEF D
  <1>3. table' = end.t /\ key' = end.k /\ changed' = {}
    BY DEF Unmount
  <1>4. HashInv(st.t, st.k)
    BY DEF FoundInv
  <1> HIDE DEF st, s
  <1>5. PICK q : /\ end = q[Len(s)] /\ q[0] = st
                 /\ \A i \in 0..Len(s) : q[i] \in Clearing
                 /\ \A i \in 1..Len(s) : q[i] = Clear(q[i - 1], s[i])
    BY <1>1, <1>2, ClearAllRec
  <1> DEFINE J == {i \in 0..Len(s) : HashInv(q[i].t, q[i].k)}
  <1>6. 0 \in J
    BY <1>2, <1>4, <1>5
  <1>7. ASSUME NEW i \in 0..(Len(s) - 1), i \in J PROVE i + 1 \in J
    <2>1. i + 1 \in 1..Len(s) /\ i + 1 \in 0..Len(s) /\ (i + 1) - 1 = i /\ HashInv(q[i].t, q[i].k)
      BY <1>2, <1>7
    <2>2. s[i + 1] \in Buf
      BY <2>1, <1>2, ElementOfSeq
    <2> DEFINE b == s[i + 1]
               t == q[i].t
               keys == q[i].k
               r == Rehash(t, keys, b, HashOf(keys[b]), 0-1)
               new == [keys EXCEPT ![b] = <<0, @[2]>>]
    <2>3. q[i + 1] = [t |-> r, k |-> new]
      BY <2>1, <1>5 DEF Clear
    <2>4. HashInv(r, new)
      <3> HIDE DEF t, keys, b
      <3> QED BY <2>1, <2>2, Cleared DEF t, keys, b
    <2> HIDE DEF r, new
    <2>5. q[i + 1].t = r /\ q[i + 1].k = new
      BY <2>3
    <2> QED BY <2>1, <2>4, <2>5
  <1>8. HashInv(end.t, end.k)
    <2>1. Len(s) \in Nat
      BY <1>2
    <2> HIDE DEF J, end
    <2>2. \A i \in 0..Len(s) : i \in J
      BY <2>1, <1>6, <1>7, Upto
    <2>3. Len(s) \in J
      BY <2>1, <2>2
    <2> QED BY <2>3, <1>5 DEF J
  <1> HIDE DEF end
  <1>9. HashInv(table', key')
    BY <1>3, <1>8
  <1> QED BY <1>0, <1>3, <1>9 DEF FoundInv, HashInv, Before, HashOf

LEMMA FoundStep ==
  ASSUME ~Failing, FoundInv, [Next]_vars
  PROVE  FoundInv'
  <1>0. TypeOK'
    BY TypeStep DEF FoundInv
  <1>1. ASSUME table' = table, key' = key, \A b \in changed' : key[b][1] # 0
        PROVE  FoundInv'
    BY <1>0, <1>1 DEF FoundInv, HashInv, Before, HashOf
  <1>2. CASE UNCHANGED vars
    BY <1>1, <1>2 DEF FoundInv, vars
  <1>3. CASE Get \/ Finish
    BY <1>1, <1>3 DEF FoundInv, Get, Finish
  <1>4. ASSUME NEW k \in Blk \X Mid, Hit(k) PROVE FoundInv'
    BY <1>1, <1>4 DEF FoundInv, Hit
  <1>5. ASSUME NEW k \in Blk \X Mid, Miss(k, FALSE, FALSE) \/ Miss(k, FALSE, TRUE) PROVE FoundInv'
    BY <1>5, FoundMiss
  <1>6. ASSUME NEW b \in Buf, NEW low \in BOOLEAN, Modify(b, low) PROVE FoundInv'
    BY <1>1, <1>6 DEF FoundInv, Modify
  <1>7. CASE \E np, bp \in Buf : Swap(np, bp)
    BY <1>7, FoundSwap
  <1>8. CASE \E m \in Mid : Unmount(m)
    BY <1>8, FoundUnmount
  <1> QED BY <1>2, <1>3, <1>4, <1>5, <1>6, <1>7, <1>8 DEF Next

-----------------------------------------------------------------------------
\* ModifiedTouched.

\* The buffers in a sequence.
In(s) == {b \in Buf : Contains(s, b)}

LEMMA Appended ==
  ASSUME NEW t \in Seq(Buf), NEW b \in Buf
  PROVE  /\ Append(t, b) \in Seq(Buf) /\ Len(Append(t, b)) = Len(t) + 1
         /\ Append(t, b)[Len(t) + 1] = b
         /\ \A i \in 1..Len(t) : Append(t, b)[i] = t[i]
         /\ \A d : Contains(Append(t, b), d) <=> Contains(t, d) \/ d = b
         /\ IsInjective(t) /\ ~Contains(t, b) => IsInjective(Append(t, b))
  <1>1. /\ Append(t, b) \in Seq(Buf) /\ Len(Append(t, b)) = Len(t) + 1
        /\ Append(t, b)[Len(t) + 1] = b
        /\ \A i \in 1..Len(t) : Append(t, b)[i] = t[i]
    BY AppendProperties
  <1> DEFINE u == Append(t, b)
  <1>2. Len(t) \in Nat /\ DOMAIN t = 1..Len(t) /\ DOMAIN u = 1..(Len(t) + 1)
    BY <1>1
  <1> HIDE DEF u
  <1>3. u[Len(t) + 1] = b /\ Len(u) = Len(t) + 1 /\ \A i \in 1..Len(t) : u[i] = t[i]
    BY <1>1 DEF u
  <1>4. \A d : Contains(u, d) <=> Contains(t, d) \/ d = b
    <2> TAKE d
    <2>1. ASSUME NEW i \in 1..Len(u), u[i] = d PROVE Contains(t, d) \/ d = b
      <3>1. i \in 1..Len(t) \/ i = Len(t) + 1
        BY <1>2, <1>3
      <3> QED BY <3>1, <2>1, <1>3 DEF Contains
    <2>2. ASSUME NEW i \in 1..Len(t), t[i] = d PROVE Contains(u, d)
      <3>1. i \in 1..Len(u) /\ u[i] = d
        BY <2>2, <1>2, <1>3
      <3> QED BY <3>1 DEF Contains
    <2>3. Contains(u, b)
      <3>1. Len(t) + 1 \in 1..Len(u)
        BY <1>2, <1>3
      <3> QED BY <3>1, <1>3 DEF Contains
    <2> QED BY <2>1, <2>2, <2>3 DEF Contains
  <1>5. ASSUME IsInjective(t), ~Contains(t, b) PROVE IsInjective(u)
    <2> SUFFICES ASSUME NEW i \in 1..(Len(t) + 1), NEW j \in 1..(Len(t) + 1), u[i] = u[j] PROVE i = j
      BY <1>2 DEF IsInjective
    <2>1. (i \in 1..Len(t) \/ i = Len(t) + 1) /\ (j \in 1..Len(t) \/ j = Len(t) + 1)
      BY <1>2
    <2>2. \A k \in 1..Len(t) : t[k] # b
      BY <1>5 DEF Contains
    <2>3. \A k, l \in 1..Len(t) : t[k] = t[l] => k = l
      BY <1>5, <1>2 DEF IsInjective
    <2> QED BY <2>1, <2>2, <2>3, <1>3
  <1> QED BY <1>1, <1>4, <1>5 DEF u

\* A sequence without repetition is as long as its set is large.
LEMMA LenIn ==
  ASSUME NEW t \in Seq(Buf), IsInjective(t)
  PROVE  IsFiniteSet(In(t)) /\ Cardinality(In(t)) = Len(t)
  <1> DEFINE n == Len(t)
  <1>1. n \in Nat /\ t \in [1..n -> Buf] /\ DOMAIN t = 1..n
    BY LenProperties
  <1>2. t \in Bijection(1..n, In(t))
    <2>1. \A i \in 1..n : t[i] \in In(t)
      BY <1>1 DEF In, Contains
    <2>2. \A b \in In(t) : \E i \in 1..n : t[i] = b
      BY DEF In, Contains
    <2>3. \A i, j \in 1..n : t[i] = t[j] => i = j
      BY <1>1 DEF IsInjective
    <2> HIDE DEF n
    <2>4. t \in [1..n -> In(t)]
      BY <1>1, <2>1
    <2> QED BY <2>2, <2>3, <2>4, <1>1 DEF Bijection, Injection, Surjection, IsInjective
  <1>3. IsFiniteSet(1..n) /\ Cardinality(1..n) = n
    BY <1>1, FS_Interval
  <1>4. ExistsBijection(1..n, In(t))
    BY <1>2 DEF ExistsBijection
  <1> HIDE DEF n
  <1>5. IsFiniteSet(In(t)) /\ Cardinality(In(t)) = n
    BY <1>3, <1>4, FS_Bijection
  <1> QED BY <1>5 DEF n

\* What get adds to the touched array: the modified buffers in use.
LEMMA TouchAllSet ==
  ASSUME NEW c \in Seq(Buf), NEW s \in Seq(Buf), IsInjective(c)
  PROVE  /\ TouchAll(c, s) \in Seq(Buf) /\ IsInjective(TouchAll(c, s))
         /\ \A b \in Buf : Contains(TouchAll(c, s), b) <=>
              Contains(c, b) \/ ("MOD" \in flags[b] /\ Contains(s, b))
  <1> DEFINE n == Len(s)
  <1>1. PICK q : /\ TouchAll(c, s) = q[n] /\ q[0] = c
                 /\ \A i \in 0..n : q[i] \in Seq(Buf)
                 /\ \A i \in 1..n : q[i] = Touch(q[i - 1], s[n + 1 - i])
    BY TouchAllRec
  <1>2. n \in Nat
    OBVIOUS
  <1> DEFINE J == {i \in 0..n : /\ IsInjective(q[i])
                                /\ \A b \in Buf : Contains(q[i], b) <=>
                                     Contains(c, b) \/ ("MOD" \in flags[b] /\ \E k \in 1..i : s[n + 1 - k] = b)}
  <1>3. 0 \in J
    BY <1>1, <1>2
  <1>4. ASSUME NEW i \in 0..(n - 1), i \in J PROVE i + 1 \in J
    <2>1. /\ i + 1 \in 1..n /\ i + 1 \in 0..n /\ (i + 1) - 1 = i /\ i \in 0..n
          /\ n + 1 - (i + 1) \in 1..n /\ q[i] \in Seq(Buf)
      BY <1>1, <1>2
    <2> DEFINE d == s[n + 1 - (i + 1)]
    <2>2. d \in Buf
      BY <2>1, ElementOfSeq
    <2>3. q[i + 1] = Touch(q[i], d)
      BY <2>1, <1>1
    <2>4. \A b : (\E k \in 1..(i + 1) : s[n + 1 - k] = b) <=> (\E k \in 1..i : s[n + 1 - k] = b) \/ b = d
      <3> TAKE b
      <3>1. \A k : k \in 1..(i + 1) <=> k \in 1..i \/ k = i + 1
        BY <1>2
      <3> QED BY <3>1
    <2> HIDE DEF d
    <2>5. IsInjective(q[i]) /\ \A b \in Buf : Contains(q[i], b) <=>
                                     Contains(c, b) \/ ("MOD" \in flags[b] /\ \E k \in 1..i : s[n + 1 - k] = b)
      BY <1>4
    <2>6. CASE "MOD" \in flags[d] /\ ~Contains(q[i], d)
      <3>1. q[i + 1] = Append(q[i], d)
        BY <2>3, <2>6 DEF Touch
      <3>2. /\ \A b : Contains(q[i + 1], b) <=> Contains(q[i], b) \/ b = d
            /\ IsInjective(q[i + 1])
        BY <3>1, <2>1, <2>2, <2>5, <2>6, Appended
      <3> QED BY <3>2, <2>1, <2>4, <2>5, <2>6
    <2>7. CASE ~("MOD" \in flags[d] /\ ~Contains(q[i], d))
      <3>1. q[i + 1] = q[i]
        BY <2>3, <2>7 DEF Touch
      <3> QED BY <3>1, <2>1, <2>2, <2>4, <2>5, <2>7
    <2> QED BY <2>6, <2>7
  <1>5. n \in J
    <2> HIDE DEF J
    <2>1. \A i \in 0..n : i \in J
      BY <1>2, <1>3, <1>4, Upto
    <2> QED BY <2>1, <1>2
  <1>6. \A b : (\E k \in 1..n : s[n + 1 - k] = b) <=> Contains(s, b)
    <2> TAKE b
    <2>1. \A k \in 1..n : n + 1 - k \in 1..n /\ n + 1 - (n + 1 - k) = k
      BY <1>2
    <2> QED BY <2>1 DEF Contains
  <1>7. n \in 0..n /\ q[n] \in Seq(Buf)
    BY <1>1, <1>2
  <1> QED BY <1>1, <1>5, <1>6, <1>7

\* What wait keeps of the touched array; its first buffer stays first.
LEMMA KeptSet ==
  ASSUME NEW t \in Seq(Buf), NEW M, IsInjective(t)
  PROVE  /\ Kept(t, M) \in Seq(Buf) /\ IsInjective(Kept(t, M))
         /\ \A b \in Buf : Contains(Kept(t, M), b) <=> Contains(t, b) /\ b \in M
         /\ Len(Kept(t, M)) <= Len(t)
         /\ Len(t) > 0 /\ t[1] \notin M => Len(Kept(t, M)) < Len(t)
         /\ Len(t) > 0 /\ t[1] \in M => Len(Kept(t, M)) > 0 /\ Kept(t, M)[1] = t[1]
  <1> DEFINE n == Len(t)
  <1>0. PICK q : KeptBy(q, t, M)
    BY KeptRec
  <1>1. /\ Kept(t, M) = q[n] /\ q[0] = <<>>
        /\ \A i \in 0..n : q[i] \in Seq(Buf)
        /\ \A i \in 1..n : q[i] = IF t[i] \in M THEN Append(q[i - 1], t[i]) ELSE q[i - 1]
    BY <1>0 DEF KeptBy
  <1>2. n \in Nat /\ DOMAIN t = 1..n
    BY LenProperties
  <1> DEFINE J == {i \in 0..n :
                     /\ IsInjective(q[i])
                     /\ \A b \in Buf : Contains(q[i], b) <=> b \in M /\ \E k \in 1..i : t[k] = b
                     /\ Len(q[i]) <= i
                     /\ i > 0 /\ t[1] \notin M => Len(q[i]) < i
                     /\ i > 0 /\ t[1] \in M => Len(q[i]) > 0 /\ q[i][1] = t[1]}
  <1>3. 0 \in J
    <2>1. IsInjective(<<>>) /\ Len(<<>>) = 0 /\ \A b : ~Contains(<<>>, b)
      BY EmptySeq DEF IsInjective, Contains
    <2>2. \A b : ~\E k \in 1..0 : t[k] = b
      OBVIOUS
    <2> QED BY <2>1, <2>2, <1>1, <1>2
  <1>4. ASSUME NEW i \in 0..(n - 1), i \in J PROVE i + 1 \in J
    <2> DEFINE d == t[i + 1]
               u == q[i]
               v == q[i + 1]
    <2>1. /\ i + 1 \in 1..n /\ i + 1 \in 0..n /\ (i + 1) - 1 = i /\ i \in 0..n
          /\ u \in Seq(Buf) /\ v \in Seq(Buf) /\ Len(u) \in Nat /\ Len(v) \in Nat
      <3>1. i + 1 \in 1..n /\ i + 1 \in 0..n /\ (i + 1) - 1 = i /\ i \in 0..n
        BY <1>2
      <3>2. u \in Seq(Buf) /\ v \in Seq(Buf)
        BY <3>1, <1>1
      <3> QED BY <3>1, <3>2, LenProperties
    <2>2. d \in Buf
      BY <2>1, ElementOfSeq
    <2>3. v = IF d \in M THEN Append(u, d) ELSE u
      BY <2>1, <1>1
    <2>4. \A b : (\E k \in 1..(i + 1) : t[k] = b) <=> (\E k \in 1..i : t[k] = b) \/ b = d
      <3> TAKE b
      <3>1. \A k : k \in 1..(i + 1) <=> k \in 1..i \/ k = i + 1
        BY <1>2
      <3> QED BY <3>1
    <2>5. ~\E k \in 1..i : t[k] = d
      <3>1. \A k \in 1..i : k \in 1..n /\ k # i + 1
        BY <1>2
      <3> QED BY <3>1, <2>1, <1>2 DEF IsInjective
    <2>6. /\ IsInjective(u) /\ \A b \in Buf : Contains(u, b) <=> b \in M /\ \E k \in 1..i : t[k] = b
          /\ Len(u) <= i
          /\ i > 0 /\ t[1] \notin M => Len(u) < i
          /\ i > 0 /\ t[1] \in M => Len(u) > 0 /\ u[1] = t[1]
      BY <1>4
    <2>7. i = 0 => d = t[1]
      OBVIOUS
    <2> HIDE DEF d, u, v
    <2>8. /\ IsInjective(v) /\ \A b \in Buf : Contains(v, b) <=> b \in M /\ \E k \in 1..(i + 1) : t[k] = b
          /\ Len(v) <= i + 1
          /\ t[1] \notin M => Len(v) < i + 1
          /\ t[1] \in M => Len(v) > 0 /\ v[1] = t[1]
      <3>1. CASE d \in M
        <4>1. v = Append(u, d)
          BY <2>3, <3>1
        <4>2. /\ Len(v) = Len(u) + 1 /\ v[Len(u) + 1] = d
              /\ \A k \in 1..Len(u) : v[k] = u[k]
              /\ \A b : Contains(v, b) <=> Contains(u, b) \/ b = d
              /\ IsInjective(u) /\ ~Contains(u, d) => IsInjective(v)
          BY <4>1, <2>1, <2>2, Appended
        <4>3. IsInjective(v) /\ \A b \in Buf : Contains(v, b) <=> b \in M /\ \E k \in 1..(i + 1) : t[k] = b
          BY <4>2, <2>2, <2>4, <2>5, <2>6, <3>1
        <4>4. Len(v) <= i + 1 /\ (t[1] \notin M => Len(v) < i + 1)
          <5>1. t[1] \notin M => i > 0
            BY <2>7, <3>1
          <5> QED BY <5>1, <4>2, <2>1, <2>6, <1>2
        <4>5. t[1] \in M => Len(v) > 0 /\ v[1] = t[1]
          <5>1. CASE i = 0
            <6>1. Len(u) = 0
              BY <5>1, <2>1, <2>6
            <6> QED BY <6>1, <5>1, <4>2, <2>7
          <5>2. CASE i > 0
            <6>1. t[1] \in M => 1 \in 1..Len(u) /\ u[1] = t[1]
              BY <5>2, <2>1, <2>6
            <6> QED BY <6>1, <4>2, <2>1
          <5> QED BY <5>1, <5>2, <1>2
        <4> QED BY <4>3, <4>4, <4>5
      <3>2. CASE d \notin M
        <4>1. v = u
          BY <2>3, <3>2
        <4>2. t[1] \in M => i > 0
          BY <2>7, <3>2, <1>2
        <4>3. \A b \in Buf : Contains(v, b) <=> b \in M /\ \E k \in 1..(i + 1) : t[k] = b
          BY <4>1, <2>4, <2>6, <3>2
        <4>4. Len(v) < i + 1
          BY <4>1, <2>1, <2>6, <1>2
        <4> QED BY <4>1, <4>2, <4>3, <4>4, <2>1, <2>6, <1>2
      <3> QED BY <3>1, <3>2
    <2>9. i + 1 \in 0..n
      BY <2>1
    <2> QED BY <2>8, <2>9 DEF v
  <1>5. n \in J
    <2> HIDE DEF J, n
    <2>1. \A i \in 0..n : i \in J
      BY <1>2, <1>3, <1>4, Upto
    <2> QED BY <2>1, <1>2
  <1>6. n \in 0..n /\ q[n] \in Seq(Buf) /\ \A b : Contains(t, b) <=> \E k \in 1..n : t[k] = b
    BY <1>1, <1>2 DEF Contains
  <1> HIDE DEF n
  <1>7. /\ IsInjective(q[n]) /\ \A b \in Buf : Contains(q[n], b) <=> Contains(t, b) /\ b \in M
        /\ Len(q[n]) <= n
        /\ n > 0 /\ t[1] \notin M => Len(q[n]) < n
        /\ n > 0 /\ t[1] \in M => Len(q[n]) > 0 /\ q[n][1] = t[1]
    BY <1>5, <1>6
  <1> QED BY <1>1, <1>6, <1>7 DEF n

\* Whatever is modified is in the touched array t, once.
Listed(t, f) == IsInjective(t) /\ \A b \in Buf : "MOD" \in f[b] => Contains(t, b)

\* One sync forgets no modified buffer.  It shortens the array, or the first
\* buffer in it, of the filesystem flushed, is no longer modified.
LEMMA SyncedKeeps ==
  ASSUME NEW m \in Mid, NEW t \in Seq(Buf), NEW f \in [Buf -> SUBSET {"MOD", "CHK", "LOW"}],
         NEW lim \in Nat, Listed(t, f)
  PROVE  LET o == Synced(m, t, f, lim)
         IN  /\ Listed(o.t, o.f) /\ Len(o.t) <= Len(t)
             /\ \A b \in Buf : Contains(o.t, b) => Contains(t, b)
             /\ Len(t) > 0 /\ key[t[1]][2] = m /\ "MOD" \notin f[t[1]] => Len(o.t) < Len(t)
             /\ Len(t) > 0 /\ key[t[1]][2] = m /\ "MOD" \in f[t[1]] => Len(o.t) > 0 /\ "MOD" \notin o.f[o.t[1]]
  <1> DEFINE M == {b \in Buf : key[b][2] # m \/ "MOD" \in f[b]}
             u == Kept(t, M)
             g == [b \in Buf |-> IF Contains(t, b) /\ key[b][2] = m THEN f[b] \ {"CHK"} ELSE f[b]]
             h == Written(m, u, g, lim)
             mod == {i \in 1..Len(u) : key[u[i]][2] = m /\ "MOD" \in g[u[i]]}
  <1>1. Synced(m, t, f, lim) = [t |-> u, f |-> h]
    BY DEF Synced, Waited
  <1>2. IsInjective(t)
    BY DEF Listed
  <1> HIDE DEF M
  <1>3. /\ u \in Seq(Buf) /\ IsInjective(u)
        /\ \A b \in Buf : Contains(u, b) <=> Contains(t, b) /\ b \in M
        /\ Len(u) <= Len(t)
        /\ Len(t) > 0 /\ t[1] \notin M => Len(u) < Len(t)
        /\ Len(t) > 0 /\ t[1] \in M => Len(u) > 0 /\ u[1] = t[1]
    BY <1>2, KeptSet
  <1> HIDE DEF u
  <1>4. g \in [Buf -> SUBSET {"MOD", "CHK", "LOW"}] /\ \A b \in Buf : "MOD" \in g[b] <=> "MOD" \in f[b]
    OBVIOUS
  <1> HIDE DEF g
  <1>5. \A b \in Buf : "MOD" \in h[b] => "MOD" \in f[b]
    BY <1>4 DEF Written
  <1>6. \A b \in Buf : "MOD" \in h[b] => Contains(u, b)
    BY <1>3, <1>5 DEF Listed, M
  <1>7. ASSUME Len(t) > 0, key[t[1]][2] = m, "MOD" \in f[t[1]] PROVE Len(u) > 0 /\ "MOD" \notin h[u[1]]
    <2>1. t[1] \in Buf
      BY <1>7, ElementOfSeq
    <2>2. t[1] \in M
      BY <1>7, <2>1 DEF M
    <2>3. Len(u) > 0 /\ u[1] = t[1] /\ Len(u) \in Nat
      BY <2>2, <1>3, <1>7, LenProperties
    <2>4. 1 \in mod
      BY <2>1, <2>3, <1>4, <1>7
    <2>5. {j \in mod : j < 1} = {}
      OBVIOUS
    <2>6. Cardinality({j \in mod : j < 1}) <= lim
      <3>1. Cardinality({}) = 0
        BY FS_EmptySet
      <3>2. 0 <= lim
        OBVIOUS
      <3> QED BY <2>5, <3>1, <3>2
    <2>7. u[1] \in {u[i] : i \in {i \in mod : Cardinality({j \in mod : j < i}) <= lim}}
      <3> HIDE DEF mod
      <3> QED BY <2>4, <2>6
    <2>8. h = [b \in Buf |-> IF b \in {u[i] : i \in {i \in mod : Cardinality({j \in mod : j < i}) <= lim}}
                             THEN (g[b] \ {"MOD"}) \union {"CHK"} ELSE g[b]]
      BY DEF Written
    <2> HIDE DEF mod, h
    <2>9. h[u[1]] = (g[u[1]] \ {"MOD"}) \union {"CHK"}
      BY <2>1, <2>3, <2>7, <2>8
    <2> QED BY <2>3, <2>9
  <1>8. ASSUME Len(t) > 0, key[t[1]][2] = m, "MOD" \notin f[t[1]] PROVE Len(u) < Len(t)
    BY <1>3, <1>8 DEF M
  <1> HIDE DEF h
  <1>9. Listed(u, h)
    BY <1>3, <1>6 DEF Listed
  <1> QED BY <1>1, <1>3, <1>7, <1>8, <1>9

\* What is left to flush: every round of get(0) lowers it.
Left(o) == 2 * Len(o.t) - IF Len(o.t) > 0 /\ "MOD" \notin o.f[o.t[1]] THEN 1 ELSE 0

LEMMA LeftIs ==
  ASSUME NEW o \in Flushing
  PROVE  /\ Len(o.t) \in Nat /\ Left(o) \in Nat /\ Left(o) <= 2 * Len(o.t)
         /\ Left(o) = 0 => Len(o.t) = 0
         /\ Len(o.t) > 0 /\ "MOD" \notin o.f[o.t[1]] => Left(o) = 2 * Len(o.t) - 1
         /\ Len(o.t) > 0 /\ "MOD" \in o.f[o.t[1]] => Left(o) = 2 * Len(o.t)
  <1>1. Len(o.t) \in Nat
    BY LenProperties DEF Flushing
  <1> DEFINE n == Len(o.t)
             clean == "MOD" \notin o.f[o.t[1]]
  <1>2. Left(o) = 2 * n - IF n > 0 /\ clean THEN 1 ELSE 0
    BY DEF Left
  <1>3. n \in Nat
    BY <1>1
  <1> HIDE DEF n, clean
  <1>4. CASE n > 0 /\ clean
    <2>1. Left(o) = 2 * n - 1
      BY <1>2, <1>4
    <2> QED BY <2>1, <1>3, <1>4 DEF n, clean
  <1>5. CASE ~(n > 0 /\ clean)
    <2>1. Left(o) = 2 * n
      BY <1>2, <1>3, <1>5
    <2> QED BY <2>1, <1>3, <1>5 DEF n, clean
  <1> QED BY <1>4, <1>5

LEMMA RoundLess ==
  ASSUME NEW o \in Flushing, key \in Keys, Listed(o.t, o.f), ~(Len(o.t) < MaxTouch - MaxBuf)
  PROVE  Round(o) \in Flushing /\ Listed(Round(o).t, Round(o).f) /\ Left(Round(o)) < Left(o)
  <1>1. /\ o.t \in Seq(Buf) /\ o.f \in [Buf -> SUBSET {"MOD", "CHK", "LOW"}] /\ Len(o.t) \in Nat
        /\ MaxBuf \in Nat /\ MaxTouch \in Nat /\ MaxTouch > MaxBuf
    BY LenProperties, PoolAssumption DEF Flushing
  <1>2. Len(o.t) > 0
    BY <1>1
  <1> DEFINE m == key[o.t[1]][2]
             lim == Limit[m]
             p == Synced(m, o.t, o.f, lim)
  <1>3. m \in Mid
    <2>1. o.t[1] \in Buf
      BY <1>1, <1>2, ElementOfSeq
    <2> QED BY <2>1 DEF Keys
  <1>4. Round(o) = p /\ lim \in Nat
    BY <1>3, PoolAssumption DEF Round
  <1> HIDE DEF m, lim
  <1>5. p \in Flushing
    BY <1>1, SyncedType
  <1>6. /\ Listed(p.t, p.f) /\ Len(p.t) <= Len(o.t)
        /\ Len(o.t) > 0 /\ key[o.t[1]][2] = m /\ "MOD" \notin o.f[o.t[1]] => Len(p.t) < Len(o.t)
        /\ Len(o.t) > 0 /\ key[o.t[1]][2] = m /\ "MOD" \in o.f[o.t[1]] => Len(p.t) > 0 /\ "MOD" \notin p.f[p.t[1]]
    BY <1>1, <1>3, <1>4, SyncedKeeps
  <1> HIDE DEF p
  <1>7. /\ Len(p.t) \in Nat /\ Left(p) \in Nat /\ Left(p) <= 2 * Len(p.t)
        /\ Len(p.t) > 0 /\ "MOD" \notin p.f[p.t[1]] => Left(p) = 2 * Len(p.t) - 1
    BY <1>5, LeftIs
  <1>8. /\ "MOD" \notin o.f[o.t[1]] => Left(o) = 2 * Len(o.t) - 1
        /\ "MOD" \in o.f[o.t[1]] => Left(o) = 2 * Len(o.t)
    BY <1>2, LeftIs
  <1>9. Left(p) < Left(o)
    <2>1. CASE "MOD" \in o.f[o.t[1]]
      <3>1. Left(p) = 2 * Len(p.t) - 1
        BY <2>1, <1>2, <1>6, <1>7 DEF m
      <3> QED BY <3>1, <2>1, <1>1, <1>6, <1>7, <1>8
    <2>2. CASE "MOD" \notin o.f[o.t[1]]
      <3>1. Len(p.t) < Len(o.t)
        BY <2>2, <1>2, <1>6 DEF m
      <3> QED BY <3>1, <2>2, <1>1, <1>7, <1>8
    <2> QED BY <2>1, <2>2
  <1> QED BY <1>4, <1>5, <1>6, <1>9

\* The loop of get(0) ends, with room for another request in the touched array.
LEMMA RoundsEnd ==
  ASSUME NEW st \in Flushing, key \in Keys, Listed(st.t, st.f), Len(st.t) <= MaxTouch
  PROVE  LET o == Rounds(st)
         IN  o \in Flushing /\ Listed(o.t, o.f) /\ Len(o.t) < MaxTouch - MaxBuf
  <1> DEFINE n == 2 * MaxTouch
  <1>1. PICK q : /\ Rounds(st) = q[n] /\ q[0] = st
                 /\ \A i \in 0..n : q[i] \in Flushing
                 /\ \A i \in 1..n : q[i] = Round(q[i - 1])
    BY RoundsRec
  <1>2. MaxBuf \in Nat /\ MaxTouch \in Nat /\ MaxTouch > MaxBuf /\ n \in Nat
    BY PoolAssumption
  <1> DEFINE J == {i \in 0..n : /\ Listed(q[i].t, q[i].f)
                                /\ Len(q[i].t) < MaxTouch - MaxBuf \/ Left(q[i]) <= n - i}
  <1>3. 0 \in J
    <2>1. Left(st) \in Nat /\ Len(st.t) \in Nat /\ Left(st) <= 2 * Len(st.t)
      BY LeftIs
    <2>2. Left(st) <= n - 0 /\ 0 \in 0..n
      BY <2>1, <1>2
    <2> QED BY <2>2, <1>1
  <1>4. ASSUME NEW i \in 0..(n - 1), i \in J PROVE i + 1 \in J
    <2> HIDE DEF n
    <2>1. i + 1 \in 1..n /\ i + 1 \in 0..n /\ (i + 1) - 1 = i /\ i \in 0..n
      BY <1>2
    <2> DEFINE o == q[i]
               p == q[i + 1]
    <2>2. o \in Flushing /\ p \in Flushing /\ p = Round(o)
      BY <2>1, <1>1
    <2>3. Listed(o.t, o.f) /\ (Len(o.t) < MaxTouch - MaxBuf \/ Left(o) <= n - i)
      BY <1>4
    <2> HIDE DEF o, p
    <2>4. Listed(p.t, p.f) /\ (Len(p.t) < MaxTouch - MaxBuf \/ Left(p) <= n - (i + 1))
      <3>1. CASE Len(o.t) < MaxTouch - MaxBuf
        <4>1. p = o
          BY <3>1, <2>2 DEF Round
        <4> QED BY <4>1, <3>1, <2>3
      <3>2. CASE ~(Len(o.t) < MaxTouch - MaxBuf)
        <4>1. Listed(p.t, p.f) /\ Left(p) < Left(o)
          BY <3>2, <2>2, <2>3, RoundLess
        <4>2. Left(p) \in Nat /\ Left(o) \in Nat
          BY <2>2, LeftIs
        <4>3. Left(p) <= n - (i + 1)
          BY <4>1, <4>2, <3>2, <2>3, <1>2
        <4> QED BY <4>1, <4>3
      <3> QED BY <3>1, <3>2
    <2> QED BY <2>1, <2>4 DEF o, p
  <1>5. n \in J
    <2> HIDE DEF J, n
    <2>1. \A i \in 0..n : i \in J
      BY <1>2, <1>3, <1>4, Upto
    <2> QED BY <2>1, <1>2
  <1>6. Len(q[n].t) < MaxTouch - MaxBuf
    <2> HIDE DEF n
    <2>1. q[n] \in Flushing
      BY <1>1, <1>2
    <2>2. Len(q[n].t) < MaxTouch - MaxBuf \/ Left(q[n]) <= n - n
      BY <1>5
    <2>3. CASE Left(q[n]) <= n - n
      <3>1. Left(q[n]) = 0
        BY <2>1, <2>3, <1>2, LeftIs
      <3>2. Len(q[n].t) = 0
        BY <2>1, <3>1, LeftIs
      <3> QED BY <3>2, <1>2
    <2> QED BY <2>2, <2>3
  <1>7. q[n] \in Flushing /\ Listed(q[n].t, q[n].f)
    BY <1>1, <1>2, <1>5
  <1> QED BY <1>1, <1>6, <1>7

-----------------------------------------------------------------------------
\* What a request can still add to the touched array is what it has changed.
TouchedInv ==
  /\ TypeOK /\ IsInjective(touched)
  /\ \A b \in Buf : "MOD" \in flags[b] =>
       /\ Contains(inuse, b) \/ Contains(touched, b)
       /\ b \in changed \/ Contains(touched, b)
  /\ Cardinality(changed) <= MaxBuf
  /\ Cardinality(In(touched) \ changed) <= MaxTouch - MaxBuf

LEMMA TouchedRoom ==
  ASSUME TouchedInv
  PROVE  ModifiedTouched
  <1>1. touched \in Seq(Buf) /\ IsInjective(touched) /\ changed \in SUBSET Buf /\ IsFiniteSet(changed)
    BY PoolAssumption, FS_Subset DEF TouchedInv, TypeOK
  <1> DEFINE T == In(touched)
             new == T \ changed
  <1>2. IsFiniteSet(T) /\ Cardinality(T) = Len(touched)
    BY <1>1, LenIn
  <1> HIDE DEF T
  <1>3. IsFiniteSet(new)
    BY <1>2, FS_Difference
  <1>4. Cardinality(new) <= MaxTouch - MaxBuf /\ Cardinality(changed) <= MaxBuf
    BY DEF TouchedInv, T
  <1>5. /\ IsFiniteSet(new \union changed)
        /\ Cardinality(new \union changed) = Cardinality(new) + Cardinality(changed) - Cardinality(new \intersect changed)
    BY <1>1, <1>3, FS_Union
  <1>6. T \in SUBSET (new \union changed) /\ new \intersect changed = {}
    OBVIOUS
  <1>7. Cardinality(T) <= Cardinality(new \union changed)
    BY <1>5, <1>6, FS_Subset
  <1>8. Cardinality(new \intersect changed) = 0
    BY <1>6, FS_EmptySet
  <1>9. Cardinality(new) \in Nat /\ Cardinality(changed) \in Nat /\ Cardinality(T) \in Nat
        /\ MaxTouch \in Nat /\ MaxBuf \in Nat
    BY <1>1, <1>2, <1>3, FS_CardinalityType, PoolAssumption
  <1> HIDE DEF new
  <1>10. Len(touched) <= MaxTouch
    BY <1>2, <1>4, <1>5, <1>7, <1>8, <1>9
  <1> QED BY <1>10 DEF TouchedInv, ModifiedTouched

LEMMA TouchedInit == Init => TouchedInv
  <1> SUFFICES ASSUME Init PROVE TouchedInv
    OBVIOUS
  <1>1. touched = <<>> /\ changed = {} /\ \A b \in Buf : flags[b] = {}
    BY DEF Init
  <1>2. IsInjective(touched) /\ In(touched) = {}
    BY <1>1, EmptySeq DEF IsInjective, In, Contains
  <1>3. Cardinality({}) = 0 /\ In(touched) \ changed = {}
    BY <1>1, <1>2, FS_EmptySet
  <1>4. Cardinality(changed) <= MaxBuf /\ Cardinality(In(touched) \ changed) <= MaxTouch - MaxBuf
    <2>1. Cardinality(changed) = 0 /\ Cardinality(In(touched) \ changed) = 0
      BY <1>1, <1>3
    <2>2. 0 <= MaxBuf /\ 0 <= MaxTouch - MaxBuf
      BY PoolAssumption
    <2> QED BY <2>1, <2>2
  <1> QED BY <1>1, <1>2, <1>4, TypeInit DEF TouchedInv

LEMMA TouchedGet ==
  ASSUME TouchedInv, Get
  PROVE  TouchedInv'
  <1>0. TypeOK /\ TypeOK' /\ inuse \in Seq(Buf) /\ touched \in Seq(Buf) /\ IsInjective(touched)
    BY TypeOther DEF TouchedInv, TypeOK
  <1>1. touched' = TouchAll(touched, inuse) /\ inuse' = <<>> /\ changed' = changed
    BY DEF Get, Released
  <1>2. \A b \in Buf : "MOD" \in flags'[b] <=> "MOD" \in flags[b]
    <2>1. flags' = [b \in Buf |-> IF Contains(inuse, b) THEN flags[b] \ {"LOW"} ELSE flags[b]]
      BY DEF Get
    <2> QED BY <2>1
  <1>3. /\ IsInjective(touched')
        /\ \A b \in Buf : Contains(touched', b) <=> Contains(touched, b) \/ ("MOD" \in flags[b] /\ Contains(inuse, b))
    BY <1>0, <1>1, TouchAllSet
  <1>4. \A b \in Buf : "MOD" \in flags'[b] => Contains(touched', b)
    BY <1>2, <1>3 DEF TouchedInv
  <1>5. In(touched') \ changed' = In(touched) \ changed
    <2>1. \A b \in Buf : b \notin changed => (Contains(touched', b) <=> Contains(touched, b))
      BY <1>3 DEF TouchedInv
    <2> QED BY <2>1, <1>1 DEF In
  <1>6. Cardinality(changed') <= MaxBuf /\ Cardinality(In(touched') \ changed') <= MaxTouch - MaxBuf
    BY <1>1, <1>5 DEF TouchedInv
  <1>7. TouchedInv' <=> /\ TypeOK' /\ IsInjective(touched')
                        /\ \A b \in Buf : "MOD" \in flags'[b] =>
                             /\ Contains(inuse', b) \/ Contains(touched', b)
                             /\ b \in changed' \/ Contains(touched', b)
                        /\ Cardinality(changed') <= MaxBuf
                        /\ Cardinality(In(touched') \ changed') <= MaxTouch - MaxBuf
    BY DEF TouchedInv, In, IsInjective, Contains
  <1> QED BY <1>0, <1>3, <1>4, <1>6, <1>7

\* A step that leaves the touched array, and marks only buffers it takes into use
\* and counts as changed.
LEMMA TouchedMore ==
  ASSUME TouchedInv, TypeOK', touched' = touched, changed \subseteq changed',
         Cardinality(changed') <= MaxBuf,
         \A b \in Buf : Contains(inuse, b) => Contains(inuse', b),
         \A b \in Buf : "MOD" \in flags'[b] => "MOD" \in flags[b] \/ (Contains(inuse', b) /\ b \in changed')
  PROVE  TouchedInv'
  <1>1. \A b \in Buf : "MOD" \in flags'[b] =>
          /\ Contains(inuse', b) \/ Contains(touched, b)
          /\ b \in changed' \/ Contains(touched, b)
    BY DEF TouchedInv
  <1>2. Cardinality(In(touched) \ changed') <= MaxTouch - MaxBuf
    <2>1. In(touched) \in SUBSET Buf /\ In(touched) \ changed' \in SUBSET (In(touched) \ changed)
      BY DEF In
    <2>2. IsFiniteSet(In(touched) \ changed)
      BY <2>1, PoolAssumption, FS_Subset, FS_Difference
    <2>3. Cardinality(In(touched) \ changed') <= Cardinality(In(touched) \ changed)
      BY <2>1, <2>2, FS_Subset
    <2>4. Cardinality(In(touched) \ changed') \in Nat /\ Cardinality(In(touched) \ changed) \in Nat
      BY <2>1, <2>2, FS_Subset, FS_CardinalityType
    <2>5. Cardinality(In(touched) \ changed) <= MaxTouch - MaxBuf
      BY DEF TouchedInv
    <2> DEFINE x == Cardinality(In(touched) \ changed')
               y == Cardinality(In(touched) \ changed)
    <2>6. x \in Nat /\ y \in Nat /\ x <= y /\ y <= MaxTouch - MaxBuf
      BY <2>3, <2>4, <2>5
    <2> HIDE DEF x, y
    <2>7. x <= MaxTouch - MaxBuf
      BY <2>6, PoolAssumption
    <2> QED BY <2>7 DEF x
  <1>3. IsInjective(touched)
    BY DEF TouchedInv
  <1> QED BY <1>1, <1>2, <1>3 DEF TouchedInv, In, IsInjective, Contains

\* One more buffer changed, when there is room for it.
LEMMA ChangedMore ==
  ASSUME TouchedInv, NEW b \in Buf, b \in changed \/ Cardinality(changed) < MaxBuf
  PROVE  Cardinality(changed \union {b}) <= MaxBuf
  <1>1. changed \in SUBSET Buf /\ IsFiniteSet(changed) /\ Cardinality(changed) \in Nat /\ Cardinality(changed) <= MaxBuf
    BY PoolAssumption, FS_Subset, FS_CardinalityType DEF TouchedInv, TypeOK
  <1>2. Cardinality(changed \union {b}) = IF b \in changed THEN Cardinality(changed) ELSE Cardinality(changed) + 1
    BY <1>1, FS_AddElement
  <1>3. MaxBuf \in Nat
    BY PoolAssumption
  <1> QED BY <1>1, <1>2, <1>3

LEMMA TouchedMiss ==
  ASSUME TouchedInv, NEW k \in Blk \X Mid, NEW fails \in BOOLEAN, NEW new \in BOOLEAN, Miss(k, fails, new)
  PROVE  TouchedInv'
  <1>0. TypeOK /\ TypeOK'
    BY TypeMiss DEF TouchedInv
  <1>1. PICK i, b, s : MissIs(k, fails, new, i, b, s)
    BY <1>0, Missed
  <1>2. /\ b \in Buf /\ inuse \in Seq(Buf) /\ flags \in [Buf -> SUBSET {"MOD", "CHK", "LOW"}]
        /\ inuse' = Append(inuse, b) /\ touched' = touched
        /\ changed' = IF new THEN changed \union {b} ELSE changed
        /\ new => b \in changed \/ Cardinality(changed) < MaxBuf
    BY <1>0, <1>1, ElementOfSeq DEF MissIs, TypeOK
  <1>3. \A c \in Buf : (Contains(inuse, c) => Contains(inuse', c)) /\ Contains(inuse', b)
    BY <1>2, Appended
  <1>4. Cardinality(changed') <= MaxBuf
    <2>1. new => Cardinality(changed \union {b}) <= MaxBuf
      BY <1>2, ChangedMore
    <2> QED BY <2>1, <1>2 DEF TouchedInv
  <1>5. \A c \in Buf : "MOD" \in flags'[c] => "MOD" \in flags[c] \/ (Contains(inuse', c) /\ c \in changed')
    <2> DEFINE f == IF new THEN {"MOD"} ELSE IF ~fails THEN {} ELSE IF "MOD" \in flags[b] THEN {"CHK"} ELSE flags[b]
    <2>1. flags' = [flags EXCEPT ![b] = f]
      BY <1>1 DEF MissIs
    <2>2. "MOD" \in f => new
      OBVIOUS
    <2> HIDE DEF f
    <2>3. flags'[b] = f /\ \A c \in Buf : c # b => flags'[c] = flags[c]
      BY <2>1, <1>2
    <2> QED BY <2>2, <2>3, <1>2, <1>3
  <1>6. changed \subseteq changed'
    BY <1>2
  <1> QED BY <1>0, <1>2, <1>3, <1>4, <1>5, <1>6, TouchedMore

LEMMA TouchedModify ==
  ASSUME TouchedInv, NEW b \in Buf, NEW low \in BOOLEAN, Modify(b, low)
  PROVE  TouchedInv'
  <1>0. TypeOK /\ TypeOK' /\ flags \in [Buf -> SUBSET {"MOD", "CHK", "LOW"}]
    BY TypeOther DEF TouchedInv, TypeOK
  <1>1. /\ Contains(inuse, b) /\ changed' = changed \union {b} /\ touched' = touched /\ inuse' = inuse
        /\ b \in changed \/ Cardinality(changed) < MaxBuf
    BY DEF Modify
  <1>2. Cardinality(changed') <= MaxBuf
    BY <1>1, ChangedMore
  <1>3. \A c \in Buf : c # b => flags'[c] = flags[c]
    BY <1>0 DEF Modify
  <1> QED BY <1>0, <1>1, <1>2, <1>3, TouchedMore

LEMMA TouchedHit ==
  ASSUME TouchedInv, NEW k \in Blk \X Mid, Hit(k)
  PROVE  TouchedInv'
  <1>0. TypeOK /\ TypeOK'
    BY TypeHit DEF TouchedInv
  <1>1. UNCHANGED <<table, key, flags, touched, changed>> /\ inuse \in Seq(Buf)
    BY <1>0 DEF Hit, TypeOK
  <1> DEFINE b == table[Lookup(k)]
  <1>2. inuse' = inuse \/ inuse' = Append(inuse, b)
    BY DEF Hit
  <1>3. b \in Buf
    <2>1. Lookup(k) \in Slots
      BY <1>0, LookupType DEF Hit, TypeOK, Tables
    <2>2. b # Nil
      BY DEF Hit
    <2> QED BY <2>1, <2>2, <1>0 DEF TypeOK
  <1> HIDE DEF b
  <1>4. \A c \in Buf : Contains(inuse, c) => Contains(inuse', c)
    <2>1. CASE inuse' = inuse
      BY <2>1
    <2>2. CASE inuse' = Append(inuse, b)
      BY <2>2, <1>1, <1>3, Appended
    <2> QED BY <1>2, <2>1, <2>2
  <1>5. Cardinality(changed') <= MaxBuf
    BY <1>1 DEF TouchedInv
  <1> QED BY <1>0, <1>1, <1>4, <1>5, TouchedMore

\* Between requests the touched array lists what is modified.
LEMMA ListedNow ==
  ASSUME TouchedInv, inuse = <<>>
  PROVE  /\ Listed(touched, flags) /\ Len(touched) <= MaxTouch /\ touched \in Seq(Buf)
         /\ [t |-> touched, f |-> flags] \in Flushing
  <1>1. \A b \in Buf : ~Contains(inuse, b)
    BY EmptySeq DEF Contains
  <1>2. Listed(touched, flags)
    BY <1>1 DEF TouchedInv, Listed
  <1> QED BY <1>2, TouchedRoom DEF ModifiedTouched, TouchedInv, TypeOK, Flushing

\* And after a flush, when nothing is counted as changed.
LEMMA TouchedFlushed ==
  ASSUME TypeOK', inuse' = <<>>, changed' = {}, Listed(touched', flags'), Len(touched') <= MaxTouch - MaxBuf
  PROVE  TouchedInv'
  <1>1. touched' \in Seq(Buf) /\ IsInjective(touched')
    BY DEF Listed, TypeOK
  <1> DEFINE t == touched'
  <1>2. Cardinality(In(t)) = Len(t)
    <2> HIDE DEF t
    <2> QED BY <1>1, LenIn DEF t
  <1>3. In(t) \ changed' = In(t) /\ Cardinality(changed') = 0
    BY FS_EmptySet
  <1>4. Cardinality(changed') <= MaxBuf
    BY <1>3, PoolAssumption
  <1>5. Cardinality(In(t) \ changed') <= MaxTouch - MaxBuf
    BY <1>2, <1>3
  <1>6. \A b \in Buf : "MOD" \in flags'[b] => Contains(t, b)
    BY DEF Listed
  <1> QED BY <1>1, <1>4, <1>5, <1>6 DEF TouchedInv, In, IsInjective, Contains

LEMMA TouchedFinish ==
  ASSUME TouchedInv, Finish
  PROVE  TouchedInv'
  <1>0. TypeOK /\ TypeOK' /\ inuse = <<>> /\ inuse' = <<>> /\ changed' = {} /\ key \in Keys
    BY TypeOther DEF TouchedInv, Finish, TypeOK, Keys
  <1> DEFINE st == [t |-> touched, f |-> flags]
             o == Rounds(st)
  <1>1. Listed(st.t, st.f) /\ Len(st.t) <= MaxTouch /\ st \in Flushing
    BY <1>0, ListedNow
  <1>2. touched' = o.t /\ flags' = o.f
    BY DEF Finish
  <1> HIDE DEF st
  <1>3. o \in Flushing /\ Listed(o.t, o.f) /\ Len(o.t) < MaxTouch - MaxBuf
    BY <1>0, <1>1, RoundsEnd
  <1> HIDE DEF o
  <1>4. Len(o.t) \in Nat
    BY <1>3, LeftIs
  <1>5. Len(o.t) <= MaxTouch - MaxBuf
    BY <1>3, <1>4, PoolAssumption
  <1> QED BY <1>0, <1>2, <1>3, <1>5, TouchedFlushed

LEMMA TouchedUnmount ==
  ASSUME TouchedInv, NEW m \in Mid, Unmount(m)
  PROVE  TouchedInv'
  <1>0. TypeOK /\ TypeOK' /\ inuse = <<>> /\ inuse' = <<>> /\ changed = {} /\ changed' = {}
    BY TypeOther DEF TouchedInv, Unmount
  <1>1. Listed(touched, flags) /\ touched \in Seq(Buf) /\ flags \in [Buf -> SUBSET {"MOD", "CHK", "LOW"}]
    BY <1>0, ListedNow DEF TypeOK
  <1> DEFINE one == Synced(m, touched, flags, Len(touched))
             two == Synced(m, one.t, one.f, Len(one.t))
  <1>2. touched' = two.t /\ flags' = two.f
    BY DEF Unmount
  <1>3. one \in Flushing /\ Listed(one.t, one.f) /\ Len(one.t) <= Len(touched) /\ Len(touched) \in Nat
    <2>1. Len(touched) \in Nat
      BY <1>1, LenProperties
    <2> DEFINE n == Len(touched)
    <2>2. n \in Nat
      BY <2>1
    <2> HIDE DEF n
    <2>3. Synced(m, touched, flags, n) \in Flushing
      BY <1>1, SyncedType
    <2>4. LET o == Synced(m, touched, flags, n) IN Listed(o.t, o.f) /\ Len(o.t) <= Len(touched)
      BY <1>1, <2>2, SyncedKeeps
    <2> QED BY <2>1, <2>3, <2>4 DEF n
  <1> HIDE DEF one
  <1>4. Len(one.t) \in Nat /\ one.t \in Seq(Buf) /\ one.f \in [Buf -> SUBSET {"MOD", "CHK", "LOW"}]
    BY <1>3, LenProperties DEF Flushing
  <1>5. two \in Flushing /\ Listed(two.t, two.f) /\ Len(two.t) <= Len(one.t)
    <2> DEFINE t == one.t
               f == one.f
               n == Len(one.t)
    <2>1. t \in Seq(Buf) /\ f \in [Buf -> SUBSET {"MOD", "CHK", "LOW"}] /\ n \in Nat /\ Listed(t, f)
      BY <1>3, <1>4
    <2> HIDE DEF t, f, n
    <2>2. Synced(m, t, f, n) \in Flushing
      BY <2>1, SyncedType
    <2>3. LET o == Synced(m, t, f, n) IN Listed(o.t, o.f) /\ Len(o.t) <= Len(t)
      BY <2>1, SyncedKeeps
    <2> QED BY <2>2, <2>3 DEF t, f, n
  <1> HIDE DEF two
  <1>6. Len(two.t) \in Nat
    BY <1>5, LeftIs
  <1>7. Len(touched) <= MaxTouch - MaxBuf
    <2>1. Cardinality(In(touched)) = Len(touched)
      BY <1>1, LenIn DEF Listed
    <2>2. In(touched) \ changed = In(touched)
      BY <1>0
    <2> QED BY <2>1, <2>2 DEF TouchedInv
  <1>8. Len(two.t) <= MaxTouch - MaxBuf
    BY <1>3, <1>4, <1>5, <1>6, <1>7, PoolAssumption
  <1> QED BY <1>0, <1>2, <1>5, <1>8, TouchedFlushed

LEMMA TouchedStep ==
  ASSUME TouchedInv, [Next]_vars
  PROVE  TouchedInv'
  <1>0. TypeOK'
    BY TypeStep DEF TouchedInv
  <1>1. ASSUME UNCHANGED <<flags, inuse, touched, changed>> PROVE TouchedInv'
    BY <1>0, <1>1 DEF TouchedInv, In, IsInjective, Contains
  <1>2. CASE UNCHANGED vars
    BY <1>1, <1>2 DEF vars
  <1>3. CASE Get
    BY <1>3, TouchedGet
  <1>4. CASE Finish
    BY <1>4, TouchedFinish
  <1>5. ASSUME NEW k \in Blk \X Mid, Hit(k) PROVE TouchedInv'
    BY <1>5, TouchedHit
  <1>6. ASSUME NEW k \in Blk \X Mid, Miss(k, FALSE, FALSE) \/ Miss(k, FALSE, TRUE) \/ Miss(k, TRUE, FALSE)
        PROVE  TouchedInv'
    BY <1>6, TouchedMiss
  <1>7. ASSUME NEW b \in Buf, NEW low \in BOOLEAN, Modify(b, low) PROVE TouchedInv'
    BY <1>7, TouchedModify
  <1>8. CASE \E np, bp \in Buf : Swap(np, bp)
    BY <1>1, <1>8 DEF Swap
  <1>9. CASE \E m \in Mid : Unmount(m)
    BY <1>9, TouchedUnmount
  <1> QED BY <1>2, <1>3, <1>4, <1>5, <1>6, <1>7, <1>8, <1>9 DEF Next

-----------------------------------------------------------------------------
\* ChainWhole.

\* Two sequences joined.
LEMMA Joined ==
  ASSUME NEW s \in Seq(Buf), NEW t \in Seq(Buf)
  PROVE  /\ s \o t \in Seq(Buf)
         /\ \A b : Contains(s \o t, b) <=> Contains(s, b) \/ Contains(t, b)
         /\ IsInjective(s) /\ IsInjective(t) /\ (\A b \in Buf : ~(Contains(s, b) /\ Contains(t, b)))
              => IsInjective(s \o t)
  <1> DEFINE u == s \o t
             m == Len(s)
             n == Len(t)
  <1>1. /\ u \in Seq(Buf) /\ Len(u) = m + n /\ m \in Nat /\ n \in Nat
        /\ \A i \in 1..(m + n) : u[i] = IF i <= m THEN s[i] ELSE t[i - m]
    BY ConcatProperties, LenProperties
  <1>2. DOMAIN u = 1..(m + n) /\ DOMAIN s = 1..m /\ DOMAIN t = 1..n
    BY <1>1, LenProperties
  <1> HIDE DEF u
  <1>3. \A b : Contains(u, b) <=> Contains(s, b) \/ Contains(t, b)
    <2> TAKE b
    <2>1. ASSUME NEW i \in 1..Len(u), u[i] = b PROVE Contains(s, b) \/ Contains(t, b)
      <3>1. CASE i <= m
        <4>1. i \in 1..m /\ s[i] = b
          BY <2>1, <3>1, <1>1
        <4> QED BY <4>1 DEF Contains
      <3>2. CASE ~(i <= m)
        <4>1. i - m \in 1..n /\ t[i - m] = b
          BY <2>1, <3>2, <1>1
        <4> QED BY <4>1 DEF Contains
      <3> QED BY <3>1, <3>2
    <2>2. ASSUME NEW i \in 1..m, s[i] = b PROVE Contains(u, b)
      <3>1. i \in 1..Len(u) /\ u[i] = b
        BY <2>2, <1>1
      <3> QED BY <3>1 DEF Contains
    <2>3. ASSUME NEW i \in 1..n, t[i] = b PROVE Contains(u, b)
      <3>1. i + m \in 1..(m + n) /\ ~(i + m <= m) /\ (i + m) - m = i
        BY <1>1
      <3>2. i + m \in 1..Len(u) /\ u[i + m] = b
        BY <3>1, <2>3, <1>1
      <3> QED BY <3>2 DEF Contains
    <2> QED BY <2>1, <2>2, <2>3 DEF Contains
  <1>4. ASSUME IsInjective(s), IsInjective(t), \A b \in Buf : ~(Contains(s, b) /\ Contains(t, b))
        PROVE  IsInjective(u)
    <2> SUFFICES ASSUME NEW i \in 1..(m + n), NEW j \in 1..(m + n), u[i] = u[j], i <= j PROVE i = j
      <3>1. \A i, j \in 1..(m + n) : i <= j \/ j <= i
        BY <1>1
      <3> QED BY <3>1, <1>2 DEF IsInjective
    <2>1. CASE j <= m
      <3>1. i \in 1..m /\ j \in 1..m /\ s[i] = s[j]
        BY <2>1, <1>1
      <3> QED BY <3>1, <1>2, <1>4 DEF IsInjective
    <2>2. CASE ~(i <= m)
      <3>1. i - m \in 1..n /\ j - m \in 1..n /\ t[i - m] = t[j - m]
        BY <2>2, <1>1
      <3>2. i - m = j - m
        BY <3>1, <1>2, <1>4 DEF IsInjective
      <3> QED BY <3>2, <1>1
    <2>3. CASE i <= m /\ ~(j <= m)
      <3>1. i \in 1..m /\ j - m \in 1..n /\ s[i] = t[j - m] /\ s[i] \in Buf
        <4>1. i \in 1..m /\ j - m \in 1..n /\ s[i] = t[j - m]
          BY <2>3, <1>1
        <4> QED BY <4>1, ElementOfSeq
      <3>2. Contains(s, s[i]) /\ Contains(t, s[i])
        BY <3>1 DEF Contains
      <3> QED BY <3>1, <3>2, <1>4
    <2> QED BY <2>1, <2>2, <2>3
  <1> QED BY <1>1, <1>3, <1>4 DEF u

\* The beginning and the end of a sequence.
LEMMA Parts ==
  ASSUME NEW c \in Seq(Buf), NEW i \in 0..Len(c), NEW j \in 1..(Len(c) + 1)
  PROVE  LET s == SubSeq(c, 1, i)
             t == SubSeq(c, j, Len(c))
         IN  /\ s \in Seq(Buf) /\ \A b : Contains(s, b) <=> \E k \in 1..i : c[k] = b
             /\ t \in Seq(Buf) /\ \A b : Contains(t, b) <=> \E k \in j..Len(c) : c[k] = b
             /\ IsInjective(c) => IsInjective(s) /\ IsInjective(t)
  <1> DEFINE n == Len(c)
             s == SubSeq(c, 1, i)
             t == SubSeq(c, j, n)
  <1>1. n \in Nat /\ DOMAIN c = 1..n /\ i \in Int /\ j \in Int /\ \A k \in 1..n : c[k] \in Buf
    BY LenProperties, ElementOfSeq
  <1>2. s \in Seq(Buf) /\ Len(s) = i /\ \A k \in 1..i : s[k] = c[k]
    <2>1. \A k \in 1..i : c[k] \in Buf
      BY <1>1
    <2>2. /\ s \in Seq(Buf) /\ Len(s) = (IF 1 <= i THEN i - 1 + 1 ELSE 0)
          /\ \A k \in 1..(i - 1 + 1) : s[k] = c[1 + k - 1]
      BY <2>1, <1>1, SubSeqProperties
    <2>3. Len(s) = i /\ \A k \in 1..i : k \in 1..(i - 1 + 1) /\ 1 + k - 1 = k
      BY <2>2, <1>1
    <2> QED BY <2>2, <2>3
  <1>3. t \in Seq(Buf) /\ Len(t) = n - j + 1 /\ \A k \in 1..(n - j + 1) : t[k] = c[j + k - 1]
    <2>1. \A k \in j..n : c[k] \in Buf
      BY <1>1
    <2>2. /\ t \in Seq(Buf) /\ Len(t) = (IF j <= n THEN n - j + 1 ELSE 0)
          /\ \A k \in 1..(n - j + 1) : t[k] = c[j + k - 1]
      BY <2>1, <1>1, SubSeqProperties
    <2>3. Len(t) = n - j + 1
      BY <2>2, <1>1
    <2> QED BY <2>2, <2>3
  <1> HIDE DEF s, t
  <1>4. \A b : Contains(s, b) <=> \E k \in 1..i : c[k] = b
    BY <1>2 DEF Contains
  <1>5. \A b : Contains(t, b) <=> \E k \in j..n : c[k] = b
    <2> TAKE b
    <2>1. ASSUME NEW k \in 1..Len(t), t[k] = b PROVE \E l \in j..n : c[l] = b
      <3>1. j + k - 1 \in j..n /\ c[j + k - 1] = b
        BY <2>1, <1>1, <1>3
      <3> QED BY <3>1
    <2>2. ASSUME NEW l \in j..n, c[l] = b PROVE Contains(t, b)
      <3>1. l - j + 1 \in 1..(n - j + 1) /\ j + (l - j + 1) - 1 = l
        BY <1>1
      <3>2. t[l - j + 1] = b
        BY <3>1, <2>2, <1>3
      <3> QED BY <3>1, <3>2, <1>3 DEF Contains
    <2> QED BY <2>1, <2>2 DEF Contains
  <1>6. ASSUME IsInjective(c) PROVE IsInjective(s) /\ IsInjective(t)
    <2>1. IsInjective(s)
      <3> SUFFICES ASSUME NEW k \in 1..i, NEW l \in 1..i, s[k] = s[l] PROVE k = l
        BY <1>2, LenProperties DEF IsInjective
      <3>1. k \in 1..n /\ l \in 1..n /\ c[k] = c[l]
        BY <1>1, <1>2
      <3> QED BY <3>1, <1>1, <1>6 DEF IsInjective
    <2>2. IsInjective(t)
      <3> SUFFICES ASSUME NEW k \in 1..(n - j + 1), NEW l \in 1..(n - j + 1), t[k] = t[l] PROVE k = l
        BY <1>3, LenProperties DEF IsInjective
      <3>1. j + k - 1 \in 1..n /\ j + l - 1 \in 1..n /\ c[j + k - 1] = c[j + l - 1]
        BY <1>1, <1>3
      <3>2. j + k - 1 = j + l - 1
        BY <3>1, <1>1, <1>6 DEF IsInjective
      <3> QED BY <3>2, <1>1
    <2> QED BY <2>1, <2>2
  <1> QED BY <1>2, <1>3, <1>4, <1>5, <1>6 DEF s, t

\* A buffer taken from the chain: whichever way its rest is put together.
LEMMA Taken ==
  ASSUME NEW c \in Seq(Buf), IsInjective(c), NEW i \in 1..Len(c)
  PROVE  LET s == SubSeq(c, 1, i - 1)
             t == SubSeq(c, i + 1, Len(c))
         IN  /\ IsInjective(s \o t) /\ \A b \in Buf : Contains(s \o t, b) <=> Contains(c, b) /\ b # c[i]
             /\ IsInjective(t \o s) /\ \A b \in Buf : Contains(t \o s, b) <=> Contains(c, b) /\ b # c[i]
  <1> DEFINE n == Len(c)
             s == SubSeq(c, 1, i - 1)
             t == SubSeq(c, i + 1, n)
  <1>1. n \in Nat /\ DOMAIN c = 1..n /\ i - 1 \in 0..n /\ i + 1 \in 1..(n + 1)
    BY LenProperties
  <1>2. /\ s \in Seq(Buf) /\ \A b : Contains(s, b) <=> \E k \in 1..(i - 1) : c[k] = b
        /\ t \in Seq(Buf) /\ \A b : Contains(t, b) <=> \E k \in (i + 1)..n : c[k] = b
        /\ IsInjective(s) /\ IsInjective(t)
    BY <1>1, Parts
  <1> HIDE DEF s, t
  <1>3. \A k, l \in 1..n : c[k] = c[l] => k = l
    BY <1>1 DEF IsInjective
  <1>4. \A b \in Buf : ~(Contains(s, b) /\ Contains(t, b))
    <2> SUFFICES ASSUME NEW k \in 1..(i - 1), NEW l \in (i + 1)..n, c[k] = c[l] PROVE FALSE
      BY <1>2
    <2>1. k \in 1..n /\ l \in 1..n /\ k # l
      BY <1>1
    <2> QED BY <2>1, <1>3
  <1>5. \A b \in Buf : Contains(s, b) \/ Contains(t, b) <=> Contains(c, b) /\ b # c[i]
    <2> TAKE b \in Buf
    <2>1. \A k : k \in 1..n /\ k # i <=> k \in 1..(i - 1) \/ k \in (i + 1)..n
      BY <1>1
    <2>2. Contains(c, b) /\ b # c[i] <=> \E k \in 1..n : k # i /\ c[k] = b
      BY <1>3 DEF Contains
    <2> QED BY <2>1, <2>2, <1>2
  <1>6. \A b : Contains(s \o t, b) <=> Contains(s, b) \/ Contains(t, b)
    BY <1>2, Joined
  <1>7. \A b : Contains(t \o s, b) <=> Contains(s, b) \/ Contains(t, b)
    BY <1>2, Joined
  <1>8. IsInjective(s \o t) /\ IsInjective(t \o s)
    BY <1>2, <1>4, Joined
  <1> QED BY <1>5, <1>6, <1>7, <1>8 DEF s, t

\* A buffer put back, at the end or behind the two used last.
LEMMA ReleaseSet ==
  ASSUME NEW c \in Seq(Buf), IsInjective(c), NEW d \in Buf, ~Contains(c, d)
  PROVE  /\ IsInjective(Release(c, d)) /\ \A b \in Buf : Contains(Release(c, d), b) <=> Contains(c, b) \/ b = d
  <1> DEFINE n == Len(c)
             s == SubSeq(c, 1, n - 2)
             t == SubSeq(c, n - 1, n)
  <1>1. n \in Nat /\ DOMAIN c = 1..n
    BY LenProperties
  <1>2. CASE "LOW" \in flags[d] /\ n > 1
    <2>1. n - 2 \in 0..n /\ n - 1 \in 1..(n + 1)
      BY <1>1, <1>2
    <2>2. /\ s \in Seq(Buf) /\ \A b : Contains(s, b) <=> \E k \in 1..(n - 2) : c[k] = b
          /\ t \in Seq(Buf) /\ \A b : Contains(t, b) <=> \E k \in (n - 1)..n : c[k] = b
          /\ IsInjective(s) /\ IsInjective(t)
      BY <2>1, Parts
    <2> DEFINE m == <<d>>
    <2>3. m \in Seq(Buf) /\ IsInjective(m) /\ \A b : Contains(m, b) <=> b = d
      <3>1. Len(m) = 1 /\ m[1] = d /\ DOMAIN m = 1..1 /\ m \in Seq(Buf)
        OBVIOUS
      <3> QED BY <3>1 DEF Contains, IsInjective
    <2>4. Release(c, d) = s \o m \o t
      BY <1>2 DEF Release
    <2> HIDE DEF s, t, m
    <2>5. \A b : Contains(c, b) <=> Contains(s, b) \/ Contains(t, b)
      <3>1. \A k : k \in 1..n <=> k \in 1..(n - 2) \/ k \in (n - 1)..n
        BY <1>1, <1>2
      <3> QED BY <3>1, <2>2 DEF Contains
    <2>6. \A b \in Buf : ~(Contains(s, b) /\ Contains(t, b))
      <3> SUFFICES ASSUME NEW k \in 1..(n - 2), NEW l \in (n - 1)..n, c[k] = c[l] PROVE FALSE
        BY <2>2
      <3>1. k \in 1..n /\ l \in 1..n /\ k # l
        BY <1>1, <1>2
      <3> QED BY <3>1, <1>1 DEF IsInjective
    <2>7. \A b \in Buf : ~(Contains(s, b) /\ Contains(m, b))
      BY <2>3, <2>5
    <2>8. s \o m \in Seq(Buf) /\ IsInjective(s \o m) /\ \A b : Contains(s \o m, b) <=> Contains(s, b) \/ Contains(m, b)
      BY <2>2, <2>3, <2>7, Joined
    <2> DEFINE a == s \o m
    <2>9. a \in Seq(Buf) /\ IsInjective(a) /\ \A b : Contains(a, b) <=> Contains(s, b) \/ b = d
      BY <2>3, <2>8
    <2> HIDE DEF a
    <2>10. \A b \in Buf : ~(Contains(a, b) /\ Contains(t, b))
      BY <2>5, <2>6, <2>9
    <2>11. IsInjective(a \o t) /\ \A b : Contains(a \o t, b) <=> Contains(a, b) \/ Contains(t, b)
      BY <2>2, <2>9, <2>10, Joined
    <2>12. Release(c, d) = a \o t
      BY <2>4 DEF a
    <2> QED BY <2>5, <2>9, <2>11, <2>12
  <1>3. CASE ~("LOW" \in flags[d] /\ n > 1)
    <2>1. Release(c, d) = Append(c, d)
      BY <1>3 DEF Release
    <2> QED BY <2>1, Appended
  <1> QED BY <1>2, <1>3

\* What get puts back: all buffers in use.
LEMMA ReleaseAllSet ==
  ASSUME NEW c \in Seq(Buf), NEW s \in Seq(Buf), IsInjective(c), IsInjective(s),
         \A b \in Buf : ~(Contains(c, b) /\ Contains(s, b))
  PROVE  /\ ReleaseAll(c, s) \in Seq(Buf) /\ IsInjective(ReleaseAll(c, s))
         /\ \A b \in Buf : Contains(ReleaseAll(c, s), b) <=> Contains(c, b) \/ Contains(s, b)
  <1> DEFINE n == Len(s)
  <1>1. PICK q : /\ ReleaseAll(c, s) = q[n] /\ q[0] = c
                 /\ \A i \in 0..n : q[i] \in Seq(Buf)
                 /\ \A i \in 1..n : q[i] = Release(q[i - 1], s[n + 1 - i])
    BY ReleaseAllRec
  <1>2. n \in Nat /\ DOMAIN s = 1..n
    BY LenProperties
  <1> DEFINE J == {i \in 0..n : /\ IsInjective(q[i])
                                /\ \A b \in Buf : Contains(q[i], b) <=>
                                     Contains(c, b) \/ \E k \in 1..i : s[n + 1 - k] = b}
  <1>3. 0 \in J
    BY <1>1, <1>2
  <1>4. ASSUME NEW i \in 0..(n - 1), i \in J PROVE i + 1 \in J
    <2>1. /\ i + 1 \in 1..n /\ i + 1 \in 0..n /\ (i + 1) - 1 = i /\ i \in 0..n
          /\ n + 1 - (i + 1) \in 1..n /\ q[i] \in Seq(Buf)
      BY <1>1, <1>2
    <2> DEFINE d == s[n + 1 - (i + 1)]
    <2>2. d \in Buf /\ Contains(s, d)
      BY <2>1, ElementOfSeq DEF Contains
    <2>3. q[i + 1] = Release(q[i], d)
      BY <2>1, <1>1
    <2>4. \A b : (\E k \in 1..(i + 1) : s[n + 1 - k] = b) <=> (\E k \in 1..i : s[n + 1 - k] = b) \/ b = d
      <3> TAKE b
      <3>1. \A k : k \in 1..(i + 1) <=> k \in 1..i \/ k = i + 1
        BY <1>2
      <3> QED BY <3>1
    <2>5. ~\E k \in 1..i : s[n + 1 - k] = d
      <3> SUFFICES ASSUME NEW k \in 1..i, s[n + 1 - k] = d PROVE FALSE
        OBVIOUS
      <3>1. n + 1 - k \in 1..n /\ n + 1 - k # n + 1 - (i + 1)
        BY <1>2
      <3> QED BY <3>1, <2>1, <1>2 DEF IsInjective
    <2> HIDE DEF d
    <2>6. IsInjective(q[i]) /\ \A b \in Buf : Contains(q[i], b) <=>
                                     Contains(c, b) \/ \E k \in 1..i : s[n + 1 - k] = b
      BY <1>4
    <2>7. ~Contains(q[i], d)
      BY <2>2, <2>5, <2>6
    <2>8. IsInjective(q[i + 1]) /\ \A b \in Buf : Contains(q[i + 1], b) <=> Contains(q[i], b) \/ b = d
      BY <2>1, <2>2, <2>3, <2>6, <2>7, ReleaseSet
    <2> QED BY <2>1, <2>4, <2>6, <2>8
  <1>5. n \in J
    <2> HIDE DEF J
    <2>1. \A i \in 0..n : i \in J
      BY <1>2, <1>3, <1>4, Upto
    <2> QED BY <2>1, <1>2
  <1>6. \A b : (\E k \in 1..n : s[n + 1 - k] = b) <=> Contains(s, b)
    <2> TAKE b
    <2>1. \A k \in 1..n : n + 1 - k \in 1..n /\ n + 1 - (n + 1 - k) = k
      BY <1>2
    <2> QED BY <2>1 DEF Contains
  <1>7. n \in 0..n /\ q[n] \in Seq(Buf)
    BY <1>1, <1>2
  <1> QED BY <1>1, <1>5, <1>6, <1>7

\* All buffers, in some order.
LEMMA AllOrdered == IsInjective(SetToSeq(Buf)) /\ \A b \in Buf : Contains(SetToSeq(Buf), b)
  <1> DEFINE n == Cardinality(Buf)
             q == SetToSeq(Buf)
  <1>1. n \in Nat /\ ExistsBijection(1..n, Buf) /\ IsFiniteSet(Buf)
    BY PoolAssumption, FS_CardinalityType
  <1>2. PICK f \in Bijection(1..n, Buf) : TRUE
    BY <1>1 DEF ExistsBijection
  <1>3. f \in [1..n -> Buf] /\ IsInjective(f)
    BY <1>2 DEF Bijection, Injection, IsInjective
  <1>4. q \in [1..n -> Buf] /\ IsInjective(q)
    BY <1>3 DEF SetToSeq
  <1> HIDE DEF q
  <1>5. q \in Injection(1..n, Buf)
    BY <1>4 DEF Injection, IsInjective
  <1>6. Cardinality(1..n) = n /\ IsFiniteSet(1..n)
    BY <1>1, FS_Interval
  <1>7. q \in Surjection(1..n, Buf)
    BY <1>1, <1>5, <1>6, FS_Injection
  <1>8. Len(q) = n
    BY <1>1, <1>4
  <1>9. \A b \in Buf : \E i \in 1..n : q[i] = b
    BY <1>7 DEF Surjection
  <1> QED BY <1>4, <1>8, <1>9 DEF q, Contains

-----------------------------------------------------------------------------
ChainInv ==
  /\ TypeOK /\ Len(inuse) <= MaxBuf
  /\ IsInjective(chain) /\ IsInjective(inuse)
  /\ \A b \in Buf : Contains(chain, b) <=> ~Contains(inuse, b)

\* There are more buffers than a request may use.
LEMMA ChainLeft ==
  ASSUME ChainInv
  PROVE  ChainWhole
  <1>1. inuse \in Seq(Buf) /\ IsInjective(inuse) /\ Len(inuse) <= MaxBuf
    BY DEF ChainInv, TypeOK
  <1>2. Cardinality(In(inuse)) = Len(inuse) /\ Len(inuse) \in Nat
    BY <1>1, LenIn, LenProperties
  <1>3. In(inuse) # Buf
    BY <1>1, <1>2, PoolAssumption, FS_CardinalityType
  <1>4. PICK b \in Buf : ~Contains(inuse, b)
    BY <1>3 DEF In
  <1>5. Contains(chain, b)
    BY <1>4 DEF ChainInv
  <1>6. chain # <<>>
    BY <1>5, EmptySeq DEF Contains
  <1> QED BY <1>6 DEF ChainInv, ChainWhole

LEMMA ChainInit == Init => ChainInv
  <1> SUFFICES ASSUME Init PROVE ChainInv
    OBVIOUS
  <1>1. chain = SetToSeq(Buf) /\ inuse = <<>>
    BY DEF Init
  <1>2. IsInjective(inuse) /\ Len(inuse) = 0 /\ \A b : ~Contains(inuse, b)
    BY <1>1, EmptySeq DEF IsInjective, Contains
  <1> QED BY <1>1, <1>2, AllOrdered, TypeInit, PoolAssumption DEF ChainInv

LEMMA ChainGet ==
  ASSUME ChainInv, Get
  PROVE  ChainInv'
  <1>0. TypeOK' /\ chain \in Seq(Buf) /\ inuse \in Seq(Buf) /\ IsInjective(chain) /\ IsInjective(inuse)
    BY TypeOther DEF ChainInv, TypeOK
  <1>1. chain' = ReleaseAll(chain, inuse) /\ inuse' = <<>>
    BY DEF Get, Released
  <1>2. IsInjective(inuse') /\ Len(inuse') = 0 /\ \A b : ~Contains(inuse', b)
    BY <1>1, EmptySeq DEF IsInjective, Contains
  <1>3. \A b \in Buf : ~(Contains(chain, b) /\ Contains(inuse, b))
    BY DEF ChainInv
  <1>4. IsInjective(chain') /\ \A b \in Buf : Contains(chain', b) <=> Contains(chain, b) \/ Contains(inuse, b)
    BY <1>0, <1>1, <1>3, ReleaseAllSet
  <1>5. \A b \in Buf : Contains(chain', b)
    BY <1>4 DEF ChainInv
  <1>6. Len(inuse') <= MaxBuf
    BY <1>2, PoolAssumption
  <1> QED BY <1>0, <1>2, <1>4, <1>5, <1>6 DEF ChainInv, IsInjective, Contains

\* The buffer b goes from the chain into use.
LEMMA ChainMoves ==
  ASSUME ChainInv, TypeOK', Len(inuse) < MaxBuf, NEW b \in Buf, ~Contains(inuse, b),
         inuse' = Append(inuse, b), IsInjective(chain'),
         \A c \in Buf : Contains(chain', c) <=> Contains(chain, c) /\ c # b
  PROVE  ChainInv'
  <1>1. inuse \in Seq(Buf) /\ IsInjective(inuse) /\ Len(inuse) \in Nat
    BY LenProperties DEF ChainInv, TypeOK
  <1>2. IsInjective(inuse') /\ Len(inuse') = Len(inuse) + 1 /\ \A c : Contains(inuse', c) <=> Contains(inuse, c) \/ c = b
    BY <1>1, Appended
  <1>3. \A c \in Buf : Contains(chain', c) <=> ~Contains(inuse', c)
    BY <1>2 DEF ChainInv
  <1>4. Len(inuse') <= MaxBuf
    BY <1>1, <1>2, PoolAssumption
  <1> QED BY <1>2, <1>3, <1>4 DEF ChainInv, IsInjective, Contains

LEMMA ChainMiss ==
  ASSUME ChainInv, NEW k \in Blk \X Mid, NEW fails \in BOOLEAN, NEW new \in BOOLEAN, Miss(k, fails, new)
  PROVE  ChainInv'
  <1>0. TypeOK /\ TypeOK' /\ chain \in Seq(Buf) /\ IsInjective(chain) /\ Len(inuse) < MaxBuf
    BY TypeMiss DEF ChainInv, Miss, TypeOK
  <1>1. PICK i, b, s : MissIs(k, fails, new, i, b, s)
    BY <1>0, Missed
  <1>2. /\ i \in 1..Len(chain) /\ b = chain[i] /\ b \in Buf /\ inuse' = Append(inuse, b)
        /\ chain' = SubSeq(chain, i + 1, Len(chain)) \o SubSeq(chain, 1, i - 1)
    BY <1>0, <1>1, ElementOfSeq DEF MissIs
  <1>3. IsInjective(chain') /\ \A c \in Buf : Contains(chain', c) <=> Contains(chain, c) /\ c # b
    BY <1>0, <1>2, Taken
  <1>4. Contains(chain, b)
    BY <1>2 DEF Contains
  <1>5. ~Contains(inuse, b)
    BY <1>2, <1>4 DEF ChainInv
  <1> QED BY <1>0, <1>2, <1>3, <1>5, ChainMoves

LEMMA ChainHit ==
  ASSUME ChainInv, NEW k \in Blk \X Mid, Hit(k)
  PROVE  ChainInv'
  <1>0. TypeOK /\ TypeOK' /\ chain \in Seq(Buf) /\ IsInjective(chain) /\ Len(inuse) < MaxBuf
    BY TypeHit DEF ChainInv, Hit, TypeOK
  <1> DEFINE b == table[Lookup(k)]
             I == {j \in 1..Len(chain) : chain[j] = b}
             i == IF I # {} THEN Min(I) ELSE 0
  <1>1. b \in Buf
    <2>1. Lookup(k) \in Slots
      BY <1>0, LookupType DEF Hit, TypeOK, Tables
    <2>2. b # Nil
      BY DEF Hit
    <2> QED BY <2>1, <2>2, <1>0 DEF TypeOK
  <1>2. CASE Contains(inuse, b)
    <2>1. chain' = chain /\ inuse' = inuse
      BY <1>2 DEF Hit
    <2> QED BY <2>1, <1>0 DEF ChainInv, IsInjective, Contains
  <1>3. CASE ~Contains(inuse, b)
    <2>1. Contains(chain, b)
      BY <1>1, <1>3 DEF ChainInv
    <2>2. SelectInSeq(chain, LAMBDA c : c = b) = i
      BY DEF SelectInSeq
    <2>3. chain' = RemoveAt(chain, i) /\ inuse' = Append(inuse, b)
      BY <2>2, <1>3 DEF Hit
    <2> HIDE DEF b
    <2>4. i \in I
      <3>1. I # {} /\ I \in SUBSET Nat
        BY <2>1 DEF Contains
      <3> HIDE DEF I
      <3>2. \E x \in I : \A y \in I : x <= y
        BY <3>1, Least
      <3>3. Min(I) \in I
        BY <3>2 DEF Min
      <3> QED BY <3>1, <3>3
    <2>5. i \in 1..Len(chain) /\ chain[i] = b
      BY <2>4
    <2> HIDE DEF i
    <2>6. chain' = SubSeq(chain, 1, i - 1) \o SubSeq(chain, i + 1, Len(chain))
      BY <2>3 DEF RemoveAt
    <2>7. IsInjective(chain') /\ \A c \in Buf : Contains(chain', c) <=> Contains(chain, c) /\ c # b
      BY <1>0, <2>5, <2>6, Taken
    <2> QED BY <1>0, <1>1, <1>3, <2>3, <2>7, ChainMoves
  <1> QED BY <1>2, <1>3

LEMMA ChainStep ==
  ASSUME ChainInv, [Next]_vars
  PROVE  ChainInv'
  <1>0. TypeOK'
    BY TypeStep DEF ChainInv
  <1>1. ASSUME UNCHANGED <<chain, inuse>> PROVE ChainInv'
    BY <1>0, <1>1 DEF ChainInv, IsInjective, Contains
  <1>2. CASE UNCHANGED vars
    BY <1>1, <1>2 DEF vars
  <1>3. CASE Get
    BY <1>3, ChainGet
  <1>4. CASE Finish
    BY <1>1, <1>4 DEF Finish
  <1>5. ASSUME NEW k \in Blk \X Mid, Hit(k) PROVE ChainInv'
    BY <1>5, ChainHit
  <1>6. ASSUME NEW k \in Blk \X Mid, Miss(k, FALSE, FALSE) \/ Miss(k, FALSE, TRUE) \/ Miss(k, TRUE, FALSE)
        PROVE  ChainInv'
    BY <1>6, ChainMiss
  <1>7. CASE \E b \in Buf, low \in BOOLEAN : Modify(b, low)
    BY <1>1, <1>7 DEF Modify
  <1>8. CASE \E np, bp \in Buf : Swap(np, bp)
    BY <1>1, <1>8 DEF Swap
  <1>9. CASE \E m \in Mid : Unmount(m)
    BY <1>1, <1>9 DEF Unmount
  <1> QED BY <1>2, <1>3, <1>4, <1>5, <1>6, <1>7, <1>8, <1>9 DEF Next

(* For pools and arrays of any size, and whether or not reads fail: what a   *)
(* request modifies is flushed, for every modified buffer not in use is in  *)
(* the touched array, once, and the array has room for all that a request   *)
(* can add (BufferPool::get, sync, wait).                                   *)
THEOREM ModifiedStayTouched == MCSpec => []ModifiedTouched
  <1>1. MCInit => TouchedInv
    BY TouchedInit DEF MCInit
  <1>2. TouchedInv /\ [MCNext]_<<vars, mountVars, nodeVars, part>> => TouchedInv'
    <2>1. [MCNext]_<<vars, mountVars, nodeVars, part>> => [Next]_vars
      BY DEF MCNext
    <2> QED BY <2>1, TouchedStep
  <1>3. TouchedInv => ModifiedTouched
    BY TouchedRoom
  <1> QED BY <1>1, <1>2, <1>3, PTL DEF MCSpec

(* And no buffer is lost from the chain or twice in it, and find always has *)
(* one to take: what get says it assumes, and would have an assertion for   *)
(* (hash.c:167-169).                                                        *)
THEOREM ChainStaysWhole == MCSpec => []ChainWhole
  <1>1. MCInit => ChainInv
    BY ChainInit DEF MCInit
  <1>2. ChainInv /\ [MCNext]_<<vars, mountVars, nodeVars, part>> => ChainInv'
    <2>1. [MCNext]_<<vars, mountVars, nodeVars, part>> => [Next]_vars
      BY DEF MCNext
    <2> QED BY <2>1, ChainStep
  <1>3. ChainInv => ChainWhole
    BY ChainLeft
  <1> QED BY <1>1, <1>2, <1>3, PTL DEF MCSpec

(* BlocksKept, for pools of any size and any hash function, as long as no   *)
(* read of a block fails: besides the two before, a block is in one buffer, *)
(* and the search by probing ends and finds that buffer after any sequence  *)
(* of reuse, deletion, swap and unmount (BufferPool::find, rehash, swap,    *)
(* clear).                                                                  *)
THEOREM BlocksStayKept ==
  ASSUME ~Failing
  PROVE  MCSpec => []BlocksKept
  <1> DEFINE Inv == FoundInv /\ TouchedInv /\ ChainInv
  <1>1. MCInit => Inv
    BY FoundInit, TouchedInit, ChainInit DEF MCInit
  <1>2. Inv /\ [MCNext]_<<vars, mountVars, nodeVars, part>> => Inv'
    <2>1. [MCNext]_<<vars, mountVars, nodeVars, part>> => [Next]_vars
      BY DEF MCNext
    <2> QED BY <2>1, FoundStep, TouchedStep, ChainStep
  <1>3. Inv => BlocksKept
    BY HashFinds, TouchedRoom, ChainLeft DEF FoundInv, BlocksKept
  <1> QED BY <1>1, <1>2, <1>3, PTL DEF MCSpec

-----------------------------------------------------------------------------
(* The mount and extent tables.                                             *)

(* MountTable with its proofs, and the filesystems of MCBlocks.             *)
MP == INSTANCE MountTable_proofs WITH
  Fs <- {solo, trio, plain},
  Extents <- [f \in {solo, trio, plain} |-> IF f = trio THEN 3 ELSE 1],
  Area <- [f \in {solo, trio, plain} |-> CASE f = solo -> 2 [] f = trio -> 1 [] OTHER -> 0-1],
  Missing <- {trio}

LEMMA SameMounts ==
  /\ Mounts!Init <=> MP!Init
  /\ Mounts!Next <=> MP!Next
  /\ MountsOwn <=> MP!ExtentsOwned /\ MP!DescriptorsKept
  /\ MP!MountAssumption
  <1>1. Mounts!Init <=> MP!Init
    BY DEF Mounts!Init, MP!Init, Mounts!Mnt, MP!Mnt, Mounts!Slot, MP!Slot, Mounts!Fd, MP!Fd,
           Mounts!Stdin, MP!Stdin, Mounts!NotOpen, MP!NotOpen
  <1> USE DEF Mounts!Mnt, MP!Mnt, Mounts!Slot, MP!Slot, Mounts!Fd, MP!Fd,
              Mounts!NotOpen, MP!NotOpen, Mounts!IsOpen, MP!IsOpen
  <1>0. \A S : Mounts!Cardinality(S) = MP!Cardinality(S)
    BY DEF Mounts!Cardinality, MP!Cardinality
  <1>2. \A n : Mounts!Lowest(n) = MP!Lowest(n)
    BY DEF Mounts!Lowest, MP!Lowest, Mounts!Unused, MP!Unused
  <1>3. /\ Mounts!Unused = MP!Unused
        /\ \A f \in {solo, trio, plain} :
             /\ Mounts!Room(f) <=> MP!Room(f)
             /\ Mounts!SeemsMounted(f) <=> MP!SeemsMounted(f)
             /\ \A old : Mounts!MaxBlks(f, old) = MP!MaxBlks(f, old)
        /\ \A m : Mounts!FreeMid(m) <=> MP!FreeMid(m)
    BY DEF Mounts!FreeMid, MP!FreeMid, Mounts!SeemsMounted, MP!SeemsMounted,
           Mounts!Unused, MP!Unused, Mounts!Room, MP!Room, Mounts!MaxBlks, MP!MaxBlks
  <1>4. \A m \in Mounts!Mnt, f \in {solo, trio, plain} :
          /\ Mounts!Mount(m, f) <=> MP!Mount(m, f)
          /\ \A j : Mounts!MountMissing(m, f, j) <=> MP!MountMissing(m, f, j)
    <2> TAKE m \in Mounts!Mnt, f \in {solo, trio, plain}
    <2>1. Mounts!Mount(m, f) <=> MP!Mount(m, f)
      BY <1>0, <1>2, <1>3 DEF Mounts!Mount, MP!Mount
    <2>2. ASSUME NEW j PROVE Mounts!MountMissing(m, f, j) <=> MP!MountMissing(m, f, j)
      <3>1. Mounts!Lowest(j) = MP!Lowest(j)
        BY <1>2
      <3> HIDE DEF Mounts!IsOpen, MP!IsOpen
      <3> QED BY <1>0, <1>3, <3>1, SMTT(60) DEF Mounts!MountMissing, MP!MountMissing, Mounts!CleanedUp, MP!CleanedUp
    <2> QED BY <2>1, <2>2
  <1>5. ASSUME NEW m \in Mounts!Mnt
        PROVE  /\ Mounts!Unmount(m) <=> MP!Unmount(m)
               /\ Mounts!WriteHdr(m) <=> MP!WriteHdr(m)
    BY DEF Mounts!Unmount, MP!Unmount, Mounts!WriteHdr, MP!WriteHdr,
           Mounts!Closed, MP!Closed, Mounts!Compressed, MP!Compressed,
           Mounts!Rebased, MP!Rebased
  <1>6. Mounts!Next <=> MP!Next
    BY <1>4, <1>5 DEF Mounts!Next, MP!Next, Mounts!Tick, MP!Tick
  <1>7. MountsOwn <=> MP!ExtentsOwned /\ MP!DescriptorsKept
    BY DEF MountsOwn, Mounts!ExtentsOwned, MP!ExtentsOwned, Mounts!Extent, MP!Extent,
           Mounts!DescriptorsKept, MP!DescriptorsKept,
           Mounts!DescriptorsOpenBut, MP!DescriptorsOpenBut, Mounts!NoLeakBut, MP!NoLeakBut
  <1>8. MP!MountAssumption
    BY MountsAssumption DEF Mounts!MountAssumption, MP!MountAssumption
  <1> QED BY <1>1, <1>6, <1>7, <1>8

(* MountsOwn, for tables of any size: whichever filesystems are mounted,    *)
(* fail to mount half way and are unmounted, every extent of a mounted one  *)
(* is in the shared table where its device looks for it, no descriptor of   *)
(* another one is closed and none is left behind, but for the two that a    *)
(* mount failing half way puts in question (DEV::open, DEV::close).         *)
THEOREM MountsStayOwn == MCSpec => []MountsOwn
  <1> DEFINE Inv == MP!IInv /\ MP!Described
  <1>1. MCInit => Inv
    BY SameMounts, MP!InitIInv, MP!InitDescribed DEF MCInit
  <1>2. Inv /\ [MCNext]_<<vars, mountVars, nodeVars, part>> => Inv'
    <2>1. [MCNext]_<<vars, mountVars, nodeVars, part>> => [MP!Next]_(MP!vars)
      BY SameMounts DEF MCNext, mountVars, MP!vars
    <2> QED BY <2>1, SameMounts, MP!StepIInv, MP!StepDescribed
  <1>3. Inv => MountsOwn
    BY SameMounts DEF MP!IInv, MP!Described, MP!DescriptorsKept
  <1> QED BY <1>1, <1>2, <1>3, PTL DEF MCSpec
=============================================================================

------------------------- MODULE MountTable_proofs -------------------------
(***************************************************************************)
(* Proofs about MountTable, for tables of any size and filesystems of any  *)
(* number of extents: the compression of the shared extent table by        *)
(* DEV::close leaves every other device its extents.                       *)
(***************************************************************************)
EXTENDS MountTable, FiniteSetTheorems, WellFoundedInduction, TLAPS

(* The types the argument needs. *)
Typed ==
  /\ devtbl \in [Mnt -> [fs: Fs \cup {NoFs}, baseid: Nat, mtime: Nat, maxblks: Int]]
  /\ extcnt \in 0..MaxExt
  /\ DOMAIN extbl = Slot
  /\ \A i \in Slot : extbl[i].mid \in Mnt
  /\ now \in Nat

IInv == Typed /\ ExtentsOwned

(* The extents of a device are an interval.                                 *)
LEMMA Interval ==
  ASSUME NEW b \in Nat, NEW n \in Nat
  PROVE  /\ {b + i : i \in 0..(n - 1)} \subseteq Nat
         /\ \A e \in Int : e \in {b + i : i \in 0..(n - 1)} <=> b <= e /\ e < b + n
  <1>1. ASSUME NEW e \in Int, b <= e, e < b + n PROVE e \in {b + i : i \in 0..(n - 1)}
    <2>1. e - b \in 0..(n - 1) /\ e = b + (e - b)
      BY <1>1
    <2> QED BY <2>1
  <1>2. ASSUME NEW e \in Int, e \in {b + i : i \in 0..(n - 1)} PROVE b <= e /\ e < b + n
    BY <1>2
  <1> QED BY <1>1, <1>2

(* An open device has at least one extent, and its extents are consecutive. *)
LEMMA ExtentRange ==
  ASSUME MountAssumption, Typed, NEW m \in Mnt, IsOpen(m)
  PROVE  /\ Extents[devtbl[m].fs] \in Nat \ {0}
         /\ devtbl[m].baseid \in Nat /\ devtbl[m].fs \in Fs
        /\ Extent(m) \subseteq Nat
         /\ \A e \in Int : e \in Extent(m) <=> /\ devtbl[m].baseid <= e
                                               /\ e < devtbl[m].baseid + Extents[devtbl[m].fs]
  <1>1. devtbl[m].fs \in Fs /\ devtbl[m].baseid \in Nat
    BY DEF Typed, IsOpen
  <1>2. Extents[devtbl[m].fs] \in Nat \ {0}
    BY <1>1 DEF MountAssumption
  <1> QED BY <1>1, <1>2, Interval DEF Extent

LEMMA InitIInv == MountAssumption /\ Init => IInv
  <1> SUFFICES ASSUME MountAssumption, Init PROVE IInv
    OBVIOUS
  <1>1. 0 \in Mnt
    BY DEF MountAssumption, Mnt
  <1>2. Typed
    BY <1>1 DEF Init, Typed, MountAssumption
  <1>3. ExtentsOwned
    BY DEF Init, ExtentsOwned, IsOpen
  <1> QED BY <1>2, <1>3 DEF IInv

(* Two open devices do not overlap: one lies wholly below the other.        *)
LEMMA Apart ==
  ASSUME MountAssumption, IInv, NEW m \in Mnt, NEW k \in Mnt, IsOpen(m), IsOpen(k), m # k
  PROVE  \/ devtbl[k].baseid + Extents[devtbl[k].fs] <= devtbl[m].baseid
         \/ devtbl[m].baseid + Extents[devtbl[m].fs] <= devtbl[k].baseid
  <1> DEFINE a == devtbl[m].baseid
             x == Extents[devtbl[m].fs]
             b == devtbl[k].baseid
             y == Extents[devtbl[k].fs]
  <1>1. a \in Nat /\ b \in Nat /\ x \in Nat \ {0} /\ y \in Nat \ {0}
    BY ExtentRange DEF IInv
  <1>2. \A e \in Int : ~(a <= e /\ e < a + x /\ b <= e /\ e < b + y)
    BY ExtentRange DEF IInv, ExtentsOwned
  <1>3. CASE a <= b
    BY <1>1, <1>2, <1>3
  <1>4. CASE b <= a
    BY <1>1, <1>2, <1>4
  <1> QED BY <1>1, <1>3, <1>4

(* A mount takes the free entries behind the others.                        *)
LEMMA MountKeeps ==
  ASSUME MountAssumption, IInv, NEW m \in Mnt, NEW f \in Fs, Mount(m, f)
  PROVE  IInv'
  <1> DEFINE n == Extents[f]
  <1>1. n \in Nat \ {0} /\ extcnt \in Nat /\ extcnt + n <= MaxExt /\ MaxExt \in Nat
    BY DEF MountAssumption, IInv, Typed, Mount, Room
  <1>2. /\ extcnt' = extcnt + n
        /\ devtbl' = [devtbl EXCEPT ![m] = [fs |-> f, baseid |-> extcnt, mtime |-> now,
                                            maxblks |-> MaxBlks(f, devtbl[m].maxblks)]]
        /\ DOMAIN extbl' = Slot
        /\ \A i \in Slot : extbl'[i].mid = IF i \in extcnt..(extcnt + n - 1) THEN m ELSE extbl[i].mid
        /\ ~IsOpen(m) /\ now' = now
    BY DEF Mount, FreeMid
  <1>3. MaxBlks(f, devtbl[m].maxblks) \in Int
    BY DEF MaxBlks, MountAssumption, IInv, Typed
  <1>4. Typed'
    BY <1>1, <1>2, <1>3 DEF IInv, Typed
  <1>5. f # NoFs /\ IsOpen(m)'
    BY <1>2 DEF IsOpen, MountAssumption, IInv, Typed
  <1>6. \A k \in Mnt \ {m} : /\ devtbl'[k] = devtbl[k] /\ IsOpen(k)' = IsOpen(k)
                            /\ Extent(k)' = Extent(k)
    BY <1>2 DEF IsOpen, Extent, IInv, Typed
  <1>7. \A e \in Int : e \in Extent(m)' <=> extcnt <= e /\ e < extcnt + n
    <2>1. devtbl'[m].fs = f /\ devtbl'[m].baseid = extcnt
      BY <1>2 DEF IInv, Typed
    <2> QED BY <1>1, <2>1, Interval DEF Extent
  <1>8. ASSUME NEW k \in Mnt, IsOpen(k)', NEW e \in Extent(k)'
        PROVE  e < extcnt' /\ extbl'[e].mid = k
    <2>1. CASE k = m
      <3>1. e \in Int
        BY <2>1, <1>2, <1>1 DEF Extent, IInv, Typed
      <3> QED BY <2>1, <3>1, <1>7, <1>2, <1>1 DEF Slot
    <2>2. CASE k # m
      <3>1. IsOpen(k) /\ e \in Extent(k)
        BY <2>2, <1>6, <1>8
      <3>2. e < extcnt /\ extbl[e].mid = k
        BY <3>1 DEF IInv, ExtentsOwned
      <3>3. e \in Nat
        BY <3>1, ExtentRange DEF Extent, IInv
      <3> QED BY <3>2, <3>3, <1>2, <1>1 DEF Slot
    <2> QED BY <2>1, <2>2
  <1>9. ASSUME NEW e \in 0..(extcnt' - 1)
        PROVE  \E k \in Mnt : IsOpen(k)' /\ e \in Extent(k)'
    <2>1. CASE e < extcnt
      <3>1. PICK k \in Mnt : IsOpen(k) /\ e \in Extent(k)
        BY <2>1, <1>1, <1>2 DEF IInv, ExtentsOwned
      <3>2. k # m
        BY <3>1, <1>2
      <3> QED BY <3>1, <3>2, <1>6
    <2>2. CASE e >= extcnt
      BY <2>2, <1>1, <1>2, <1>5, <1>7
    <2> QED BY <2>1, <2>2, <1>1
  <1> QED BY <1>4, <1>8, <1>9 DEF IInv, ExtentsOwned

(* A mount that fails half way writes entries that are not in use.          *)
LEMMA MissingKeeps ==
  ASSUME MountAssumption, IInv, NEW m \in Mnt, NEW f \in Fs,
         NEW j \in 1..(Extents[f] - 1), MountMissing(m, f, j)
  PROVE  IInv'
  <1>1. /\ UNCHANGED <<devtbl, extcnt, now>>
        /\ DOMAIN extbl' = Slot
        /\ \A i \in Slot : extbl'[i].mid \in {extbl[i].mid, m}
        /\ \A i \in Slot : i < extcnt => extbl'[i] = extbl[i]
    <2>1. Extents[f] \in Nat /\ extcnt \in Nat /\ Slot \subseteq Int
      BY DEF MountAssumption, IInv, Typed, Slot
    <2>2. \A i \in Slot : i < extcnt => i \notin extcnt..(extcnt + j - 1) /\ i # extcnt + j
      BY <2>1
    <2> QED BY <2>1, <2>2 DEF MountMissing
  <1>2. Typed'
    BY <1>1 DEF IInv, Typed
  <1>3. \A k \in Mnt : IsOpen(k)' = IsOpen(k) /\ Extent(k)' = Extent(k)
    BY <1>1 DEF IsOpen, Extent
  <1>4. ASSUME NEW k \in Mnt, IsOpen(k), NEW e \in Extent(k)
        PROVE  e < extcnt /\ extbl'[e].mid = k
    <2>1. e < extcnt /\ extbl[e].mid = k
      BY <1>4 DEF IInv, ExtentsOwned
    <2>2. e \in Nat /\ extcnt \in 0..MaxExt /\ MaxExt \in Nat
      BY <1>4, ExtentRange DEF IInv, Typed, MountAssumption
    <2>3. e \in Slot
      BY <2>1, <2>2 DEF Slot
    <2> QED BY <2>1, <2>3, <1>1
  <1> QED BY <1>1, <1>2, <1>3, <1>4 DEF IInv, ExtentsOwned

(* Where entry i of the table comes from when the n entries from base on are  *)
(* taken out of it.                                                         *)
From(i, base, n) == IF i >= base THEN i + n ELSE i

(* An unmount moves the entries above down over the gap, and the devices    *)
(* they belong to with them; those below stay.                              *)
LEMMA UnmountMoves ==
  ASSUME MountAssumption, IInv, NEW m \in Mnt, Unmount(m)
  PROVE  LET base == devtbl[m].baseid
             n == Extents[devtbl[m].fs]
         IN  /\ IsOpen(m) /\ ~IsOpen(m)' /\ Typed'
             /\ n \in Nat \ {0} /\ base \in Nat /\ extcnt \in Nat /\ base + n <= extcnt
             /\ extcnt' = extcnt - n /\ extcnt <= MaxExt /\ MaxExt \in Nat
             /\ \A i \in 0..(extcnt - n - 1) : extbl'[i] = extbl[From(i, base, n)]
             /\ \A k \in Mnt \ {m} : IsOpen(k)' = IsOpen(k) /\ devtbl'[k].fs = devtbl[k].fs
             /\ \A k \in Mnt \ {m}, e \in Int : IsOpen(k) =>
                  /\ e \in Extent(k)' <=> e \in 0..(extcnt - n - 1) /\ From(e, base, n) \in Extent(k)
                  /\ e \in Extent(k)' =>
                       e - devtbl'[k].baseid = From(e, base, n) - devtbl[k].baseid
  <1> DEFINE base == devtbl[m].baseid
             n == Extents[devtbl[m].fs]
  <1>1. /\ IsOpen(m) /\ extcnt' = extcnt - n /\ now' = now
        /\ extbl' = Compressed(base, n)
        /\ devtbl' = [k \in Mnt |-> [devtbl[k] EXCEPT
                                        !.fs = IF k = m THEN NoFs ELSE @,
                                        !.mtime = IF k = m THEN 0 ELSE @,
                                        !.baseid = IF k = m THEN 0 ELSE Rebased(k, base, n)]]
    BY DEF Unmount
  <1>2. n \in Nat \ {0} /\ base \in Nat /\ extcnt \in Nat /\ extcnt <= MaxExt /\ MaxExt \in Nat
    <2>1. n \in Nat \ {0} /\ base \in Nat
      BY <1>1, ExtentRange DEF IInv
    <2> QED BY <2>1 DEF IInv, Typed, MountAssumption
  <1>3. base + n <= extcnt
    <2>1. base + n - 1 \in Extent(m)
      <3>1. base + n - 1 \in Int /\ base <= base + n - 1 /\ base + n - 1 < base + n
        BY <1>2
      <3> QED BY <3>1, <1>1, ExtentRange DEF IInv
    <2>2. base + n - 1 < extcnt
      BY <2>1, <1>1 DEF IInv, ExtentsOwned
    <2> QED BY <2>2, <1>2
  <1>4. /\ DOMAIN extbl' = Slot
        /\ \A i \in Slot : extbl'[i] = IF i \in base..(extcnt - n - 1) THEN extbl[i + n] ELSE extbl[i]
    BY <1>1 DEF Compressed
  <1>5. ~IsOpen(m)'
    BY <1>1 DEF IsOpen, IInv, Typed
  <1>6. \A k \in Mnt \ {m} : /\ devtbl'[k].fs = devtbl[k].fs
                             /\ IsOpen(k)' = IsOpen(k)
                             /\ devtbl'[k].baseid = Rebased(k, base, n)
    BY <1>1 DEF IsOpen, IInv, Typed
  <1>7. \A k \in Mnt : Rebased(k, base, n) \in Nat
    BY <1>2 DEF Rebased, IInv, Typed
  <1>8. Typed'
    <2>1. devtbl' \in [Mnt -> [fs: Fs \cup {NoFs}, baseid: Nat, mtime: Nat, maxblks: Int]]
      BY <1>1, <1>7 DEF IInv, Typed
    <2>2. \A i \in Slot : extbl'[i].mid \in Mnt
      <3>1. ASSUME NEW i \in Slot PROVE extbl'[i].mid \in Mnt
        <4>1. i + n \in Slot \/ i \notin base..(extcnt - n - 1)
          BY <1>2, <1>3 DEF Slot
        <4> QED BY <4>1, <1>4 DEF IInv, Typed
      <3> QED BY <3>1
    <2>3. extcnt' \in 0..MaxExt /\ now' \in Nat
      <3>1. extcnt' = extcnt - n /\ now' = now
        BY <1>1
      <3>2. extcnt - n \in 0..MaxExt
        BY <1>2, <1>3
      <3> QED BY <3>1, <3>2 DEF IInv, Typed
    <2> QED BY <2>1, <2>2, <2>3, <1>4 DEF Typed
  <1>9. ASSUME NEW k \in Mnt, k # m, IsOpen(k), NEW e \in Int
        PROVE  e \in Extent(k)' <=> IF devtbl[k].baseid >= base + n THEN e + n \in Extent(k)
                                                                    ELSE e \in Extent(k)
    <2>1. IsOpen(k)' /\ devtbl'[k].fs = devtbl[k].fs
          /\ devtbl'[k].baseid = IF devtbl[k].baseid >= base + n THEN devtbl[k].baseid - n
                                                                 ELSE devtbl[k].baseid
      BY <1>6, <1>9 DEF Rebased
    <2>2. /\ devtbl[k].baseid \in Nat /\ Extents[devtbl[k].fs] \in Nat
          /\ \A x \in Int : x \in Extent(k) <=> /\ devtbl[k].baseid <= x
                                                /\ x < devtbl[k].baseid + Extents[devtbl[k].fs]
      BY <1>9, ExtentRange DEF IInv
    <2>3. e \in Extent(k)' <=> /\ devtbl'[k].baseid <= e
                               /\ e < devtbl'[k].baseid + Extents[devtbl[k].fs]
      <3>1. devtbl'[k].baseid \in Nat
        BY <1>8 DEF Typed
      <3> QED BY <3>1, <2>1, <2>2, Interval DEF Extent
    <2>4. e + n \in Int
      BY <1>2
    <2>5. CASE devtbl[k].baseid >= base + n
      BY <2>1, <2>2, <2>3, <2>4, <2>5, <1>2
    <2>6. CASE ~(devtbl[k].baseid >= base + n)
      BY <2>1, <2>2, <2>3, <2>6
    <2> QED BY <2>5, <2>6
  <1>10. ASSUME NEW k \in Mnt, k # m, IsOpen(k)
         PROVE  /\ devtbl[k].baseid \in Nat /\ Extents[devtbl[k].fs] \in Nat
                /\ \A x \in Int : x \in Extent(k) <=> /\ devtbl[k].baseid <= x
                                                      /\ x < devtbl[k].baseid + Extents[devtbl[k].fs]
                /\ \A x \in Extent(k) : x < extcnt
                /\ \/ devtbl[k].baseid + Extents[devtbl[k].fs] <= base
                   \/ base + n <= devtbl[k].baseid
                /\ devtbl'[k].baseid = IF devtbl[k].baseid >= base + n THEN devtbl[k].baseid - n
                                                                      ELSE devtbl[k].baseid
    <2>1. /\ devtbl[k].baseid \in Nat /\ Extents[devtbl[k].fs] \in Nat
          /\ \A x \in Int : x \in Extent(k) <=> /\ devtbl[k].baseid <= x
                                                /\ x < devtbl[k].baseid + Extents[devtbl[k].fs]
      BY <1>10, ExtentRange DEF IInv
    <2>2. \A x \in Extent(k) : x < extcnt
      BY <1>10 DEF IInv, ExtentsOwned
    <2>3. \/ devtbl[k].baseid + Extents[devtbl[k].fs] <= base
          \/ base + n <= devtbl[k].baseid
      BY <1>1, <1>10, Apart
    <2>4. devtbl'[k].baseid = IF devtbl[k].baseid >= base + n THEN devtbl[k].baseid - n
                                                              ELSE devtbl[k].baseid
      BY <1>6, <1>10 DEF Rebased
    <2> QED BY <2>1, <2>2, <2>3, <2>4
  <1>11. ASSUME NEW k \in Mnt, k # m, IsOpen(k), NEW e \in Int
         PROVE  /\ e \in Extent(k)' <=> e \in 0..(extcnt - n - 1) /\ From(e, base, n) \in Extent(k)
                /\ e \in Extent(k)' =>
                     e - devtbl'[k].baseid = From(e, base, n) - devtbl[k].baseid
    <2>1. e + n \in Int /\ From(e, base, n) \in Int
      BY <1>2 DEF From
    <2>2. CASE devtbl[k].baseid >= base + n
      <3>1. e \in Extent(k)' <=> e + n \in Extent(k)
        BY <2>2, <1>9, <1>11
      <3>2. e + n \in Extent(k) => e >= base /\ e \in 0..(extcnt - n - 1)
        BY <2>1, <2>2, <1>2, <1>10, <1>11
      <3>3. e \in Extent(k) => e >= base
        BY <2>2, <1>2, <1>10, <1>11
      <3>4. devtbl'[k].baseid = devtbl[k].baseid - n
        BY <2>2, <1>10, <1>11
      <3>5. devtbl[k].baseid \in Nat
        BY <1>10, <1>11
      <3>6. From(e, base, n) = IF e >= base THEN e + n ELSE e
        BY DEF From
      <3>7. e \in Extent(k)' <=> e \in 0..(extcnt - n - 1) /\ From(e, base, n) \in Extent(k)
        BY <3>1, <3>2, <3>3, <3>6
      <3>8. e \in Extent(k)' => From(e, base, n) = e + n
        BY <3>1, <3>2, <3>6
      <3>9. e \in Extent(k)' => e - devtbl'[k].baseid = From(e, base, n) - devtbl[k].baseid
        <4>1. SUFFICES ASSUME e \in Extent(k)'
                       PROVE  e - devtbl'[k].baseid = From(e, base, n) - devtbl[k].baseid
          OBVIOUS
        <4>2. From(e, base, n) = e + n
          BY <4>1, <3>8
        <4> QED BY <4>2, <3>4, <3>5, <2>1, <1>2, SMT
      <3> HIDE DEF base, n
      <3> QED BY <3>7, <3>9
    <2>3. CASE ~(devtbl[k].baseid >= base + n)
      <3>1. e \in Extent(k)' <=> e \in Extent(k)
        BY <2>3, <1>9, <1>11
      <3>2. \A x \in Int : x \in Extent(k) => x >= 0 /\ x < base
        BY <2>3, <1>2, <1>10, <1>11
      <3>3. e \in Extent(k) => ~(e >= base) /\ e \in 0..(extcnt - n - 1)
        BY <3>2, <1>2, <1>3
      <3>4. From(e, base, n) \in Extent(k) => ~(e >= base)
        BY <3>2, <2>1, <1>2 DEF From
      <3>5. devtbl'[k].baseid = devtbl[k].baseid
        BY <2>3, <1>10, <1>11
      <3> QED BY <3>1, <3>3, <3>4, <3>5 DEF From
    <2> QED BY <2>2, <2>3
  <1>12. \A i \in 0..(extcnt - n - 1) : extbl'[i] = extbl[From(i, base, n)]
    <2>1. ASSUME NEW i \in 0..(extcnt - n - 1) PROVE extbl'[i] = extbl[From(i, base, n)]
      <3>1. i \in Slot /\ (i \in base..(extcnt - n - 1) <=> i >= base)
        BY <1>2 DEF Slot
      <3> QED BY <3>1, <1>4 DEF From
    <2> QED BY <2>1
  <1> QED BY <1>1, <1>2, <1>3, <1>5, <1>6, <1>8, <1>11, <1>12

LEMMA UnmountKeeps ==
  ASSUME MountAssumption, IInv, NEW m \in Mnt, Unmount(m)
  PROVE  IInv'
  <1> DEFINE base == devtbl[m].baseid
             n == Extents[devtbl[m].fs]
  <1>1. /\ IsOpen(m) /\ ~IsOpen(m)' /\ Typed'
        /\ n \in Nat \ {0} /\ base \in Nat /\ extcnt \in Nat /\ base + n <= extcnt
        /\ extcnt' = extcnt - n
        /\ \A i \in 0..(extcnt - n - 1) : extbl'[i] = extbl[From(i, base, n)]
        /\ \A k \in Mnt \ {m} : IsOpen(k)' = IsOpen(k)
        /\ \A k \in Mnt \ {m}, e \in Int : IsOpen(k) =>
             (e \in Extent(k)' <=> e \in 0..(extcnt - n - 1) /\ From(e, base, n) \in Extent(k))
    BY UnmountMoves
  <1>2. ASSUME NEW k \in Mnt, IsOpen(k)', NEW e \in Extent(k)'
        PROVE  e < extcnt' /\ extbl'[e].mid = k
    <2>1. k # m /\ IsOpen(k)
      BY <1>1, <1>2
    <2>2. e \in Int
      <3>1. devtbl'[k].baseid \in Nat
        BY <1>1 DEF Typed
      <3> QED BY <3>1, <1>2 DEF Extent
    <2>3. e \in 0..(extcnt - n - 1) /\ From(e, base, n) \in Extent(k)
      BY <1>1, <1>2, <2>1, <2>2
    <2>4. extbl[From(e, base, n)].mid = k
      BY <2>1, <2>3 DEF IInv, ExtentsOwned
    <2> QED BY <1>1, <2>3, <2>4
  <1>3. ASSUME NEW e \in 0..(extcnt' - 1)
        PROVE  \E k \in Mnt : IsOpen(k)' /\ e \in Extent(k)'
    <2>1. e \in 0..(extcnt - n - 1)
      BY <1>1, <1>3
    <2> DEFINE o == From(e, base, n)
    <2>2. o \in 0..(extcnt - 1) /\ ~(base <= o /\ o < base + n)
      BY <1>1, <2>1 DEF From
    <2>3. PICK k \in Mnt : IsOpen(k) /\ o \in Extent(k)
      BY <2>2 DEF IInv, ExtentsOwned
    <2>4. k # m
      BY <1>1, <2>2, <2>3, ExtentRange DEF IInv
    <2> QED BY <1>1, <2>1, <2>3, <2>4
  <1> QED BY <1>1, <1>2, <1>3 DEF IInv, ExtentsOwned

LEMMA StepIInv == ASSUME MountAssumption PROVE IInv /\ [Next]_vars => IInv'
  <1> SUFFICES ASSUME IInv, [Next]_vars PROVE IInv'
    OBVIOUS
  <1>1. ASSUME NEW m \in Mnt, NEW f \in Fs, Mount(m, f) PROVE IInv'
    BY <1>1, MountKeeps
  <1>2. ASSUME NEW m \in Mnt, NEW f \in Fs, NEW j \in 1..(Extents[f] - 1), MountMissing(m, f, j)
        PROVE  IInv'
    BY <1>2, MissingKeeps
  <1>3. ASSUME NEW m \in Mnt, Unmount(m) PROVE IInv'
    BY <1>3, UnmountKeeps
  <1>4. CASE UNCHANGED <<devtbl, extbl, extcnt>> /\ now' \in Nat
    BY <1>4 DEF IInv, Typed, ExtentsOwned, IsOpen, Extent
  <1>5. ASSUME NEW m \in Mnt, WriteHdr(m) PROVE IInv'
    BY <1>4, <1>5 DEF WriteHdr, IInv, Typed
  <1>6. CASE Tick
    <2>1. now' \in Nat
      BY <1>6 DEF Tick, IInv, Typed
    <2> QED BY <1>4, <1>6, <2>1 DEF Tick
  <1>7. CASE UNCHANGED vars
    BY <1>4, <1>7 DEF vars, IInv, Typed
  <1> QED BY <1>1, <1>2, <1>3, <1>5, <1>6, <1>7 DEF Next

-----------------------------------------------------------------------------
(* For any number of mounts, extents and filesystems, and through mounts    *)
(* that fail half way: every extent of a mounted filesystem is in extbl     *)
(* where its device looks for it, and the table holds nothing else          *)
(* (DEV::open, DEV::close).                                                 *)
THEOREM ExtentsStayOwned == ASSUME MountAssumption PROVE Spec => []ExtentsOwned
  <1>1. MountAssumption /\ Init => IInv
    BY InitIInv
  <1>2. IInv /\ [Next]_vars => IInv'
    BY StepIInv
  <1>3. IInv => ExtentsOwned
    BY DEF IInv
  <1> QED BY <1>1, <1>2, <1>3, PTL DEF Spec

-----------------------------------------------------------------------------
(* The descriptors: each extent in use has one of its own, open on its      *)
(* file, apart from those a mount that failed half way has put in question. *)
Described ==
  /\ fdtbl = [d \in Fd |-> fdtbl[d]]
  /\ \A i \in 0..(extcnt - 1) : extbl[i].fd \in Fd
  /\ \A i, j \in 0..(extcnt - 1) : extbl[i].fd = extbl[j].fd => i = j \/ extbl[i].fd \in botched
  /\ DescriptorsOpenBut(botched) /\ NoLeakBut(botched)

(* A set of numbers has a least one.                                        *)
LEMMA Least ==
  ASSUME NEW J \in SUBSET Nat, J # {}
  PROVE  \E j \in J : \A k \in J : j <= k
  <1>1. PICK j \in J : \A k \in J : ~(<<k, j>> \in OpToRel(<, Nat))
    BY NatLessThanWellFounded, WFMin
  <1>2. \A k \in J : ~(k < j)
    BY <1>1 DEF OpToRel
  <1> QED BY <1>2

(* The lowest descriptors exist: those that are lowest but one, and the      *)
(* least of the others.                                                     *)
Lows(n, s) ==
  /\ s \in [0..(n - 1) -> Unused]
  /\ \A i, j \in 0..(n - 1) : i < j => s[i] < s[j]
  /\ \A d \in Unused : d < s[n - 1] => \E i \in 0..(n - 1) : s[i] = d

LEMMA UnusedFinite ==
  ASSUME MountAssumption
  PROVE  Unused \subseteq Nat /\ IsFiniteSet(Unused) /\ Cardinality(Unused) \in Nat
  <1>1. Fd \subseteq Nat /\ IsFiniteSet(Fd)
    BY FS_Interval DEF Fd, MountAssumption
  <1>2. Unused \in SUBSET Fd
    BY DEF Unused
  <1> QED BY <1>1, <1>2, FS_Subset, FS_CardinalityType

LEMMA NextLow ==
  ASSUME MountAssumption, NEW n \in Nat \ {0}, n < Cardinality(Unused), NEW s, Lows(n, s)
  PROVE  \E t : Lows(n + 1, t)
  <1> DEFINE R == {s[i] : i \in 0..(n - 1)}
  <1>1. R \subseteq Unused
    BY DEF Lows
  <1>2. R # Unused
    <2>1. IsFiniteSet(0..(n - 1)) /\ Cardinality(0..(n - 1)) = n
      BY FS_Interval
    <2>2. s \in Surjection(0..(n - 1), R)
      BY DEF Lows, Surjection
    <2>3. Cardinality(R) <= n
      BY <2>1, <2>2, FS_Surjection
    <2>4. Cardinality(Unused) \in Nat
      BY UnusedFinite
    <2> HIDE DEF R
    <2> QED BY <2>3, <2>4
  <1>3. Unused \ R \in SUBSET Nat /\ Unused \ R # {}
    BY <1>1, <1>2, UnusedFinite
  <1>4. PICK d \in Unused \ R : \A k \in Unused \ R : d <= k
    BY <1>3, Least
  <1>5. d \in Nat /\ \A i \in 0..(n - 1) : s[i] \in Nat /\ s[i] # d
    BY <1>1, <1>4, UnusedFinite DEF Lows
  <1>6. \A i \in 0..(n - 1) : s[i] < d
    <2>1. n - 1 \in 0..(n - 1)
      OBVIOUS
    <2>2. ~(d < s[n - 1])
      BY <1>4 DEF Lows
    <2>3. s[n - 1] < d
      BY <1>5, <2>1, <2>2
    <2>4. \A i \in 0..(n - 1) : i = n - 1 \/ s[i] < s[n - 1]
      BY <2>1 DEF Lows
    <2> QED BY <1>5, <2>1, <2>3, <2>4
  <1> DEFINE t == [i \in 0..n |-> IF i = n THEN d ELSE s[i]]
  <1>7. \A i \in 0..n : i = n \/ i \in 0..(n - 1)
    OBVIOUS
  <1>8. t \in [0..n -> Unused]
    BY <1>1, <1>4, <1>7
  <1>9. ASSUME NEW i \in 0..n, NEW j \in 0..n, i < j PROVE t[i] < t[j]
    BY <1>6, <1>7, <1>9 DEF Lows
  <1>10. ASSUME NEW k \in Unused, k < t[n] PROVE \E i \in 0..n : t[i] = k
    <2>1. k \in R
      <3>1. n \in 0..n /\ t[n] = d /\ k \in Nat
        BY UnusedFinite
      <3> QED BY <3>1, <1>4, <1>5, <1>10
    <2>2. PICK i \in 0..(n - 1) : k = s[i]
      BY <2>1
    <2>3. i \in 0..n /\ i # n
      OBVIOUS
    <2> QED BY <2>2, <2>3
  <1>11. n + 1 - 1 = n
    OBVIOUS
  <1> HIDE DEF t
  <1>12. Lows(n + 1, t)
    BY <1>8, <1>9, <1>10, <1>11 DEF Lows
  <1> QED BY <1>12

LEMMA LowestAre ==
  ASSUME MountAssumption, NEW n \in Nat \ {0}, n <= Cardinality(Unused)
  PROVE  Lows(n, Lowest(n))
  <1> DEFINE J == {i \in Nat \ {0} : i <= Cardinality(Unused) /\ \A s : ~Lows(i, s)}
  <1>0. Cardinality(Unused) \in Nat
    BY UnusedFinite
  <1>1. J = {}
    <2>1. SUFFICES ASSUME J # {} PROVE FALSE
      OBVIOUS
    <2>2. PICK j \in J : \A k \in J : j <= k
      <3>1. J \in SUBSET Nat
        OBVIOUS
      <3> HIDE DEF J
      <3> QED BY <2>1, <3>1, Least
    <2>3. CASE j = 1
      <3>1. Unused \in SUBSET Nat /\ Unused # {}
        <4>1. Cardinality({}) = 0
          BY FS_EmptySet
        <4> QED BY <4>1, <2>2, <2>3, <1>0, UnusedFinite
      <3>2. PICK d \in Unused : \A k \in Unused : d <= k
        BY <3>1, Least
      <3> DEFINE s == [i \in {0} |-> d]
      <3>3. 0..0 = {0} /\ 1 - 1 = 0
        OBVIOUS
      <3>4. \A k \in Unused : ~(k < d)
        BY <3>1, <3>2
      <3>5. /\ s \in [0..(1 - 1) -> Unused]
            /\ \A i, k \in 0..(1 - 1) : i < k => s[i] < s[k]
            /\ \A k \in Unused : ~(k < s[1 - 1])
        BY <3>1, <3>2, <3>3, <3>4
      <3>6. Lows(1, s)
        BY <3>5 DEF Lows
      <3> QED BY <2>2, <2>3, <3>6
    <2>4. CASE j # 1
      <3>1. j - 1 \in Nat \ {0} /\ j - 1 < Cardinality(Unused) /\ j - 1 + 1 = j
        BY <2>2, <2>4, <1>0
      <3>2. j - 1 \notin J
        BY <2>2, <3>1
      <3>3. PICK s : Lows(j - 1, s)
        BY <3>1, <3>2, <1>0
      <3> QED BY <2>2, <3>1, <3>3, NextLow
    <2> QED BY <2>3, <2>4
  <1>2. PICK s : Lows(n, s)
    BY <1>1
  <1> QED BY <1>2 DEF Lows, Lowest

(* What is in use has a descriptor that is open.                            *)
LEMMA InUse ==
  ASSUME MountAssumption, IInv, Described, NEW e \in 0..(extcnt - 1)
  PROVE  extbl[e].fd \in Fd /\ (extbl[e].fd \in botched \/ extbl[e].fd \notin Unused)
  <1>1. PICK k \in Mnt : IsOpen(k) /\ e \in Extent(k)
    BY DEF IInv, ExtentsOwned
  <1>2. devtbl[k].fs \in Fs
    BY <1>1, ExtentRange DEF IInv
  <1>3. \/ extbl[e].fd \in botched
        \/ fdtbl[extbl[e].fd] = <<devtbl[k].fs, e - devtbl[k].baseid>>
    BY <1>1 DEF Described, DescriptorsOpenBut
  <1> QED BY <1>2, <1>3 DEF Described, Unused, NotOpen, MountAssumption

LEMMA MountOpens ==
  ASSUME MountAssumption, IInv, Described, NEW m \in Mnt, NEW f \in Fs, Mount(m, f)
  PROVE  Described'
  <1> DEFINE n == Extents[f]
             fd == Lowest(n)
  <1>1. n \in Nat \ {0} /\ extcnt \in Nat /\ extcnt + n <= MaxExt /\ MaxExt \in Nat
    BY DEF MountAssumption, IInv, Typed, Mount, Room
  <1>2. /\ fd \in [0..(n - 1) -> Unused]
        /\ \A i, j \in 0..(n - 1) : fd[i] = fd[j] => i = j
    <2>1. Lows(n, fd)
      <3>1. n <= Cardinality(Unused)
        BY <1>1, UnusedFinite DEF Mount
      <3> QED BY <1>1, <3>1, LowestAre
    <2>2. Unused \subseteq Nat
      BY UnusedFinite
    <2>3. ASSUME NEW i \in 0..(n - 1), NEW j \in 0..(n - 1), fd[i] = fd[j] PROVE i = j
      <3>1. fd[i] \in Nat /\ fd[j] \in Nat
        BY <2>1, <2>2 DEF Lows
      <3>2. ~(fd[i] < fd[j]) /\ ~(fd[j] < fd[i])
        BY <3>1, <2>3
      <3>3. ~(i < j) /\ ~(j < i)
        BY <3>2, <2>1 DEF Lows
      <3> QED BY <3>3
    <2> QED BY <2>1, <2>3 DEF Lows
  <1>3. /\ fdtbl' = [d \in Fd |-> IF \E i \in 0..(n - 1) : fd[i] = d
                                  THEN <<f, CHOOSE i \in 0..(n - 1) : fd[i] = d>>
                                  ELSE fdtbl[d]]
        /\ extbl' = [i \in Slot |-> IF i \in extcnt..(extcnt + n - 1)
                                    THEN [fd |-> fd[i - extcnt], mid |-> m]
                                    ELSE extbl[i]]
        /\ extcnt' = extcnt + n /\ ~IsOpen(m) /\ botched' = botched
        /\ devtbl' = [devtbl EXCEPT ![m] = [fs |-> f, baseid |-> extcnt, mtime |-> now,
                                            maxblks |-> MaxBlks(f, devtbl[m].maxblks)]]
    BY DEF Mount, FreeMid
  <1> HIDE DEF fd
  <1>4. Unused \subseteq Fd
    BY DEF Unused
  <1>5. \A i \in 0..(n - 1) : fd[i] \in Fd /\ fd[i] \in Unused /\ fdtbl'[fd[i]] = <<f, i>>
    <2>1. ASSUME NEW i \in 0..(n - 1) PROVE fdtbl'[fd[i]] = <<f, i>>
      <3>1. (CHOOSE j \in 0..(n - 1) : fd[j] = fd[i]) = i
        BY <1>2
      <3>2. fd[i] \in Fd
        BY <1>2, <1>4
      <3> QED BY <1>3, <3>1, <3>2
    <2> QED BY <2>1, <1>2, <1>4
  <1>6. \A d \in Fd \ Unused : fdtbl'[d] = fdtbl[d]
    BY <1>2, <1>3
  <1>7. \A i \in 0..(extcnt - 1) :
          /\ extbl'[i] = extbl[i] /\ extbl[i].fd \in Fd
          /\ extbl[i].fd \in botched \/ extbl[i].fd \notin Unused
    <2>1. ASSUME NEW i \in 0..(extcnt - 1) PROVE extbl'[i] = extbl[i]
      <3>1. i \in Slot /\ i \notin extcnt..(extcnt + n - 1)
        BY <1>1 DEF Slot
      <3> QED BY <1>3, <3>1
    <2> QED BY <2>1, InUse
  <1>8. \A i \in extcnt..(extcnt + n - 1) : extbl'[i].fd = fd[i - extcnt] /\ i - extcnt \in 0..(n - 1)
    <2>1. ASSUME NEW i \in extcnt..(extcnt + n - 1)
          PROVE  extbl'[i].fd = fd[i - extcnt] /\ i - extcnt \in 0..(n - 1)
      <3>1. i \in Slot /\ i - extcnt \in 0..(n - 1)
        BY <1>1 DEF Slot
      <3> QED BY <1>3, <3>1
    <2> QED BY <2>1
  <1>9. \A i \in 0..(extcnt' - 1) : i \in 0..(extcnt - 1) \/ i \in extcnt..(extcnt + n - 1)
    BY <1>1, <1>3
  <1>10. \A i \in 0..(extcnt' - 1) : extbl'[i].fd \in Fd
    BY <1>5, <1>7, <1>8, <1>9
  <1>11. ASSUME NEW i \in 0..(extcnt' - 1), NEW j \in 0..(extcnt' - 1), extbl'[i].fd = extbl'[j].fd,
                extbl'[i].fd \notin botched
         PROVE  i = j
    <2>1. CASE i \in 0..(extcnt - 1) /\ j \in 0..(extcnt - 1)
      BY <2>1, <1>7, <1>11 DEF Described
    <2>2. CASE i \in extcnt..(extcnt + n - 1) /\ j \in extcnt..(extcnt + n - 1)
      <3>1. i - extcnt = j - extcnt
        BY <2>2, <1>2, <1>8, <1>11
      <3> QED BY <3>1, <1>1
    <2>3. ~(i \in 0..(extcnt - 1) /\ j \in extcnt..(extcnt + n - 1))
      BY <1>5, <1>7, <1>8, <1>11
    <2>4. ~(j \in 0..(extcnt - 1) /\ i \in extcnt..(extcnt + n - 1))
      BY <1>5, <1>7, <1>8, <1>11
    <2> QED BY <2>1, <2>2, <2>3, <2>4, <1>9
  <1>12. \A k \in Mnt \ {m} : /\ devtbl'[k] = devtbl[k] /\ IsOpen(k)' = IsOpen(k)
                             /\ Extent(k)' = Extent(k)
    BY <1>3 DEF IsOpen, Extent, IInv, Typed
  <1>13. /\ IsOpen(m)' /\ devtbl'[m].fs = f /\ devtbl'[m].baseid = extcnt
         /\ \A e \in Int : e \in Extent(m)' <=> e \in extcnt..(extcnt + n - 1)
    <2>1. devtbl'[m].fs = f /\ devtbl'[m].baseid = extcnt
      BY <1>3 DEF IInv, Typed
    <2>2. IsOpen(m)'
      BY <2>1 DEF IsOpen, MountAssumption
    <2>3. \A e \in Int : e \in Extent(m)' <=> extcnt <= e /\ e < extcnt + n
      BY <1>1, <2>1, Interval DEF Extent
    <2> QED BY <1>1, <2>1, <2>2, <2>3
  <1>14. \A k \in Mnt : IsOpen(k) => \A e \in Extent(k) : e \in 0..(extcnt - 1)
    <2>1. ASSUME NEW k \in Mnt, IsOpen(k), NEW e \in Extent(k) PROVE e \in 0..(extcnt - 1)
      <3>1. e \in Nat
        BY <2>1, ExtentRange DEF IInv
      <3>2. e < extcnt
        BY <2>1 DEF IInv, ExtentsOwned
      <3> QED BY <3>1, <3>2, <1>1
    <2> QED BY <2>1
  <1>15. DescriptorsOpenBut(botched)'
    <2>1. ASSUME NEW k \in Mnt, IsOpen(k)', NEW e \in Extent(k)', extbl'[e].fd \notin botched
          PROVE  fdtbl'[extbl'[e].fd] = <<devtbl'[k].fs, e - devtbl'[k].baseid>>
      <3>1. CASE k = m
        <4>1. e \in Int
          BY <3>1, <1>13, <1>1, <2>1 DEF Extent
        <4>2. e \in extcnt..(extcnt + n - 1)
          BY <3>1, <4>1, <2>1, <1>13
        <4> QED BY <3>1, <4>2, <1>5, <1>8, <1>13
      <3>2. CASE k # m
        <4>1. IsOpen(k) /\ e \in Extent(k) /\ devtbl'[k] = devtbl[k]
          BY <3>2, <2>1, <1>12
        <4>2. extbl'[e] = extbl[e] /\ extbl[e].fd \in Fd \ Unused
          BY <4>1, <2>1, <1>7, <1>14
        <4>3. fdtbl[extbl[e].fd] = <<devtbl[k].fs, e - devtbl[k].baseid>>
          BY <4>1, <4>2, <2>1 DEF Described, DescriptorsOpenBut
        <4> QED BY <4>1, <4>2, <4>3, <1>6
      <3> QED BY <3>1, <3>2
    <2> QED BY <2>1, <1>3 DEF DescriptorsOpenBut
  <1>16. NoLeakBut(botched)'
    <2>1. ASSUME NEW d \in Fd \ botched, fdtbl'[d][1] \in Fs
          PROVE  \E k \in Mnt : IsOpen(k)' /\ \E e \in Extent(k)' : extbl'[e].fd = d
      <3>1. CASE \E i \in 0..(n - 1) : fd[i] = d
        <4>1. PICK i \in 0..(n - 1) : fd[i] = d
          BY <3>1
        <4> DEFINE e == extcnt + i
        <4>2. e \in extcnt..(extcnt + n - 1) /\ e - extcnt = i /\ e \in Int
          BY <1>1
        <4> HIDE DEF e
        <4>3. extbl'[e].fd = d /\ e \in Extent(m)'
          BY <4>1, <4>2, <1>8, <1>13
        <4> QED BY <4>3, <1>13
      <3>2. CASE ~\E i \in 0..(n - 1) : fd[i] = d
        <4>1. fdtbl[d][1] \in Fs
          BY <3>2, <2>1, <1>3
        <4>2. PICK k \in Mnt : IsOpen(k) /\ \E e \in Extent(k) : extbl[e].fd = d
          BY <4>1 DEF Described, NoLeakBut
        <4>3. k # m
          BY <4>2, <1>3
        <4>4. PICK e \in Extent(k) : extbl[e].fd = d
          BY <4>2
        <4>5. extbl'[e] = extbl[e]
          BY <4>2, <4>4, <1>7, <1>14
        <4> QED BY <4>2, <4>3, <4>4, <4>5, <1>12
      <3> QED BY <3>1, <3>2
    <2> QED BY <2>1, <1>3 DEF NoLeakBut
  <1>17. fdtbl' = [d \in Fd |-> fdtbl'[d]]
    BY <1>3
  <1> QED BY <1>3, <1>10, <1>11, <1>15, <1>16, <1>17 DEF Described

(* A mount that fails half way changes no entry in use, and no descriptor   *)
(* but the two of botched: the others it opens it closes again.             *)
LEMMA MissingLeaves ==
  ASSUME MountAssumption, IInv, Described, NEW m \in Mnt, NEW f \in Fs,
         NEW j \in 1..(Extents[f] - 1), MountMissing(m, f, j)
  PROVE  Described'
  <1> DEFINE fd == Lowest(j)
             stale == extbl[extcnt + j].fd
             filled == [i \in Slot |->
                          CASE i \in extcnt..(extcnt + j - 1) -> [fd |-> fd[i - extcnt], mid |-> m]
                            [] i = extcnt + j -> [fd |-> stale, mid |-> m]
                            [] OTHER -> extbl[i]]
             opened == [d \in Fd |-> IF \E i \in 0..(j - 1) : fd[i] = d
                                     THEN <<f, CHOOSE i \in 0..(j - 1) : fd[i] = d>>
                                     ELSE fdtbl[d]]
             closed == {filled[extcnt + i].fd : i \in CleanedUp(j)}
  <1>1. /\ extbl' = filled
        /\ fdtbl' = [d \in Fd |-> IF d \in closed THEN NotOpen ELSE opened[d]]
        /\ botched' = botched \cup {d \in {fd[0], stale} : fdtbl'[d] # fdtbl[d]}
        /\ UNCHANGED <<devtbl, extcnt>>
        /\ j <= Cardinality(Unused) /\ extcnt + Extents[f] <= MaxExt
    <2>1. filled = [i \in Slot |->
                      CASE i \in extcnt..(extcnt + j - 1) -> [fd |-> fd[i - extcnt], mid |-> m]
                        [] i = extcnt + j -> [fd |-> extbl[i].fd, mid |-> m]
                        [] OTHER -> extbl[i]]
      OBVIOUS
    <2> QED BY <2>1, UnusedFinite DEF MountMissing, Room
  <1>2. /\ j \in Nat \ {0} /\ extcnt \in Nat /\ MaxExt \in Nat /\ extcnt + j < MaxExt
        /\ Extents[f] \in Nat
    BY <1>1 DEF MountAssumption, IInv, Typed
  <1>3. fd \in [0..(j - 1) -> Unused]
    <2>1. Lows(j, fd)
      BY <1>1, <1>2, LowestAre
    <2> QED BY <2>1 DEF Lows
  <1> HIDE DEF fd, stale
  <1>4. \A i \in Slot : i < extcnt => extbl'[i] = extbl[i]
    <2>1. \A i \in Slot : i < extcnt => i \notin extcnt..(extcnt + j - 1) /\ i # extcnt + j
      BY <1>2 DEF Slot
    <2> QED BY <1>1, <2>1
  <1>5. /\ \A i \in 0..(j - 1) : filled[extcnt + i].fd = fd[i]
        /\ filled[extcnt + j].fd = stale
    <2>1. ASSUME NEW i \in 0..(j - 1) PROVE filled[extcnt + i].fd = fd[i]
      <3>1. extcnt + i \in extcnt..(extcnt + j - 1) /\ extcnt + i \in Slot /\ (extcnt + i) - extcnt = i
        BY <1>2 DEF Slot
      <3>2. \A k \in Slot : k \in extcnt..(extcnt + j - 1) =>
              filled[k] = [fd |-> fd[k - extcnt], mid |-> m]
        <4>1. \A k \in Int : k \in extcnt..(extcnt + j - 1) => k # extcnt + j
          BY <1>2
        <4> QED BY <4>1, <1>2 DEF Slot
      <3>3. filled[extcnt + i] = [fd |-> fd[(extcnt + i) - extcnt], mid |-> m]
        BY <3>1, <3>2
      <3> QED BY <3>1, <3>3
    <2>2. extcnt + j \in Slot /\ extcnt + j \notin extcnt..(extcnt + j - 1)
      BY <1>2 DEF Slot
    <2>3. filled[extcnt + j] = [fd |-> stale, mid |-> m]
      BY <2>2
    <2> QED BY <2>1, <2>3
  <1> DEFINE shut == {filled[extcnt + i].fd : i \in 1..j}
  <1>6. closed = shut
    BY DEF CleanedUp
  <1> HIDE DEF filled, closed
  <1>15. ASSUME NEW i \in 1..(j - 1) PROVE fd[i] \in closed
    <2>1. filled[extcnt + i].fd = fd[i] /\ i \in 1..j
      BY <1>2, <1>5
    <2> QED BY <2>1, <1>6
  <1>16. \A d \in closed : d = stale \/ \E i \in 1..(j - 1) : d = fd[i]
    <2>1. ASSUME NEW i \in 1..j
          PROVE  filled[extcnt + i].fd = stale \/ \E k \in 1..(j - 1) : filled[extcnt + i].fd = fd[k]
      <3>1. i = j \/ (i \in 1..(j - 1) /\ i \in 0..(j - 1))
        BY <1>2
      <3> QED BY <3>1, <1>5
    <2> QED BY <2>1, <1>6
  <1>7. botched \subseteq botched' /\ \A d \in Fd \ botched' : fdtbl'[d] = fdtbl[d]
    <2>1. ASSUME NEW d \in Fd \ botched', d # fd[0], d # stale PROVE fdtbl'[d] = fdtbl[d]
      <3>1. CASE \E i \in 0..(j - 1) : fd[i] = d
        <4>1. PICK i \in 0..(j - 1) : fd[i] = d
          BY <3>1
        <4>2. i \in 1..(j - 1)
          BY <4>1, <2>1, <1>2
        <4>3. fdtbl'[d] = NotOpen
          BY <4>1, <4>2, <1>1, <1>15
        <4> QED BY <4>1, <4>3, <1>3 DEF Unused
      <3>2. CASE ~\E i \in 0..(j - 1) : fd[i] = d
        <4>1. d \notin closed
          BY <3>2, <2>1, <1>2, <1>16
        <4> QED BY <3>2, <4>1, <1>1
      <3> QED BY <3>1, <3>2
    <2> QED BY <2>1, <1>1
  <1>8. \A i \in 0..(extcnt - 1) : extbl'[i] = extbl[i]
    BY <1>2, <1>4 DEF Slot
  <1>9. \A k \in Mnt : IsOpen(k)' = IsOpen(k) /\ Extent(k)' = Extent(k)
    BY <1>1 DEF IsOpen, Extent
  <1>10. \A k \in Mnt : IsOpen(k) => \A e \in Extent(k) : e \in 0..(extcnt - 1)
    <2>1. ASSUME NEW k \in Mnt, IsOpen(k), NEW e \in Extent(k) PROVE e \in 0..(extcnt - 1)
      <3>1. e \in Nat
        BY <2>1, ExtentRange DEF IInv
      <3>2. e < extcnt
        BY <2>1 DEF IInv, ExtentsOwned
      <3> QED BY <3>1, <3>2, <1>2
    <2> QED BY <2>1
  <1>11. DescriptorsOpenBut(botched)'
    <2>1. ASSUME NEW k \in Mnt, IsOpen(k), NEW e \in Extent(k), extbl[e].fd \notin botched'
          PROVE  fdtbl'[extbl[e].fd] = <<devtbl[k].fs, e - devtbl[k].baseid>>
      <3>1. extbl[e].fd \in Fd /\ extbl[e].fd \notin botched
        BY <2>1, <1>7, <1>10 DEF Described
      <3>2. fdtbl[extbl[e].fd] = <<devtbl[k].fs, e - devtbl[k].baseid>>
        BY <2>1, <3>1 DEF Described, DescriptorsOpenBut
      <3> QED BY <2>1, <3>1, <3>2, <1>7
    <2>2. \A k \in Mnt : IsOpen(k) => \A e \in Extent(k) : extbl'[e] = extbl[e]
      BY <1>8, <1>10
    <2>3. devtbl' = devtbl
      BY <1>1
    <2>4. ASSUME NEW k \in Mnt, IsOpen(k)', NEW e \in Extent(k)'
          PROVE  \/ extbl'[e].fd \in botched'
                 \/ fdtbl'[extbl'[e].fd] = <<devtbl'[k].fs, e - devtbl'[k].baseid>>
      <3>1. IsOpen(k) /\ e \in Extent(k)
        BY <2>4, <1>9
      <3> QED BY <3>1, <2>1, <2>2, <2>3
    <2> QED BY <2>4 DEF DescriptorsOpenBut
  <1>12. NoLeakBut(botched)'
    <2>1. ASSUME NEW d \in Fd \ botched', fdtbl'[d][1] \in Fs
          PROVE  \E k \in Mnt : IsOpen(k) /\ \E e \in Extent(k) : extbl'[e].fd = d
      <3>1. fdtbl[d][1] \in Fs /\ d \notin botched
        BY <2>1, <1>7
      <3>2. PICK k \in Mnt : IsOpen(k) /\ \E e \in Extent(k) : extbl[e].fd = d
        BY <3>1 DEF Described, NoLeakBut
      <3> QED BY <3>2, <1>8, <1>10
    <2> QED BY <2>1, <1>9 DEF NoLeakBut
  <1>13. fdtbl' = [d \in Fd |-> fdtbl'[d]]
    BY <1>1
  <1>14. /\ \A i \in 0..(extcnt' - 1) : extbl'[i].fd \in Fd
         /\ \A i, k \in 0..(extcnt' - 1) :
              extbl'[i].fd = extbl'[k].fd => i = k \/ extbl'[i].fd \in botched'
    <2>1. extcnt' = extcnt
      BY <1>1
    <2> QED BY <2>1, <1>7, <1>8 DEF Described
  <1> QED BY <1>11, <1>12, <1>13, <1>14 DEF Described

LEMMA UnmountCloses ==
  ASSUME MountAssumption, IInv, Described, NEW m \in Mnt, Unmount(m)
  PROVE  Described'
  <1> DEFINE base == devtbl[m].baseid
             n == Extents[devtbl[m].fs]
  <1>1. /\ IsOpen(m) /\ ~IsOpen(m)' /\ Typed'
        /\ n \in Nat \ {0} /\ base \in Nat /\ extcnt \in Nat /\ base + n <= extcnt
        /\ extcnt' = extcnt - n
        /\ \A i \in 0..(extcnt - n - 1) : extbl'[i] = extbl[From(i, base, n)]
        /\ \A k \in Mnt \ {m} : IsOpen(k)' = IsOpen(k) /\ devtbl'[k].fs = devtbl[k].fs
        /\ \A k \in Mnt \ {m}, e \in Int : IsOpen(k) =>
             /\ e \in Extent(k)' <=> e \in 0..(extcnt - n - 1) /\ From(e, base, n) \in Extent(k)
             /\ e \in Extent(k)' =>
                  e - devtbl'[k].baseid = From(e, base, n) - devtbl[k].baseid
    BY UnmountMoves
  <1>2. /\ fdtbl' = [d \in Fd |-> IF d \in Closed(base, n) THEN NotOpen ELSE fdtbl[d]]
        /\ botched' = botched
    BY DEF Unmount
  <1>3. \A i \in 0..(extcnt - n - 1) :
          /\ From(i, base, n) \in 0..(extcnt - 1)
          /\ ~(base <= From(i, base, n) /\ From(i, base, n) < base + n)
    BY <1>1 DEF From
  <1>4. \A i \in 0..(extcnt - n - 1) :
          extbl'[i].fd \in Fd /\ (extbl'[i].fd \in botched \/ extbl'[i].fd \notin Closed(base, n))
    <2>1. ASSUME NEW i \in 0..(extcnt - n - 1)
          PROVE  /\ extbl'[i].fd \in Fd
                 /\ extbl'[i].fd \in botched \/ extbl'[i].fd \notin Closed(base, n)
      <3>1. From(i, base, n) \in 0..(extcnt - 1) /\ extbl'[i] = extbl[From(i, base, n)]
        BY <1>1, <1>3
      <3>2. ASSUME NEW j \in 0..(n - 1), extbl'[i].fd \notin botched
            PROVE  extbl'[i].fd # extbl[base + j].fd
        <4>1. base + j \in 0..(extcnt - 1) /\ base <= base + j /\ base + j < base + n
          BY <1>1
        <4>2. base + j # From(i, base, n)
          BY <4>1, <1>3
        <4> QED BY <3>1, <3>2, <4>1, <4>2 DEF Described
      <3> QED BY <3>1, <3>2 DEF Described, Closed
    <2> QED BY <2>1
  <1>5. 0..(extcnt' - 1) = 0..(extcnt - n - 1)
    BY <1>1
  <1>6. ASSUME NEW i \in 0..(extcnt' - 1), NEW j \in 0..(extcnt' - 1), extbl'[i].fd = extbl'[j].fd,
               extbl'[i].fd \notin botched
        PROVE  i = j
    <2>1. From(i, base, n) = From(j, base, n)
      BY <1>1, <1>3, <1>5, <1>6 DEF Described
    <2> QED BY <2>1, <1>1, <1>5 DEF From
  <1>7. DescriptorsOpenBut(botched)'
    <2>1. ASSUME NEW k \in Mnt, IsOpen(k)', NEW e \in Extent(k)', extbl'[e].fd \notin botched
          PROVE  fdtbl'[extbl'[e].fd] = <<devtbl'[k].fs, e - devtbl'[k].baseid>>
      <3>1. k # m /\ IsOpen(k)
        BY <1>1, <2>1
      <3>2. e \in Int
        <4>1. devtbl'[k].baseid \in Nat
          BY <1>1 DEF Typed
        <4> QED BY <4>1, <2>1 DEF Extent
      <3>3. /\ e \in 0..(extcnt - n - 1) /\ From(e, base, n) \in Extent(k)
            /\ e - devtbl'[k].baseid = From(e, base, n) - devtbl[k].baseid
            /\ devtbl'[k].fs = devtbl[k].fs
        BY <1>1, <2>1, <3>1, <3>2
      <3>4. fdtbl[extbl[From(e, base, n)].fd] = <<devtbl[k].fs, From(e, base, n) - devtbl[k].baseid>>
        BY <2>1, <3>1, <3>3, <1>1 DEF Described, DescriptorsOpenBut
      <3>5. fdtbl'[extbl'[e].fd] = fdtbl[extbl'[e].fd]
        BY <2>1, <3>3, <1>2, <1>4
      <3> QED BY <3>3, <3>4, <3>5, <1>1
    <2> QED BY <2>1, <1>2 DEF DescriptorsOpenBut
  <1>8. NoLeakBut(botched)'
    <2>1. ASSUME NEW d \in Fd \ botched, fdtbl'[d][1] \in Fs
          PROVE  \E k \in Mnt : IsOpen(k)' /\ \E e \in Extent(k)' : extbl'[e].fd = d
      <3>1. d \notin Closed(base, n) /\ fdtbl[d][1] \in Fs
        BY <2>1, <1>2 DEF NotOpen, MountAssumption
      <3>2. PICK k \in Mnt : IsOpen(k) /\ \E e \in Extent(k) : extbl[e].fd = d
        BY <2>1, <3>1 DEF Described, NoLeakBut
      <3>3. PICK o \in Extent(k) : extbl[o].fd = d
        BY <3>2
      <3>4. o \in 0..(extcnt - 1)
        <4>1. o \in Nat
          BY <3>2, ExtentRange DEF IInv
        <4>2. o < extcnt
          BY <3>2 DEF IInv, ExtentsOwned
        <4> QED BY <4>1, <4>2, <1>1
      <3>5. ~(base <= o /\ o < base + n)
        <4>1. SUFFICES ASSUME base <= o, o < base + n PROVE FALSE
          OBVIOUS
        <4>2. o - base \in 0..(n - 1) /\ base + (o - base) = o
          BY <4>1, <3>4, <1>1
        <4>3. extbl[o].fd \in Closed(base, n)
          BY <4>2 DEF Closed
        <4> QED BY <4>3, <3>1, <3>3
      <3>6. k # m
        BY <3>2, <3>4, <3>5, ExtentRange DEF IInv
      <3> DEFINE e == IF o >= base THEN o - n ELSE o
      <3>7. e \in 0..(extcnt - n - 1) /\ From(e, base, n) = o
        BY <3>4, <3>5, <1>1 DEF From
      <3> HIDE DEF e
      <3>8. e \in Extent(k)' /\ extbl'[e].fd = d
        BY <3>2, <3>3, <3>6, <3>7, <1>1
      <3> QED BY <3>2, <3>6, <3>8, <1>1
    <2> QED BY <2>1, <1>2 DEF NoLeakBut
  <1>9. fdtbl' = [d \in Fd |-> fdtbl'[d]]
    BY <1>2
  <1>10. \A i \in 0..(extcnt' - 1) : extbl'[i].fd \in Fd
    BY <1>4, <1>5
  <1> QED BY <1>2, <1>6, <1>7, <1>8, <1>9, <1>10 DEF Described

LEMMA StepDescribed == ASSUME MountAssumption PROVE IInv /\ Described /\ [Next]_vars => Described'
  <1> SUFFICES ASSUME IInv, Described, [Next]_vars PROVE Described'
    OBVIOUS
  <1>1. CASE UNCHANGED <<devtbl, extbl, extcnt, fdtbl, botched>>
    <2>1. /\ devtbl' = devtbl /\ extbl' = extbl /\ extcnt' = extcnt
          /\ fdtbl' = fdtbl /\ botched' = botched
      BY <1>1
    <2>2. \A k : IsOpen(k)' = IsOpen(k) /\ Extent(k)' = Extent(k)
      BY <2>1 DEF IsOpen, Extent
    <2>3. DescriptorsOpenBut(botched)'
      BY <2>1, <2>2 DEF Described, DescriptorsOpenBut
    <2>4. NoLeakBut(botched)'
      BY <2>1, <2>2 DEF Described, NoLeakBut
    <2> QED BY <2>1, <2>3, <2>4 DEF Described
  <1>2. ASSUME NEW m \in Mnt, NEW f \in Fs, Mount(m, f) PROVE Described'
    BY <1>2, MountOpens
  <1>3. ASSUME NEW m \in Mnt, NEW f \in Fs, NEW j \in 1..(Extents[f] - 1), MountMissing(m, f, j)
        PROVE  Described'
    BY <1>3, MissingLeaves
  <1>4. ASSUME NEW m \in Mnt, Unmount(m) PROVE Described'
    BY <1>4, UnmountCloses
  <1> QED BY <1>1, <1>2, <1>3, <1>4 DEF Next, WriteHdr, Tick, vars

LEMMA InitDescribed == MountAssumption /\ Init => Described
  <1> SUFFICES ASSUME MountAssumption, Init PROVE Described
    OBVIOUS
  <1>1. extcnt = 0 /\ fdtbl = [d \in Fd |-> IF d = 0 THEN Stdin ELSE NotOpen]
        /\ \A m \in Mnt : ~IsOpen(m)
    BY DEF Init, IsOpen
  <1>2. 0..(0 - 1) = {}
    OBVIOUS
  <1>3. \A d \in Fd : fdtbl[d][1] = NoFs
    BY <1>1 DEF Stdin, NotOpen
  <1> QED BY <1>1, <1>2, <1>3 DEF Described, DescriptorsOpenBut, NoLeakBut, MountAssumption

(* Mounting and unmounting in any order, with a table that is compressed    *)
(* each time, closes no descriptor of another filesystem and leaves none    *)
(* behind, and a mount that fails half way closes what it opened, for any   *)
(* number of mounts, extents and filesystems; except for two descriptors of *)
(* each mount that fails (DEV::open, DEV::close): its primary file stays    *)
(* open, and what an earlier mount left in the entry of the missing one is  *)
(* closed.                                                                  *)
THEOREM DescriptorsStayKept == ASSUME MountAssumption PROVE Spec => []DescriptorsKept
  <1>1. MountAssumption /\ Init => IInv /\ Described
    BY InitIInv, InitDescribed
  <1>2. IInv /\ Described /\ [Next]_vars => (IInv /\ Described)'
    BY StepIInv, StepDescribed
  <1>3. IInv /\ Described => DescriptorsKept
    BY DEF Described, DescriptorsKept
  <1> QED BY <1>1, <1>2, <1>3, PTL DEF Spec
=============================================================================

---------------------------- MODULE Files_proofs ----------------------------
(***************************************************************************)
(* Proofs about Files, for any number of processes, files and names: no    *)
(* directory record leads to a freed file, whatever the switches; and,     *)
(* with those off that the runs refute it under, the opens and mounts are  *)
(* those of the processes and of the join table.                           *)
(***************************************************************************)
EXTENDS Files, FiniteSetTheorems, TLAPS

Opened == {Closed} \cup [node: Node, excl: BOOLEAN]
Stat == [links: Nat, opens: Int, atime: Int, isdir: BOOLEAN]

(* The types the argument needs: what is open is a file.                    *)
Typed ==
  /\ stat \in [Node -> Stat]
  /\ dir \in [Node -> [Name -> Node \cup {None}]]
  /\ handle \in [Client -> Opened] /\ joined \in Opened
  /\ now \in Int

(* Every file has a link for each record that names it, the root of a       *)
(* filesystem one more; the other filesystem's is never linked to.          *)
Extra(n) == IF n \in File THEN 0 ELSE 1
LinksSuffice == \A n \in Node : Cardinality(Records(n)) + Extra(n) <= stat[n].links

IInv == Typed /\ LinksSuffice /\ Records(Sub) = {}

(* The records of a file are finitely many.                                 *)
LEMMA RecordsFinite ==
  ASSUME NEW f
  PROVE  IsFiniteSet(Records(f)) /\ Cardinality(Records(f)) \in Nat
  <1>1. IsFiniteSet(Node)
    <2>1. IsFiniteSet({Root, Sub})
      BY FS_EmptySet, FS_AddElement, {Root, Sub} = ({} \cup {Root}) \cup {Sub}, ZenonT(60)
    <2> QED BY <2>1, FilesAssumption, FS_Union DEF Node
  <1>2. IsFiniteSet(Node \X Name)
    BY <1>1, FilesAssumption, FS_Product
  <1>3. Records(f) \subseteq Node \X Name
    BY DEF Records
  <1> QED BY <1>2, <1>3, FS_Subset, FS_CardinalityType

(* A step that adds no record, and takes no link from a file.               *)
LEMMA QuietKeeps ==
  ASSUME IInv, Typed', dir' = dir, \A f \in Node : stat'[f].links >= stat[f].links
  PROVE  IInv'
  <1>1. \A f : Records(f)' = Records(f)
    BY DEF Records
  <1>2. ASSUME NEW f \in Node PROVE Cardinality(Records(f)) + Extra(f) <= stat'[f].links
    <2>1. stat[f].links \in Nat /\ stat'[f].links \in Nat /\ Cardinality(Records(f)) \in Nat
      BY RecordsFinite DEF IInv, Typed, Stat
    <2> QED BY <2>1 DEF IInv, LinksSuffice, Extra
  <1> QED BY <1>1, <1>2 DEF IInv, LinksSuffice, Extra

(* What openfile and closefile make of the counts leaves the links.         *)
LEMMA ResetLinks ==
  ASSUME Typed, NEW n \in Node
  PROVE  Reset(n) \in [Node -> Stat] /\ \A f \in Node : Reset(n)[f].links = stat[f].links
  BY DEF Reset, Typed, Stat

LEMMA ClosingLinks ==
  ASSUME NEW s \in [Node -> Stat], NEW n \in Node
  PROVE  Closing(s, n) \in [Node -> Stat] /\ \A f \in Node : Closing(s, n)[f].links = s[f].links
  BY DEF Closing, Stat

LEMMA InitIInv == Init => IInv
  <1> SUFFICES ASSUME Init PROVE IInv
    OBVIOUS
  <1>1. Typed
    BY DEF Init, Typed, Stat, Opened, Free, Closed
  <1>2. \A f \in Node : Records(f) = {}
    BY FilesAssumption DEF Init, Records, Node
  <1>3. ASSUME NEW f \in Node PROVE Cardinality(Records(f)) + Extra(f) <= stat[f].links
    <2>1. stat[f].links = Extra(f)
      BY DEF Init, Free, Node, Extra
    <2> QED BY <1>2, <2>1, FS_EmptySet DEF Extra
  <1> QED BY <1>1, <1>2, <1>3 DEF IInv, LinksSuffice, Node

-----------------------------------------------------------------------------
(* A record is entered where there was none: one record more for that file. *)
LEMMA NewRecord ==
  ASSUME Typed, NEW d \in Node, NEW x \in Name, NEW f \in Node, dir[d][x] = None,
         dir' = [dir EXCEPT ![d][x] = f]
  PROVE  /\ Cardinality(Records(f)') = Cardinality(Records(f)) + 1
         /\ \A g \in Node \ {f} : Records(g)' = Records(g)
  <1>1. \A e \in Node, y \in Name : dir'[e][y] = IF e = d /\ y = x THEN f ELSE dir[e][y]
    BY DEF Typed
  <1>2. None \notin Node
    BY FilesAssumption DEF Node
  <1>3. Records(f)' = Records(f) \cup {<<d, x>>} /\ <<d, x>> \notin Records(f)
    BY <1>1, <1>2 DEF Records
  <1>4. \A g \in Node \ {f} : Records(g)' = Records(g)
    BY <1>1, <1>2 DEF Records
  <1> QED BY <1>3, <1>4, RecordsFinite, FS_AddElement

(* A record is deleted: one less for the file it led to.                    *)
LEMMA RecordGone ==
  ASSUME Typed, NEW d \in Node, NEW x \in Name, NEW f \in Node, dir[d][x] = f,
         dir' = [dir EXCEPT ![d][x] = None]
  PROVE  /\ Cardinality(Records(f)') = Cardinality(Records(f)) - 1
         /\ \A g \in Node \ {f} : Records(g)' = Records(g)
  <1>1. \A e \in Node, y \in Name : dir'[e][y] = IF e = d /\ y = x THEN None ELSE dir[e][y]
    BY DEF Typed
  <1>2. None \notin Node
    BY FilesAssumption DEF Node
  <1>3. Records(f)' = Records(f) \ {<<d, x>>} /\ <<d, x>> \in Records(f)
    BY <1>1, <1>2 DEF Records
  <1>4. \A g \in Node \ {f} : Records(g)' = Records(g)
    BY <1>1, <1>2 DEF Records
  <1> QED BY <1>3, <1>4, RecordsFinite, FS_RemoveElement

LEMMA CreateKeeps ==
  ASSUME IInv, NEW c \in Client, NEW x \in Name, NEW f \in File, NEW isdir \in BOOLEAN,
         Create(c, x, f, isdir)
  PROVE  IInv'
  <1>1. /\ f \in Node /\ stat[f].links = 0
        /\ stat' = [stat EXCEPT ![f] = [links |-> 1, opens |-> 0, atime |-> now, isdir |-> isdir]]
        /\ handle' = handle /\ joined' = joined /\ now' = now
    BY DEF Create, Allocated, Free, Node
  <1>2. stat' \in [Node -> Stat] /\ stat'[f].links = 1 /\ \A g \in Node \ {f} : stat'[g] = stat[g]
    BY <1>1 DEF IInv, Typed, Stat
  <1>3. CASE dir' = dir
    <2>1. Typed'
      BY <1>1, <1>2, <1>3 DEF IInv, Typed
    <2>2. \A g \in Node : stat'[g].links >= stat[g].links
      <3>1. ASSUME NEW g \in Node PROVE stat'[g].links >= stat[g].links
        <4>1. stat[g].links \in Nat
          BY DEF IInv, Typed, Stat
        <4> QED BY <4>1, <1>1, <1>2
      <3> QED BY <3>1
    <2> QED BY <1>3, <2>1, <2>2, QuietKeeps
  <1>4. CASE dir' # dir
    <2>1. PICK d \in Node : dir[d][x] = None /\ dir' = [dir EXCEPT ![d][x] = f]
      BY <1>4 DEF Create, OpenDir, IsOpen, IInv, Typed, Opened
    <2>2. Typed'
      BY <1>1, <1>2, <2>1 DEF IInv, Typed
    <2>3. /\ Cardinality(Records(f)') = Cardinality(Records(f)) + 1
          /\ \A g \in Node \ {f} : Records(g)' = Records(g)
      BY <1>1, <2>1, NewRecord DEF IInv
    <2>4. Cardinality(Records(f)') + Extra(f) <= stat'[f].links
      BY <1>1, <1>2, <2>3, RecordsFinite DEF IInv, LinksSuffice, Extra
    <2>5. \A g \in Node \ {f} : Cardinality(Records(g)') + Extra(g) <= stat'[g].links
      BY <1>2, <2>3 DEF IInv, LinksSuffice
    <2>6. Records(Sub)' = {}
      BY <2>3, FilesAssumption DEF IInv, Node
    <2> QED BY <2>2, <2>4, <2>5, <2>6 DEF IInv, LinksSuffice, Extra
  <1> QED BY <1>3, <1>4

LEMMA LinkKeeps ==
  ASSUME IInv, NEW c \in Client, NEW x \in Name, NEW f \in Linkable, Link(c, x, f)
  PROVE  IInv'
  <1>1. /\ f \in Node /\ stat[f].links \in Nat
        /\ stat' = [stat EXCEPT ![f].links = @ + 1]
        /\ handle' = handle /\ joined' = joined /\ now' = now
    BY FilesAssumption DEF Link, Node, IInv, Typed, Stat
  <1>2. /\ stat' \in [Node -> Stat] /\ stat'[f].links = stat[f].links + 1
        /\ \A g \in Node \ {f} : stat'[g] = stat[g]
    BY <1>1 DEF IInv, Typed, Stat
  <1>3. CASE dir' = dir
    <2>1. Typed'
      BY <1>1, <1>2, <1>3 DEF IInv, Typed
    <2>2. \A g \in Node : stat'[g].links >= stat[g].links
      <3>1. ASSUME NEW g \in Node PROVE stat'[g].links >= stat[g].links
        <4>1. stat[g].links \in Nat
          BY DEF IInv, Typed, Stat
        <4> QED BY <4>1, <1>1, <1>2
      <3> QED BY <3>1
    <2> QED BY <1>3, <2>1, <2>2, QuietKeeps
  <1>4. CASE dir' # dir
    <2>1. PICK d \in Node : dir[d][x] = None /\ dir' = [dir EXCEPT ![d][x] = f]
      BY <1>4 DEF Link, OpenDir, IsOpen, IInv, Typed, Opened
    <2>2. Typed'
      BY <1>1, <1>2, <2>1 DEF IInv, Typed
    <2>3. /\ Cardinality(Records(f)') = Cardinality(Records(f)) + 1
          /\ \A g \in Node \ {f} : Records(g)' = Records(g)
      BY <1>1, <2>1, NewRecord DEF IInv
    <2>4. Cardinality(Records(f)') + Extra(f) <= stat'[f].links
      BY <1>1, <1>2, <2>3, RecordsFinite DEF IInv, LinksSuffice, Extra
    <2>5. \A g \in Node \ {f} : Cardinality(Records(g)') + Extra(g) <= stat'[g].links
      BY <1>2, <2>3 DEF IInv, LinksSuffice
    <2>6. Records(Sub)' = {}
      BY <2>3, FilesAssumption DEF IInv, Node
    <2> QED BY <2>2, <2>4, <2>5, <2>6 DEF IInv, LinksSuffice, Extra
  <1> QED BY <1>3, <1>4

(* delfile: the file is freed with its last link, when no other record can  *)
(* lead to it.                                                              *)
LEMMA DeleteKeeps ==
  ASSUME IInv, NEW c \in Client, NEW x \in Name, Delete(c, x)
  PROVE  IInv'
  <1>1. PICK d \in Node, f \in Node :
          /\ dir[d][x] = f
          /\ stat' = [stat EXCEPT ![f] = IF @.links <= 1 THEN Free
                                         ELSE [stat[f] EXCEPT !.links = @ - 1]]
          /\ dir' = [dir EXCEPT ![d][x] = None]
          /\ handle' = handle /\ joined' = joined /\ now' = now
    <2>1. handle[c].node \in Node
      BY DEF Delete, OpenDir, IsOpen, IInv, Typed, Opened
    <2>2. dir[handle[c].node][x] \in Node
      BY <2>1 DEF Delete, IInv, Typed
    <2> QED BY <2>1, <2>2 DEF Delete
  <1>2. stat[f] \in Stat /\ stat[f].links \in Nat
    BY DEF IInv, Typed, Stat
  <1>3. /\ stat' \in [Node -> Stat]
        /\ stat'[f].links = IF stat[f].links <= 1 THEN 0 ELSE stat[f].links - 1
        /\ \A g \in Node \ {f} : stat'[g] = stat[g]
    <2>1. CASE stat[f].links <= 1
      <3>1. stat' = [stat EXCEPT ![f] = Free] /\ Free \in Stat /\ Free.links = 0
        BY <1>1, <2>1 DEF Free, Stat
      <3> QED BY <2>1, <3>1 DEF IInv, Typed
    <2>2. CASE ~(stat[f].links <= 1)
      <3> DEFINE v == [stat[f] EXCEPT !.links = @ - 1]
      <3>1. stat' = [stat EXCEPT ![f] = v]
        BY <1>1, <2>2
      <3>2. v \in Stat /\ v.links = stat[f].links - 1
        BY <1>2, <2>2 DEF Stat
      <3> HIDE DEF v
      <3> QED BY <2>2, <3>1, <3>2 DEF IInv, Typed
    <2> QED BY <2>1, <2>2
  <1>4. Typed'
    BY <1>1, <1>3 DEF IInv, Typed
  <1>5. /\ Cardinality(Records(f)') = Cardinality(Records(f)) - 1
        /\ \A g \in Node \ {f} : Records(g)' = Records(g)
    BY <1>1, RecordGone DEF IInv
  <1>6. Cardinality(Records(f)') + Extra(f) <= stat'[f].links
    BY <1>2, <1>3, <1>5, RecordsFinite DEF IInv, LinksSuffice, Extra
  <1>7. \A g \in Node \ {f} : Cardinality(Records(g)') + Extra(g) <= stat'[g].links
    BY <1>3, <1>5 DEF IInv, LinksSuffice
  <1>8. f # Sub /\ Records(Sub)' = {}
    <2>1. f # Sub
      <3>1. <<d, x>> \in Node \X Name /\ dir[<<d, x>>[1]][<<d, x>>[2]] = f
        BY <1>1
      <3>2. Records(f) # {}
        BY <3>1 DEF Records
      <3> QED BY <3>2 DEF IInv
    <2> QED BY <1>5, <2>1 DEF IInv, Node
  <1> QED BY <1>4, <1>6, <1>7, <1>8 DEF IInv, LinksSuffice, Extra

-----------------------------------------------------------------------------
LEMMA UnjoinQuiet ==
  ASSUME IInv, NEW c \in Client, Unjoin(c)
  PROVE  IInv'
  <1>1. handle[c].node \in Node /\ stat \in [Node -> Stat]
    BY DEF Unjoin, IsOpen, IInv, Typed, Opened
  <1> DEFINE s == Closing(stat, handle[c].node)
  <1>2. s \in [Node -> Stat] /\ \A f \in Node : s[f].links = stat[f].links
    BY <1>1, ClosingLinks
  <1>3. dir' = dir /\ now' = now /\ handle' = [handle EXCEPT ![c] = Closed]
    BY DEF Unjoin
  <1>4. /\ stat' \in [Node -> Stat] /\ joined' \in Opened
        /\ \A f \in Node : stat'[f].links = stat[f].links
    <2>1. CASE Unmounts(c)
      <3>1. joined.node \in Node /\ stat' = Closing(s, joined.node) /\ joined' = Closed
        BY <2>1 DEF Unjoin, Unmounts, IInv, Typed, Opened
      <3>2. Closing(s, joined.node) \in [Node -> Stat]
            /\ \A f \in Node : Closing(s, joined.node)[f].links = s[f].links
        BY <3>1, <1>2, ClosingLinks
      <3> QED BY <3>1, <3>2, <1>2 DEF Opened
    <2>2. CASE ~Unmounts(c)
      BY <2>2, <1>2 DEF Unjoin, IInv, Typed
    <2> QED BY <2>1, <2>2
  <1>5. Typed'
    BY <1>3, <1>4 DEF IInv, Typed, Opened
  <1>6. \A f \in Node : stat'[f].links >= stat[f].links
    BY <1>1, <1>4 DEF Node, Stat
  <1> QED BY <1>3, <1>5, <1>6, QuietKeeps

LEMMA OpenQuiet ==
  ASSUME IInv, NEW c \in Client, NEW n \in Node, NEW excl \in BOOLEAN, Open(c, n, excl)
  PROVE  IInv'
  <1>1. Reset(n) \in [Node -> Stat] /\ \A f \in Node : Reset(n)[f].links = stat[f].links
    BY ResetLinks DEF IInv
  <1>2. /\ dir' = dir /\ joined' = joined /\ now' = now
        /\ handle' = [handle EXCEPT ![c] = [node |-> n, excl |-> excl]]
        /\ stat' = [Reset(n) EXCEPT ![n].opens = IF excl THEN -1 ELSE @ + 1, ![n].atime = now]
    BY DEF Open
  <1>3. stat' \in [Node -> Stat] /\ \A f \in Node : stat'[f].links = stat[f].links
    <2> DEFINE opens == IF excl THEN -1 ELSE Reset(n)[n].opens + 1
               v == [Reset(n)[n] EXCEPT !.opens = opens, !.atime = now]
    <2>1. Reset(n)[n] \in Stat /\ opens \in Int /\ now \in Int
      BY <1>1 DEF Stat, IInv, Typed
    <2>2. v \in Stat /\ v.links = Reset(n)[n].links
      BY <2>1 DEF Stat
    <2>3. stat' = [Reset(n) EXCEPT ![n] = v]
      BY <1>1, <1>2
    <2> HIDE DEF v
    <2> QED BY <1>1, <2>2, <2>3
  <1>4. Typed'
    BY <1>2, <1>3 DEF IInv, Typed, Opened
  <1>5. \A f \in Node : stat'[f].links >= stat[f].links
    BY <1>3 DEF Node, Stat, IInv, Typed
  <1> QED BY <1>2, <1>4, <1>5, QuietKeeps

LEMMA StepIInv == IInv /\ [Next]_vars => IInv'
  <1> SUFFICES ASSUME IInv, [Next]_vars PROVE IInv'
    OBVIOUS
  <1>1. ASSUME stat' = stat, dir' = dir, Typed' PROVE IInv'
    BY <1>1, QuietKeeps DEF IInv, Typed, Node, Stat
  <1>2. ASSUME NEW n \in Node, Look(n) PROVE IInv'
    <2>1. Reset(n) \in [Node -> Stat] /\ \A f \in Node : Reset(n)[f].links = stat[f].links
      BY ResetLinks DEF IInv
    <2>2. Typed' /\ dir' = dir
      BY <1>2, <2>1 DEF Look, IInv, Typed
    <2>3. \A f \in Node : stat'[f].links >= stat[f].links
      BY <1>2, <2>1 DEF Look, Node, Stat, IInv, Typed
    <2> QED BY <2>2, <2>3, QuietKeeps
  <1>3. ASSUME NEW c \in Client, NEW n \in Node, NEW excl \in BOOLEAN, Open(c, n, excl) PROVE IInv'
    BY <1>3, OpenQuiet
  <1>4. ASSUME NEW c \in Client, Close(c) PROVE IInv'
    <2>1. handle[c].node \in Node /\ stat \in [Node -> Stat]
      BY <1>4 DEF Close, IsOpen, IInv, Typed, Opened
    <2>2. /\ Closing(stat, handle[c].node) \in [Node -> Stat]
          /\ \A f \in Node : Closing(stat, handle[c].node)[f].links = stat[f].links
      BY <2>1, ClosingLinks
    <2>3. Typed' /\ dir' = dir
      BY <1>4, <2>2 DEF Close, IInv, Typed, Opened
    <2>4. \A f \in Node : stat'[f].links >= stat[f].links
      BY <1>4, <2>1, <2>2 DEF Close, Node, Stat
    <2> QED BY <2>3, <2>4, QuietKeeps
  <1>5. ASSUME NEW c \in Client, NEW x \in Name, NEW f \in File, NEW isdir \in BOOLEAN,
               Create(c, x, f, isdir)
        PROVE  IInv'
    BY <1>5, CreateKeeps
  <1>6. ASSUME NEW c \in Client, NEW x \in Name, NEW f \in Linkable, Link(c, x, f) PROVE IInv'
    BY <1>6, LinkKeeps
  <1>7. ASSUME NEW c \in Client, NEW x \in Name, Delete(c, x) PROVE IInv'
    BY <1>7, DeleteKeeps
  <1>8. ASSUME NEW c \in Client, NEW t \in 0..(MaxTime - 1), Touch(c, t) PROVE IInv'
    <2>1. handle[c].node \in Node /\ t \in Int
      BY <1>8, FilesAssumption DEF Touch, IsOpen, IInv, Typed, Opened
    <2>2. /\ stat' \in [Node -> Stat]
          /\ \A f \in Node : stat'[f].links = stat[f].links
      BY <1>8, <2>1 DEF Touch, IInv, Typed, Stat
    <2>3. Typed' /\ dir' = dir
      BY <1>8, <2>2 DEF Touch, IInv, Typed
    <2>4. \A f \in Node : stat'[f].links >= stat[f].links
      BY <2>2 DEF Node, Stat, IInv, Typed
    <2> QED BY <2>3, <2>4, QuietKeeps
  <1>9. ASSUME NEW c \in Client, Join(c) PROVE IInv'
    <2>1. Typed'
      BY <1>9 DEF Join, IInv, Typed, Opened
    <2> QED BY <1>1, <1>9, <2>1 DEF Join
  <1>10. ASSUME NEW c \in Client, Unjoin(c) PROVE IInv'
    BY <1>10, UnjoinQuiet
  <1>11. CASE MountDrive \/ UmountDrive
    BY <1>1, <1>11 DEF MountDrive, UmountDrive, IInv, Typed
  <1>12. CASE Restart
    <2>1. now' \in Int
      BY <1>12 DEF Restart, IInv, Typed
    <2>2. Typed'
      BY <1>12, <2>1 DEF Restart, IInv, Typed, Opened
    <2> QED BY <1>1, <1>12, <2>2 DEF Restart
  <1>13. CASE UNCHANGED vars
    BY <1>1, <1>13 DEF vars, IInv, Typed
  <1> QED BY <1>2, <1>3, <1>4, <1>5, <1>6, <1>7, <1>8, <1>9, <1>10, <1>11, <1>12, <1>13 DEF Next

LEMMA LinksCount == IInv => RecordsCounted
  <1>1. ASSUME IInv, NEW f \in File PROVE Cardinality(Records(f)) <= stat[f].links
    <2>1. Cardinality(Records(f)) + 0 <= stat[f].links /\ Cardinality(Records(f)) \in Nat
      BY <1>1, RecordsFinite DEF IInv, LinksSuffice, Extra, Node
    <2> QED BY <2>1
  <1> QED BY <1>1 DEF RecordsCounted

-----------------------------------------------------------------------------
(* For any number of processes, files and names, with filesystems that run  *)
(* full, times set by hand, mounts and restarts: no file has fewer links    *)
(* than the records that name it, so that a file is never freed while a     *)
(* record leads to it (btas.c, delfile of btfile.c).                        *)
THEOREM RecordsStayCounted == Spec => []RecordsCounted
  BY InitIInv, StepIInv, LinksCount, PTL DEF Spec

-----------------------------------------------------------------------------
(* Opens and mounts.  Who has what open: the processes, and the join table   *)
(* under the name None.                                                     *)
Owner == Client \cup {None}
held == [k \in Owner |-> IF k = None THEN joined ELSE handle[k]]

Owners(h, n) == {k \in Owner : h[k].node = n}
Locked(h, n) == \E k \in Owners(h, n) : h[k].excl
Opens(h, n) == IF Locked(h, n) THEN -1 ELSE Cardinality(Owners(h, n))
Using(h, m) == {k \in Owner : h[k] # Closed /\ Dev(h[k].node) = m}

(* What the counts of a file say of its owners, the filesystem being        *)
(* mounted cnt times, since mt: a lock that is older is nobody's.           *)
Right(h, n, s, cnt, mt) ==
  IF cnt > 0
  THEN /\ Owners(h, n) # {} => s.links > 0
       /\ Locked(h, n) => Cardinality(Owners(h, n)) = 1
       /\ IF s.atime < mt THEN Owners(h, n) = {} ELSE s.opens = Opens(h, n)
  ELSE Owners(h, n) = {}

Used(h, m, cnt) == cnt \in Nat /\ (cnt > 0 => cnt = 1 + Cardinality(Using(h, m)))

FilesRight == \A n \in Node : Right(held, n, stat[n], mcnt[Dev(n)], mtime[Dev(n)])
MountsRight ==
  /\ mcnt \in [Mid -> Int] /\ mtime \in [Mid -> Int]
  /\ \A m \in Mid : Used(held, m, mcnt[m])
  /\ mcnt[0] > 0
InThePast ==
  /\ now > 0
  /\ \A n \in Node : stat[n].atime <= now
  /\ \A m \in Mid : mtime[m] <= now
LinksPositive == \A n \in Node : Allocated(n) => stat[n].links > 0
(* The other filesystem is mounted on a file of the first, and when it is   *)
(* not, what its root says is in nobody's way.                              *)
Joined ==
  /\ mcnt[1] > 0 <=> joined # Closed
  /\ joined.node # Sub
  /\ mcnt[1] = 0 => stat[Sub].opens = 0 \/ stat[Sub].atime < now

UInv == FilesRight /\ MountsRight /\ InThePast /\ LinksPositive /\ Joined

LEMMA HeldTyped ==
  ASSUME Typed
  PROVE  /\ held \in [Owner -> Opened] /\ held[None] = joined
         /\ \A c \in Client : held[c] = handle[c] /\ c \in Owner /\ c # None
         /\ None \in Owner /\ None \notin Node /\ Closed.node = None
         /\ \A o \in Opened : o # Closed => o.node \in Node /\ o.excl \in BOOLEAN
         /\ \A n \in Node : Dev(n) \in Mid
         /\ Dev(Sub) = 1 /\ Sub \in Node /\ 0 \in Mid /\ 1 \in Mid
         /\ \A n \in Node \ {Sub} : Dev(n) = 0
  BY FilesAssumption DEF Typed, held, Owner, Opened, Closed, Node, Dev, Mid

LEMMA OwnersFinite ==
  ASSUME NEW S \in SUBSET Owner
  PROVE  IsFiniteSet(S) /\ Cardinality(S) \in Nat /\ (Cardinality(S) = 0 <=> S = {})
  <1>1. IsFiniteSet(Owner)
    BY FilesAssumption, FS_AddElement DEF Owner
  <1> QED BY <1>1, FS_Subset, FS_CardinalityType, FS_EmptySet

(* The file a process opens has one owner more.                             *)
LEMMA Taken ==
  ASSUME NEW h \in [Owner -> Opened], NEW k \in Owner, h[k] = Closed, None \notin Node,
         NEW n \in Node, NEW e \in BOOLEAN,
         NEW g, g[k] = [node |-> n, excl |-> e], \A j \in Owner \ {k} : g[j] = h[j]
  PROVE  /\ k \notin Owners(h, n) /\ Owners(g, n) = Owners(h, n) \cup {k}
         /\ Cardinality(Owners(g, n)) = Cardinality(Owners(h, n)) + 1
         /\ Locked(g, n) <=> e \/ Locked(h, n)
         /\ \A j \in Node \ {n} : Owners(g, j) = Owners(h, j) /\ (Locked(g, j) <=> Locked(h, j))
         /\ Cardinality(Using(g, Dev(n))) = Cardinality(Using(h, Dev(n))) + 1
         /\ \A m \in Mid \ {Dev(n)} : Using(g, m) = Using(h, m)
  <1>1. /\ g[k] = [node |-> n, excl |-> e] /\ g[k].node = n /\ g[k].excl = e
        /\ \A j \in Owner \ {k} : g[j] = h[j]
    OBVIOUS
  <1>2. h[k].node = None /\ g[k] # Closed
    BY <1>1 DEF Closed
  <1>3. k \notin Owners(h, n) /\ Owners(g, n) = Owners(h, n) \cup {k}
    BY <1>1, <1>2 DEF Owners
  <1>4. Cardinality(Owners(g, n)) = Cardinality(Owners(h, n)) + 1
    <2>1. IsFiniteSet(Owners(h, n))
      BY OwnersFinite DEF Owners
    <2> QED BY <1>3, <2>1, FS_AddElement
  <1>5. Locked(g, n) <=> e \/ Locked(h, n)
    BY <1>1, <1>3 DEF Locked, Owners
  <1>6. \A j \in Node \ {n} : Owners(g, j) = Owners(h, j)
    BY <1>1, <1>2 DEF Owners
  <1>7. \A j \in Node \ {n} : Locked(g, j) <=> Locked(h, j)
    BY <1>1, <1>2, <1>6 DEF Locked, Owners
  <1>8. k \notin Using(h, Dev(n)) /\ Using(g, Dev(n)) = Using(h, Dev(n)) \cup {k}
    BY <1>1, <1>2 DEF Using
  <1>9. Cardinality(Using(g, Dev(n))) = Cardinality(Using(h, Dev(n))) + 1
    <2>1. IsFiniteSet(Using(h, Dev(n)))
      BY OwnersFinite DEF Using
    <2> QED BY <1>8, <2>1, FS_AddElement
  <1>10. \A m \in Mid \ {Dev(n)} : Using(g, m) = Using(h, m)
    BY <1>1, <1>2 DEF Using
  <1> QED BY <1>3, <1>4, <1>5, <1>6, <1>7, <1>9, <1>10

(* The file a process closes has one owner less.                            *)
LEMMA Left ==
  ASSUME NEW h \in [Owner -> Opened], NEW k \in Owner, NEW n \in Node, h[k].node = n,
         None \notin Node, NEW g, g[k] = Closed, \A j \in Owner \ {k} : g[j] = h[j]
  PROVE  /\ k \in Owners(h, n) /\ Owners(g, n) = Owners(h, n) \ {k}
         /\ Cardinality(Owners(g, n)) = Cardinality(Owners(h, n)) - 1
         /\ (Locked(g, n) => Locked(h, n)) /\ (Locked(h, n) => h[k].excl \/ Locked(g, n))
         /\ \A j \in Node \ {n} : Owners(g, j) = Owners(h, j) /\ (Locked(g, j) <=> Locked(h, j))
         /\ Cardinality(Using(g, Dev(n))) = Cardinality(Using(h, Dev(n))) - 1
         /\ Cardinality(Using(h, Dev(n))) > 0
         /\ \A m \in Mid \ {Dev(n)} : Using(g, m) = Using(h, m)
         /\ h[k].excl => Locked(h, n)
  <1>1. g[k] = Closed /\ g[k].node = None /\ \A j \in Owner \ {k} : g[j] = h[j]
    BY DEF Closed
  <1>2. h[k] # Closed
    BY DEF Closed
  <1>3. k \in Owners(h, n) /\ Owners(g, n) = Owners(h, n) \ {k}
    BY <1>1 DEF Owners
  <1>4. Cardinality(Owners(g, n)) = Cardinality(Owners(h, n)) - 1
    <2>1. IsFiniteSet(Owners(h, n))
      BY OwnersFinite DEF Owners
    <2> QED BY <1>3, <2>1, FS_RemoveElement
  <1>5. /\ (Locked(g, n) => Locked(h, n)) /\ (h[k].excl => Locked(h, n))
        /\ (Locked(h, n) => h[k].excl \/ Locked(g, n))
    BY <1>1, <1>3 DEF Locked, Owners
  <1>6. \A j \in Node \ {n} : Owners(g, j) = Owners(h, j)
    BY <1>1 DEF Owners
  <1>7. \A j \in Node \ {n} : Locked(g, j) <=> Locked(h, j)
    BY <1>1, <1>6 DEF Locked, Owners
  <1>8. k \in Using(h, Dev(n)) /\ Using(g, Dev(n)) = Using(h, Dev(n)) \ {k}
    BY <1>1, <1>2 DEF Using
  <1>9. /\ Cardinality(Using(g, Dev(n))) = Cardinality(Using(h, Dev(n))) - 1
        /\ Cardinality(Using(h, Dev(n))) > 0
    <2>1. IsFiniteSet(Using(h, Dev(n))) /\ Cardinality(Using(h, Dev(n))) \in Nat
          /\ Cardinality(Using(h, Dev(n))) # 0
      BY <1>8, OwnersFinite DEF Using
    <2>2. Cardinality(Using(g, Dev(n))) = Cardinality(Using(h, Dev(n))) - 1
      BY <1>8, <2>1, FS_RemoveElement, ZenonT(60)
    <2> HIDE DEF Using
    <2>3. Cardinality(Using(h, Dev(n))) > 0
      BY <2>1
    <2> QED BY <2>2, <2>3
  <1>10. \A m \in Mid \ {Dev(n)} : Using(g, m) = Using(h, m)
    BY <1>1, <1>2 DEF Using
  <1> QED BY <1>3, <1>4, <1>5, <1>6, <1>7, <1>9, <1>10

(* The counts are 0 when nobody has the file open.                          *)
LEMMA NoOwner ==
  ASSUME NEW h, NEW n, Opens(h, n) = 0
  PROVE  Owners(h, n) = {}
  BY OwnersFinite DEF Opens, Owners

LEMMA NobodyOpens ==
  ASSUME NEW h, NEW n, Owners(h, n) = {}
  PROVE  Opens(h, n) = 0 /\ ~Locked(h, n)
  BY OwnersFinite DEF Opens, Locked

(* A path leads to files that are there.                                    *)
LEMMA ReachableLinked ==
  ASSUME IInv, UInv, NEW n \in Reachable
  PROVE  n \in Node /\ stat[n].links > 0
  <1> DEFINE S == {k \in Node : stat[k].links > 0}
  <1>1. Root \in S /\ Sub \in S
    <2>1. ASSUME NEW k \in {Root, Sub} PROVE k \in S
      <3>1. k \in Node /\ k \notin File
        BY FilesAssumption DEF Node
      <3>2. Cardinality(Records(k)) \in Nat /\ Cardinality(Records(k)) + 1 <= stat[k].links
            /\ stat[k].links \in Nat
        BY <3>1, RecordsFinite DEF IInv, LinksSuffice, Extra, Typed, Stat
      <3> QED BY <3>1, <3>2
    <2> QED BY <2>1
  <1>2. ASSUME NEW c \in Client, IsOpen(c) PROVE handle[c].node \in S
    <2>1. handle[c].node \in Node /\ c \in Owners(held, handle[c].node)
      BY <1>2, HeldTyped DEF IsOpen, IInv, Typed, Owners
    <2>2. Right(held, handle[c].node, stat[handle[c].node], mcnt[Dev(handle[c].node)],
                mtime[Dev(handle[c].node)])
      BY <2>1 DEF UInv, FilesRight
    <2> QED BY <2>1, <2>2 DEF Right
  <1>3. Starts \subseteq S
    BY <1>1, <1>2 DEF Starts
  <1>4. ASSUME NEW d \in S PROVE Named(d) \subseteq S
    <2>1. ASSUME NEW x \in Name, dir[d][x] # None PROVE Mounted(dir[d][x]) \in S
      <3>1. dir[d][x] \in Node
        BY <2>1 DEF IInv, Typed
      <3>2. <<d, x>> \in Records(dir[d][x])
        BY DEF Records
      <3>3. stat[dir[d][x]].links > 0
        <4>1. Cardinality(Records(dir[d][x])) \in Nat /\ Cardinality(Records(dir[d][x])) # 0
          BY <3>2, RecordsFinite, FS_EmptySet
        <4>2. Cardinality(Records(dir[d][x])) + Extra(dir[d][x]) <= stat[dir[d][x]].links
              /\ stat[dir[d][x]].links \in Nat
          BY <3>1 DEF IInv, LinksSuffice, Typed, Stat
        <4> QED BY <4>1, <4>2 DEF Extra
      <3> QED BY <3>1, <3>3, <1>1 DEF Mounted
    <2> QED BY <2>1 DEF Named
  <1>5. S \in SUBSET Node
    OBVIOUS
  <1> HIDE DEF S
  <1>6. n \in S /\ n \in Node
    BY <1>3, <1>4, <1>5 DEF Reachable
  <1> QED BY <1>6 DEF S

-----------------------------------------------------------------------------
(* A step that changes one file only, and neither owners nor mounts.        *)
LEMMA OneFileKeeps ==
  ASSUME UInv, IInv, Typed', UNCHANGED <<handle, joined, mcnt, mtime, now>>,
         NEW f \in Node, \A n \in Node \ {f} : stat'[n] = stat[n],
         Right(held, f, stat'[f], mcnt[Dev(f)], mtime[Dev(f)]),
         stat'[f].atime <= now, Allocated(f)' => stat'[f].links > 0,
         f = Sub => stat'[f].opens = 0 \/ mcnt[1] # 0
  PROVE  UInv'
  <1>1. held' = held
    BY DEF held
  <1>2. FilesRight'
    <2>1. ASSUME NEW n \in Node PROVE Right(held, n, stat'[n], mcnt[Dev(n)], mtime[Dev(n)])
      BY DEF UInv, FilesRight
    <2> QED BY <1>1, <2>1 DEF FilesRight
  <1>3. MountsRight'
    BY <1>1 DEF UInv, MountsRight
  <1>4. InThePast'
    BY DEF UInv, InThePast
  <1>5. LinksPositive'
    BY DEF UInv, LinksPositive, Allocated
  <1>6. Joined'
    BY FilesAssumption DEF UInv, Joined, Node
  <1> QED BY <1>2, <1>3, <1>4, <1>5, <1>6 DEF UInv

LEMMA FileTyped ==
  ASSUME Typed, NEW n \in Node
  PROVE  /\ stat[n] \in Stat /\ stat[n].links \in Nat /\ stat[n].opens \in Int /\ stat[n].atime \in Int
         /\ now \in Int
  BY DEF Typed, Stat

(* openfile: what a lock says after an old one has been reset.              *)
LEMMA ResetRight ==
  ASSUME IInv, UInv, NEW n \in Node, mcnt[Dev(n)] > 0
  PROVE  /\ Reset(n) \in [Node -> Stat] /\ Reset(n)[n].opens = Opens(held, n)
         /\ Reset(n)[n].links = stat[n].links /\ Reset(n)[n].atime = stat[n].atime
         /\ \A k \in Node \ {n} : Reset(n)[k] = stat[k]
         /\ Right(held, n, Reset(n)[n], mcnt[Dev(n)], mtime[Dev(n)])
  <1>1. Right(held, n, stat[n], mcnt[Dev(n)], mtime[Dev(n)])
    BY DEF UInv, FilesRight
  <1>2. /\ Reset(n) \in [Node -> Stat]
        /\ Reset(n)[n].links = stat[n].links /\ Reset(n)[n].atime = stat[n].atime
        /\ Reset(n)[n].opens = IF stat[n].atime < mtime[Dev(n)] THEN 0 ELSE stat[n].opens
        /\ \A k \in Node \ {n} : Reset(n)[k] = stat[k]
    BY ResetLinks DEF IInv, Typed, Reset, Stat
  <1>3. Reset(n)[n].opens = Opens(held, n)
    BY <1>1, <1>2, NobodyOpens DEF Right
  <1> QED BY <1>1, <1>2, <1>3 DEF Right

LEMMA LookKeeps ==
  ASSUME IInv, UInv, Typed', NEW n \in Node, Look(n)
  PROVE  UInv'
  <1>1. mcnt[Dev(n)] > 0 /\ stat' = Reset(n) /\ n \in Reachable
        /\ UNCHANGED <<handle, joined, mcnt, mtime, now>>
    BY DEF Look
  <1>2. stat[n].links > 0 /\ stat[n].atime <= now
    BY <1>1, ReachableLinked DEF UInv, InThePast
  <1>3. n = Sub => mcnt[1] # 0
    BY <1>1, HeldTyped DEF IInv, UInv, MountsRight, Mid
  <1> QED BY <1>1, <1>2, <1>3, ResetRight, OneFileKeeps

LEMMA CreateKept ==
  ASSUME IInv, UInv, Typed', NEW c \in Client, NEW x \in Name, NEW f \in File,
         NEW isdir \in BOOLEAN, Create(c, x, f, isdir)
  PROVE  UInv'
  <1>1. /\ f \in Node /\ stat[f] = Free /\ f # Sub
        /\ stat' = [stat EXCEPT ![f] = [links |-> 1, opens |-> 0, atime |-> now, isdir |-> isdir]]
        /\ UNCHANGED <<handle, joined, mcnt, mtime, now>>
    BY FilesAssumption DEF Create, Allocated, Node
  <1>2. /\ stat'[f].links = 1 /\ stat'[f].opens = 0 /\ stat'[f].atime = now
        /\ \A n \in Node \ {f} : stat'[n] = stat[n]
    BY <1>1 DEF IInv, Typed
  <1>3. Dev(f) = 0 /\ mcnt[0] > 0 /\ mtime[0] <= now /\ mtime[0] \in Int /\ now \in Int
    BY <1>1, HeldTyped DEF IInv, Typed, UInv, MountsRight, InThePast
  <1>4. Owners(held, f) = {}
    <2>1. ~(stat[f].links > 0)
      BY <1>1 DEF Free
    <2> QED BY <1>1, <1>3, <2>1 DEF UInv, FilesRight, Right
  <1>5. Right(held, f, stat'[f], mcnt[Dev(f)], mtime[Dev(f)])
    <2>1. ~(now < mtime[0])
      BY <1>3
    <2> QED BY <1>2, <1>3, <1>4, <2>1, NobodyOpens DEF Right
  <1>6. stat'[f].atime <= now /\ stat'[f].links > 0
    BY <1>2, <1>3
  <1> QED BY <1>1, <1>2, <1>5, <1>6, OneFileKeeps

LEMMA LinkKept ==
  ASSUME IInv, UInv, Typed', NEW c \in Client, NEW x \in Name, NEW f \in Linkable, Link(c, x, f)
  PROVE  UInv'
  <1>1. /\ f \in Node /\ f # Sub /\ stat' = [stat EXCEPT ![f].links = @ + 1]
        /\ UNCHANGED <<handle, joined, mcnt, mtime, now>>
    BY FilesAssumption DEF Link, Node
  <1>2. /\ stat'[f].links = stat[f].links + 1 /\ stat'[f].opens = stat[f].opens
        /\ stat'[f].atime = stat[f].atime /\ \A n \in Node \ {f} : stat'[n] = stat[n]
    BY <1>1 DEF IInv, Typed, Stat
  <1>3. stat[f].links \in Nat /\ stat'[f].links > 0
    BY <1>1, <1>2, FileTyped DEF IInv
  <1>4. Right(held, f, stat'[f], mcnt[Dev(f)], mtime[Dev(f)])
    BY <1>1, <1>2, <1>3 DEF UInv, FilesRight, Right
  <1>5. stat'[f].atime <= now
    BY <1>1, <1>2 DEF UInv, InThePast
  <1> QED BY <1>1, <1>2, <1>3, <1>4, <1>5, OneFileKeeps

LEMMA DeleteKept ==
  ASSUME IInv, UInv, Typed', NEW c \in Client, NEW x \in Name, Delete(c, x)
  PROVE  UInv'
  <1>1. PICK d \in Node, f \in Node :
          /\ dir[d][x] = f /\ Deletable(d, f)
          /\ stat' = [stat EXCEPT ![f] = IF @.links <= 1 THEN Free
                                         ELSE [stat[f] EXCEPT !.links = @ - 1]]
          /\ UNCHANGED <<handle, joined, mcnt, mtime, now>>
    <2>1. handle[c].node \in Node
      BY DEF Delete, OpenDir, IsOpen, IInv, Typed, Opened
    <2>2. dir[handle[c].node][x] \in Node
      BY <2>1, SMTT(60) DEF Delete, IInv, Typed
    <2> QED BY <2>1, <2>2 DEF Delete
  <1>2. f # Sub /\ Dev(f) = 0 /\ mcnt[0] > 0
    <2>1. <<d, x>> \in Node \X Name /\ dir[<<d, x>>[1]][<<d, x>>[2]] = f
      BY <1>1
    <2>2. Records(f) # {}
      BY <2>1 DEF Records
    <2>3. f # Sub
      BY <2>2 DEF IInv
    <2> QED BY <2>3, HeldTyped DEF IInv, UInv, MountsRight
  <1>3. stat[f] \in Stat /\ stat[f].links \in Nat /\ now \in Int
    BY FileTyped DEF IInv
  <1>4. /\ stat'[f] = IF stat[f].links <= 1 THEN Free ELSE [stat[f] EXCEPT !.links = @ - 1]
        /\ \A n \in Node \ {f} : stat'[n] = stat[n]
    BY <1>1 DEF IInv, Typed
  <1>5. Right(held, f, stat[f], mcnt[0], mtime[0])
    BY <1>2 DEF UInv, FilesRight
  <1>6. CASE stat[f].links <= 1
    <2>1. stat'[f] = Free /\ stat[f].opens = 0
      BY <1>1, <1>4, <1>6 DEF Deletable
    <2>2. Owners(held, f) = {}
      BY <1>2, <1>5, <2>1, NoOwner DEF Right
    <2>3. Free.opens = 0 /\ Free.atime = 0
      BY DEF Free
    <2>4. Right(held, f, stat'[f], mcnt[Dev(f)], mtime[Dev(f)])
      BY <1>2, <2>1, <2>2, <2>3, NobodyOpens DEF Right
    <2>5. ~Allocated(f)'
      BY <2>1 DEF Allocated
    <2>6. 0 <= now
      BY <1>3 DEF UInv, InThePast
    <2> QED BY <1>1, <1>2, <1>4, <2>1, <2>3, <2>4, <2>5, <2>6, OneFileKeeps
  <1>7. CASE ~(stat[f].links <= 1)
    <2>1. /\ stat'[f].links = stat[f].links - 1 /\ stat'[f].opens = stat[f].opens
          /\ stat'[f].atime = stat[f].atime
      BY <1>3, <1>4, <1>7 DEF Stat
    <2>2. stat'[f].links > 0
      BY <1>3, <1>7, <2>1
    <2>3. Right(held, f, stat'[f], mcnt[Dev(f)], mtime[Dev(f)])
      BY <1>2, <1>5, <2>1, <2>2 DEF Right
    <2>4. stat'[f].atime <= now
      BY <2>1 DEF UInv, InThePast
    <2> QED BY <1>1, <1>2, <1>4, <2>2, <2>3, <2>4, OneFileKeeps
  <1> QED BY <1>6, <1>7

(* One owner closes its file: closefile keeps what the counts say of all     *)
(* files, h, s and cnt being the owners and counts before it.               *)
LEMMA CloseOne ==
  ASSUME NEW h \in [Owner -> Opened], NEW k \in Owner, NEW n \in Node, h[k].node = n,
         Typed, NEW g, g[k] = Closed, \A j \in Owner \ {k} : g[j] = h[j],
         NEW s \in [Node -> Stat], NEW cnt \in [Mid -> Int], NEW mt \in [Mid -> Int],
         \A j \in Node : Right(h, j, s[j], cnt[Dev(j)], mt[Dev(j)]),
         \A m \in Mid : Used(h, m, cnt[m])
  PROVE  /\ \A j \in Node : Right(g, j, Closing(s, n)[j], Leaving(s, cnt, n)[Dev(j)], mt[Dev(j)])
         /\ \A m \in Mid : Used(g, m, Leaving(s, cnt, n)[m])
         /\ Closing(s, n) \in [Node -> Stat]
         /\ \A j \in Node : Closing(s, n)[j].atime = s[j].atime
                            /\ Closing(s, n)[j].links = s[j].links
         /\ \A j \in Node \ {n} : Closing(s, n)[j] = s[j]
         /\ Leaving(s, cnt, n) \in [Mid -> Int]
         /\ \A m \in Mid : Leaving(s, cnt, n)[m] > 0 <=> cnt[m] > 0
         /\ cnt[Dev(n)] > 0 /\ Leaving(s, cnt, n)[Dev(n)] = cnt[Dev(n)] - 1
         /\ s[n].links > 0 /\ ~(s[n].atime < mt[Dev(n)])
  <1>1. None \notin Node /\ Dev(n) \in Mid /\ \A j \in Node : Dev(j) \in Mid
    BY HeldTyped
  <1>2. /\ Owners(g, n) = Owners(h, n) \ {k} /\ k \in Owners(h, n)
        /\ \A j \in Node \ {n} : Owners(g, j) = Owners(h, j) /\ (Locked(g, j) <=> Locked(h, j))
        /\ Cardinality(Using(g, Dev(n))) = Cardinality(Using(h, Dev(n))) - 1
        /\ Cardinality(Using(h, Dev(n))) > 0
        /\ \A m \in Mid \ {Dev(n)} : Using(g, m) = Using(h, m)
    <2>1. None \notin Node
      BY <1>1
    <2>2. k \in Owners(h, n)
      BY DEF Owners
    <2>7. Owners(g, n) = Owners(h, n) \ {k}
      BY <2>1 DEF Owners, Closed
    <2>3. \A j \in Node \ {n} : Owners(g, j) = Owners(h, j) /\ (Locked(g, j) <=> Locked(h, j))
      BY <2>1, Left
    <2>4. Cardinality(Using(g, Dev(n))) = Cardinality(Using(h, Dev(n))) - 1
      BY <2>1, Left
    <2>5. Cardinality(Using(h, Dev(n))) > 0
      BY <2>1, Left
    <2>6. \A m \in Mid \ {Dev(n)} : Using(g, m) = Using(h, m)
      BY <2>1, Left
    <2> QED BY <2>2, <2>3, <2>4, <2>5, <2>6, <2>7
  <1>3. Cardinality(Using(h, Dev(n))) \in Nat
    BY OwnersFinite DEF Using
  <1>4. Right(h, n, s[n], cnt[Dev(n)], mt[Dev(n)])
    OBVIOUS
  <1>5. cnt[Dev(n)] > 0 /\ s[n].links > 0 /\ ~(s[n].atime < mt[Dev(n)])
    BY <1>2, <1>4 DEF Right
  <1>6. cnt[Dev(n)] \in Int /\ cnt[Dev(n)] = 1 + Cardinality(Using(h, Dev(n))) /\ cnt[Dev(n)] - 1 > 0
    BY <1>1, <1>2, <1>3, <1>5 DEF Used
  <1> DEFINE t == [s[n] EXCEPT !.opens = CASE @ = -1 -> 0 [] @ > 0 -> @ - 1 [] OTHER -> 0]
  <1>7. s[n] \in Stat /\ mt[Dev(n)] \in Int /\ cnt[Dev(n)] - 1 \in Int
    BY <1>1, <1>6
  <1>8. Right(g, n, t, cnt[Dev(n)] - 1, mt[Dev(n)]) /\ s[n].opens # 0
    <2>1. None \notin Node
      BY <1>1
    <2>2. /\ t.links = s[n].links /\ t.atime = s[n].atime
          /\ s[n].opens = -1 => t.opens = 0
          /\ s[n].opens > 0 => t.opens = s[n].opens - 1
      BY <1>7 DEF Stat
    <2>3. /\ Cardinality(Owners(g, n)) = Cardinality(Owners(h, n)) - 1
          /\ Locked(g, n) => Locked(h, n)
      BY <2>1, Left
    <2>4. /\ Cardinality(Owners(h, n)) \in Nat /\ Cardinality(Owners(h, n)) # 0
          /\ Owners(g, n) \in SUBSET Owner
      BY <1>2, OwnersFinite DEF Owners
    <2>5. s[n].opens = Opens(h, n) /\ (Locked(h, n) => Cardinality(Owners(h, n)) = 1)
      BY <1>2, <1>4 DEF Right
    <2> HIDE DEF t
    <2>6. CASE Locked(h, n)
      <3>1. Cardinality(Owners(g, n)) = 0
        BY <2>3, <2>5, <2>6
      <3>2. Owners(g, n) = {}
        BY <2>4, <3>1, OwnersFinite
      <3>3. Opens(g, n) = 0 /\ ~Locked(g, n)
        BY <3>2, NobodyOpens
      <3>4. s[n].opens = -1 /\ t.opens = 0
        BY <2>2, <2>5, <2>6 DEF Opens
      <3> QED BY <1>5, <1>6, <2>2, <3>2, <3>3, <3>4 DEF Right
    <2>7. CASE ~Locked(h, n)
      <3>1. s[n].opens = Cardinality(Owners(h, n)) /\ t.opens = s[n].opens - 1
        BY <2>2, <2>4, <2>5, <2>7 DEF Opens
      <3>2. t.opens = Opens(g, n) /\ ~Locked(g, n)
        BY <2>3, <2>7, <3>1 DEF Opens
      <3> QED BY <1>5, <1>6, <2>2, <2>4, <3>1, <3>2 DEF Right
    <2> QED BY <2>6, <2>7
  <1>9. Closing(s, n) = [s EXCEPT ![n] = t]
    BY DEF Closing
  <1>10. t \in Stat /\ t.atime = s[n].atime /\ t.links = s[n].links
    BY <1>7 DEF Stat
  <1> HIDE DEF t
  <1>11. /\ Closing(s, n) \in [Node -> Stat] /\ Closing(s, n)[n] = t
         /\ \A j \in Node \ {n} : Closing(s, n)[j] = s[j]
    BY <1>9, <1>10
  <1>12. Leaving(s, cnt, n) = [cnt EXCEPT ![Dev(n)] = @ - 1]
    BY <1>8 DEF Leaving
  <1>13. /\ Leaving(s, cnt, n) \in [Mid -> Int] /\ Leaving(s, cnt, n)[Dev(n)] = cnt[Dev(n)] - 1
         /\ \A m \in Mid \ {Dev(n)} : Leaving(s, cnt, n)[m] = cnt[m]
    BY <1>1, <1>6, <1>12
  <1>14. \A m \in Mid : Leaving(s, cnt, n)[m] > 0 <=> cnt[m] > 0
    BY <1>5, <1>6, <1>13
  <1>15. ASSUME NEW j \in Node
         PROVE  Right(g, j, Closing(s, n)[j], Leaving(s, cnt, n)[Dev(j)], mt[Dev(j)])
    <2>1. CASE j = n
      BY <1>8, <1>11, <1>13, <2>1
    <2>2. CASE j # n
      <3>1. /\ Owners(g, j) = Owners(h, j) /\ (Locked(g, j) <=> Locked(h, j))
            /\ Closing(s, n)[j] = s[j] /\ Right(h, j, s[j], cnt[Dev(j)], mt[Dev(j)])
        BY <1>2, <1>11, <2>2
      <3>2. Leaving(s, cnt, n)[Dev(j)] > 0 <=> cnt[Dev(j)] > 0
        BY <1>1, <1>14
      <3> QED BY <3>1, <3>2 DEF Right, Opens
    <2> QED BY <2>1, <2>2
  <1>16. ASSUME NEW m \in Mid PROVE Used(g, m, Leaving(s, cnt, n)[m])
    <2>1. CASE m = Dev(n)
      BY <1>2, <1>3, <1>6, <1>13, <2>1 DEF Used
    <2>2. CASE m # Dev(n)
      BY <1>2, <1>13, <2>2 DEF Used
    <2> QED BY <2>1, <2>2
  <1>17. \A j \in Node : Closing(s, n)[j].atime = s[j].atime /\ Closing(s, n)[j].links = s[j].links
    BY <1>10, <1>11
  <1> QED BY <1>5, <1>11, <1>13, <1>14, <1>15, <1>16, <1>17

(* What stays positive and in the past, when a step changes only the opens   *)
(* of files that have links.                                                *)
LEMMA OpensOnly ==
  ASSUME UInv, now' = now, mtime' = mtime,
         \A j \in Node : stat'[j].atime = stat[j].atime,
         \A j \in Node : stat'[j] = stat[j] \/ stat'[j].links > 0
  PROVE  InThePast' /\ LinksPositive'
  BY DEF UInv, InThePast, LinksPositive, Allocated

LEMMA CloseKept ==
  ASSUME IInv, UInv, Typed', NEW c \in Client, IsOpen(c),
         stat' = Closing(stat, handle[c].node), mcnt' = Leaving(stat, mcnt, handle[c].node),
         handle' = [handle EXCEPT ![c] = Closed], UNCHANGED <<joined, mtime, now>>
  PROVE  UInv'
  <1> DEFINE n == handle[c].node
  <1>1. /\ n \in Node /\ held \in [Owner -> Opened] /\ c \in Owner /\ held[c].node = n
        /\ held' \in [Owner -> Opened] /\ held'[c] = Closed
    BY HeldTyped DEF IInv, Typed, IsOpen, held, Opened, Owner
  <1>2. \A j \in Owner \ {c} : held'[j] = held[j]
    BY DEF held, IInv, Typed, Owner
  <1>3. /\ Typed /\ stat \in [Node -> Stat] /\ mcnt \in [Mid -> Int] /\ mtime \in [Mid -> Int]
        /\ \A j \in Node : Right(held, j, stat[j], mcnt[Dev(j)], mtime[Dev(j)])
        /\ \A m \in Mid : Used(held, m, mcnt[m])
    BY DEF IInv, Typed, UInv, MountsRight, FilesRight
  <1> HIDE DEF n
  <1>4. /\ \A j \in Node : Right(held', j, Closing(stat, n)[j], Leaving(stat, mcnt, n)[Dev(j)], mtime[Dev(j)])
        /\ \A m \in Mid : Used(held', m, Leaving(stat, mcnt, n)[m])
        /\ \A j \in Node : Closing(stat, n)[j].atime = stat[j].atime
                           /\ Closing(stat, n)[j].links = stat[j].links
        /\ \A j \in Node \ {n} : Closing(stat, n)[j] = stat[j]
        /\ Leaving(stat, mcnt, n) \in [Mid -> Int]
        /\ \A m \in Mid : Leaving(stat, mcnt, n)[m] > 0 <=> mcnt[m] > 0
        /\ stat[n].links > 0 /\ (n = Sub => mcnt[1] > 0)
    BY <1>1, <1>2, <1>3, CloseOne DEF Dev
  <1>5. stat' = Closing(stat, n) /\ mcnt' = Leaving(stat, mcnt, n)
    BY DEF n
  <1>6. FilesRight'
    BY <1>4, <1>5 DEF FilesRight
  <1>7. MountsRight'
    BY <1>3, <1>4, <1>5 DEF MountsRight, UInv, Mid
  <1>8. InThePast' /\ LinksPositive'
    BY <1>4, <1>5, OpensOnly
  <1>9. Joined'
    <2>1. mcnt'[1] > 0 <=> mcnt[1] > 0
      BY <1>4, <1>5 DEF Mid
    <2>2. \A m \in Mid : mcnt[m] \in Nat /\ mcnt'[m] \in Nat
      BY <1>3, <1>4, <1>5 DEF Used
    <2>3. 1 \in Mid
      BY DEF Mid
    <2>4. mcnt'[1] = 0 => n # Sub /\ stat'[Sub] = stat[Sub]
      BY <1>4, <1>5, <2>1, <2>2, <2>3, HeldTyped DEF IInv
    <2> QED BY <2>1, <2>2, <2>3, <2>4 DEF Joined, UInv
  <1> QED BY <1>6, <1>7, <1>8, <1>9 DEF UInv
LEMMA OpenKept ==
  ASSUME IInv, UInv, Typed', NEW c \in Client, NEW n \in Node, NEW excl \in BOOLEAN,
         Open(c, n, excl)
  PROVE  UInv'
  <1>1. /\ n \in Reachable /\ Lockable(n, excl) /\ mcnt[Dev(n)] > 0
        /\ handle[c] = Closed /\ handle' = [handle EXCEPT ![c] = [node |-> n, excl |-> excl]]
        /\ mcnt' = [mcnt EXCEPT ![Dev(n)] = @ + 1]
        /\ UNCHANGED <<dir, joined, mtime, now>>
    BY DEF Open, IsOpen
  <1>2. /\ held \in [Owner -> Opened] /\ c \in Owner /\ held[c] = Closed /\ None \notin Node
        /\ held'[c] = [node |-> n, excl |-> excl] /\ Dev(n) \in Mid
    BY <1>1, HeldTyped DEF IInv, Typed, held, Owner
  <1>3. \A j \in Owner \ {c} : held'[j] = held[j]
    BY <1>1 DEF held, IInv, Typed, Owner
  <1>4. /\ Reset(n) \in [Node -> Stat] /\ Reset(n)[n].opens = Opens(held, n)
        /\ Reset(n)[n].links = stat[n].links /\ \A k \in Node \ {n} : Reset(n)[k] = stat[k]
    BY <1>1, ResetRight
  <1>5. stat[n].links > 0
    BY <1>1, ReachableLinked
  <1>6. /\ stat'[n].opens = IF excl THEN -1 ELSE Opens(held, n) + 1
        /\ stat'[n].links > 0 /\ stat'[n].atime = now
        /\ \A k \in Node \ {n} : stat'[k] = stat[k]
    BY <1>4, <1>5 DEF Open, Stat
  <1>7. /\ Cardinality(Owners(held', n)) = Cardinality(Owners(held, n)) + 1
        /\ Locked(held', n) <=> excl \/ Locked(held, n)
    BY <1>2, <1>3, Taken
  <1>8. \A j \in Node \ {n} : Owners(held', j) = Owners(held, j)
                              /\ (Locked(held', j) <=> Locked(held, j))
    BY <1>2, <1>3, Taken
  <1>9. Cardinality(Using(held', Dev(n))) = Cardinality(Using(held, Dev(n))) + 1
    BY <1>2, <1>3, Taken
  <1>10. \A m \in Mid \ {Dev(n)} : Using(held', m) = Using(held, m)
    BY <1>2, <1>3, Taken
  <1>11. /\ mcnt \in [Mid -> Int] /\ mtime \in [Mid -> Int] /\ now \in Int
         /\ \A m \in Mid : Used(held, m, mcnt[m]) /\ mtime[m] <= now
    BY DEF UInv, MountsRight, InThePast, IInv, Typed
  <1>12. /\ mcnt' \in [Mid -> Int] /\ mcnt'[Dev(n)] = mcnt[Dev(n)] + 1
         /\ \A m \in Mid \ {Dev(n)} : mcnt'[m] = mcnt[m]
    BY <1>1, <1>2, <1>11
  <1>13. \A m \in Mid : mcnt'[m] > 0 <=> mcnt[m] > 0
    BY <1>1, <1>2, <1>11, <1>12
  <1>14. Right(held', n, stat'[n], mcnt'[Dev(n)], mtime[Dev(n)])
    <2>1. ~(now < mtime[Dev(n)]) /\ mcnt'[Dev(n)] > 0
      BY <1>1, <1>2, <1>11, <1>12
    <2>2. Cardinality(Owners(held, n)) \in Nat
      BY OwnersFinite DEF Owners
    <2>3. CASE excl
      <3>1. Opens(held, n) = 0
        BY <1>1, <1>4, <2>3 DEF Lockable
      <3>2. Owners(held, n) = {}
        BY <3>1, NoOwner
      <3>3. Cardinality(Owners(held', n)) = 1 /\ Locked(held', n)
        BY <1>7, <2>3, <3>2, FS_EmptySet
      <3> QED BY <1>6, <2>1, <2>3, <3>3 DEF Right, Opens
    <2>4. CASE ~excl
      <3>1. ~Locked(held, n)
        BY <1>1, <1>4, <2>4 DEF Lockable, Opens
      <3>2. ~Locked(held', n) /\ Opens(held, n) = Cardinality(Owners(held, n))
        BY <1>7, <2>4, <3>1 DEF Opens
      <3>3. Opens(held', n) = stat'[n].opens
        BY <1>6, <1>7, <2>4, <3>2 DEF Opens
      <3> QED BY <1>6, <2>1, <3>2, <3>3 DEF Right
    <2> QED BY <2>3, <2>4
  <1>15. ASSUME NEW j \in Node, j # n
         PROVE  Right(held', j, stat'[j], mcnt'[Dev(j)], mtime[Dev(j)])
    <2>1. Owners(held', j) = Owners(held, j) /\ (Locked(held', j) <=> Locked(held, j))
          /\ stat'[j] = stat[j]
      BY <1>6, <1>8, <1>15
    <2>2. mcnt'[Dev(j)] > 0 <=> mcnt[Dev(j)] > 0
      BY <1>13, HeldTyped DEF IInv
    <2>3. Right(held, j, stat[j], mcnt[Dev(j)], mtime[Dev(j)])
      BY DEF UInv, FilesRight
    <2> QED BY <2>1, <2>2, <2>3 DEF Right, Opens
  <1>16. FilesRight'
    BY <1>1, <1>14, <1>15 DEF FilesRight
  <1>17. ASSUME NEW m \in Mid PROVE Used(held', m, mcnt'[m])
    <2>1. Cardinality(Using(held, m)) \in Nat /\ Used(held, m, mcnt[m])
      BY <1>11, OwnersFinite DEF Using
    <2>2. CASE m = Dev(n)
      BY <1>1, <1>9, <1>12, <2>1, <2>2 DEF Used
    <2>3. CASE m # Dev(n)
      BY <1>10, <1>12, <2>1, <2>3 DEF Used
    <2> QED BY <2>2, <2>3
  <1>18. MountsRight'
    BY <1>1, <1>11, <1>12, <1>13, <1>17 DEF MountsRight, UInv, Mid
  <1>19. InThePast'
    BY <1>1, <1>6, <1>11 DEF InThePast, UInv
  <1>20. LinksPositive'
    BY <1>6 DEF LinksPositive, UInv, Allocated
  <1>21. Joined'
    <2>1. \A m \in Mid : mcnt[m] \in Nat /\ mcnt'[m] \in Nat
      BY <1>11, <1>17 DEF Used
    <2>2. 1 \in Mid /\ (mcnt'[1] > 0 <=> mcnt[1] > 0)
      BY <1>13 DEF Mid
    <2>3. mcnt'[1] = 0 => n # Sub /\ stat'[Sub] = stat[Sub]
      BY <1>1, <1>6, <2>1, <2>2, HeldTyped DEF IInv
    <2> QED BY <1>1, <2>1, <2>2, <2>3 DEF Joined, UInv
  <1> QED BY <1>16, <1>18, <1>19, <1>20, <1>21 DEF UInv
LEMMA RestartKept ==
  ASSUME IInv, UInv, Typed', ~SameSecond, Restart
  PROVE  UInv'
  <1>1. /\ now' = now + 1 /\ stat' = stat /\ joined' = Closed
        /\ \A c \in Client : handle'[c] = Closed
        /\ mcnt' = [m \in Mid |-> IF m = 0 THEN 1 ELSE 0]
        /\ mtime' = [mtime EXCEPT ![0] = now']
    BY DEF Restart
  <1>2. /\ now \in Int /\ \A n \in Node : stat[n].atime \in Int /\ stat[n].atime <= now
        /\ now > 0 /\ \A n \in Node : stat'[n].atime < now'
    <2>1. now \in Int /\ now > 0
      BY DEF IInv, Typed, UInv, InThePast
    <2>2. \A n \in Node : stat[n].atime \in Int
      BY FileTyped DEF IInv
    <2>3. \A n \in Node : stat[n].atime <= now
      BY DEF UInv, InThePast
    <2> QED BY <1>1, <2>1, <2>2, <2>3
  <1>3. /\ mtime \in [Mid -> Int] /\ mtime' \in [Mid -> Int] /\ mtime'[0] = now'
        /\ mtime'[1] = mtime[1] /\ mtime[1] <= now
    BY <1>1, <1>2 DEF UInv, MountsRight, InThePast, Mid
  <1>4. \A k \in Owner : held'[k] = Closed
    BY <1>1 DEF held, Owner
  <1>5. ASSUME NEW n \in Node PROVE Owners(held', n) = {} /\ ~Locked(held', n)
    BY <1>4, HeldTyped DEF IInv, Owners, Locked
  <1>6. ASSUME NEW m \in Mid PROVE Using(held', m) = {}
    BY <1>4 DEF Using
  <1>7. FilesRight'
    <2>1. ASSUME NEW n \in Node
          PROVE  Right(held', n, stat'[n], mcnt'[Dev(n)], mtime'[Dev(n)])
      <3>1. CASE Dev(n) = 0
        BY <1>2, <1>3, <1>5, <3>1 DEF Right
      <3>2. CASE Dev(n) = 1
        BY <1>1, <1>5, <3>2 DEF Right, Mid
      <3> QED BY <3>1, <3>2 DEF Dev
    <2> QED BY <2>1 DEF FilesRight
  <1>8. MountsRight'
    <2>1. ASSUME NEW m \in Mid PROVE Used(held', m, mcnt'[m])
      BY <1>1, <1>6, FS_EmptySet DEF Used
    <2>2. mcnt' \in [Mid -> Int] /\ mcnt'[0] > 0
      BY <1>1 DEF Mid
    <2> QED BY <1>3, <2>1, <2>2 DEF MountsRight
  <1>9. InThePast'
    BY <1>1, <1>2, <1>3 DEF InThePast, Mid
  <1>10. LinksPositive'
    BY <1>1 DEF UInv, LinksPositive, Allocated
  <1>11. Joined'
    BY <1>1, <1>2, HeldTyped DEF Joined, Mid, IInv
  <1> QED BY <1>7, <1>8, <1>9, <1>10, <1>11 DEF UInv

(* BTMOUNT: what the BTCB had open, the join table has.                     *)
LEMMA JoinKept ==
  ASSUME IInv, UInv, Typed', NEW c \in Client, Join(c)
  PROVE  UInv'
  <1> DEFINE n == handle[c].node
             e == handle[c].excl
             g == [held EXCEPT ![c] = Closed]
  <1>1. /\ handle[c] # Closed /\ handle[c] \in Opened
        /\ mcnt[1] = 0 /\ mcnt' = [mcnt EXCEPT ![1] = 1]
        /\ mtime' = [mtime EXCEPT ![1] = now] /\ joined' = handle[c]
        /\ handle' = [handle EXCEPT ![c] = Closed] /\ stat' = stat /\ now' = now
    BY DEF Join, IsOpen, IInv, Typed
  <1>2. joined = Closed
    BY <1>1 DEF UInv, Joined
  <1>3. /\ n \in Node /\ e \in BOOLEAN /\ handle[c] = [node |-> n, excl |-> e]
        /\ None \notin Node
    BY <1>1, HeldTyped DEF Opened, IInv
  <1>4. /\ held \in [Owner -> Opened] /\ c \in Owner /\ held[c].node = n /\ held[c].excl = e
        /\ None \in Owner /\ c # None /\ held[None] = Closed
        /\ held'[None] = [node |-> n, excl |-> e] /\ held'[c] = Closed
        /\ \A j \in Owner \ {c, None} : held'[j] = held[j]
    BY <1>1, <1>2, <1>3, HeldTyped DEF IInv, Typed, held, Owner
  <1>5. g \in [Owner -> Opened] /\ g[c] = Closed /\ g[None] = Closed
        /\ (\A j \in Owner \ {c} : g[j] = held[j]) /\ \A j \in Owner \ {None} : held'[j] = g[j]
    BY <1>4 DEF Opened
  <1> HIDE DEF n, e, g
  <1>6. /\ c \in Owners(held, n) /\ Cardinality(Owners(g, n)) = Cardinality(Owners(held, n)) - 1
        /\ (Locked(g, n) => Locked(held, n)) /\ (e => Locked(held, n))
        /\ (Locked(held, n) => e \/ Locked(g, n))
    BY <1>3, <1>4, <1>5, Left
  <1>7. \A j \in Node \ {n} : Owners(g, j) = Owners(held, j) /\ (Locked(g, j) <=> Locked(held, j))
    BY <1>3, <1>4, <1>5, Left
  <1>8. /\ Cardinality(Using(g, Dev(n))) = Cardinality(Using(held, Dev(n))) - 1
        /\ \A m \in Mid \ {Dev(n)} : Using(g, m) = Using(held, m)
    BY <1>3, <1>4, <1>5, Left
  <1>9. /\ Cardinality(Owners(held', n)) = Cardinality(Owners(g, n)) + 1
        /\ Locked(held', n) <=> e \/ Locked(g, n)
    BY <1>3, <1>4, <1>5, Taken
  <1>10. \A j \in Node \ {n} : Owners(held', j) = Owners(g, j) /\ (Locked(held', j) <=> Locked(g, j))
    BY <1>3, <1>4, <1>5, Taken
  <1>11. /\ Cardinality(Using(held', Dev(n))) = Cardinality(Using(g, Dev(n))) + 1
         /\ \A m \in Mid \ {Dev(n)} : Using(held', m) = Using(g, m)
    BY <1>3, <1>4, <1>5, Taken
  <1>12. \A j \in Node : Right(held, j, stat[j], mcnt[Dev(j)], mtime[Dev(j)])
    BY DEF UInv, FilesRight
  <1>13. /\ mcnt \in [Mid -> Int] /\ mtime \in [Mid -> Int] /\ now \in Int
         /\ mcnt'[0] = mcnt[0] /\ mcnt'[1] = 1 /\ mtime'[0] = mtime[0] /\ mtime'[1] = now
         /\ mcnt' \in [Mid -> Int] /\ mtime' \in [Mid -> Int] /\ mcnt[0] > 0
    BY <1>1 DEF UInv, MountsRight, IInv, Typed, Mid
  <1>14. Dev(n) = 0 /\ n # Sub
    <2>1. Owners(held, n) # {}
      BY <1>6
    <2>2. mcnt[Dev(n)] > 0
      BY <1>3, <1>12, <2>1 DEF Right
    <2> QED BY <1>1, <1>3, <2>2, HeldTyped DEF IInv
  <1>15. Owners(held, Sub) = {}
    BY <1>1, <1>12, HeldTyped DEF IInv, Right
  <1>16. Owners(held', Sub) = {} /\ ~Locked(held', Sub)
    <2>1. Owners(held', Sub) = {}
      BY <1>7, <1>10, <1>14, <1>15, HeldTyped DEF IInv
    <2> QED BY <2>1, NobodyOpens
  <1>17. FilesRight'
    <2>1. ASSUME NEW j \in Node
          PROVE  Right(held', j, stat'[j], mcnt'[Dev(j)], mtime'[Dev(j)])
      <3>1. CASE j = n
        <4>1. Cardinality(Owners(held, n)) \in Nat /\ Cardinality(Owners(held', n)) \in Nat
          BY OwnersFinite DEF Owners
        <4>2. /\ Cardinality(Owners(held', n)) = Cardinality(Owners(held, n))
              /\ Locked(held', n) <=> Locked(held, n)
          BY <1>6, <1>9, <4>1
        <4>3. Owners(held', n) # {} /\ Owners(held, n) # {}
          BY <1>4, <1>6 DEF Owners
        <4>4. Opens(held', n) = Opens(held, n)
          BY <4>2 DEF Opens
        <4> QED BY <1>1, <1>12, <1>13, <1>14, <3>1, <4>2, <4>3, <4>4 DEF Right
      <3>2. CASE j = Sub
        <4>1. Opens(held', Sub) = 0
          BY <1>16, NobodyOpens
        <4>2. stat[Sub].opens = 0 \/ stat[Sub].atime < now
          BY <1>1 DEF UInv, Joined
        <4> QED BY <1>1, <1>13, <1>16, <3>2, <4>1, <4>2 DEF Right, Dev
      <3>3. CASE j # n /\ j # Sub
        <4>1. Owners(held', j) = Owners(held, j) /\ (Locked(held', j) <=> Locked(held, j))
          BY <1>7, <1>10, <3>3
        <4>2. Dev(j) = 0 /\ Right(held, j, stat[j], mcnt[0], mtime[0])
          BY <1>12, <3>3 DEF Dev
        <4> QED BY <1>1, <1>13, <4>1, <4>2 DEF Right, Opens
      <3> QED BY <3>1, <3>2, <3>3
    <2> QED BY <2>1 DEF FilesRight
  <1>18. MountsRight'
    <2>1. Used(held', 0, mcnt'[0])
      <3>1. Used(held, 0, mcnt[0])
        BY DEF UInv, MountsRight, Mid
      <3>2. Cardinality(Using(held, 0)) \in Nat
        BY OwnersFinite DEF Using
      <3>3. Cardinality(Using(held', 0)) = Cardinality(Using(held, 0))
        BY <1>8, <1>11, <1>14, <3>2
      <3> QED BY <1>13, <3>1, <3>3 DEF Used
    <2>2. Used(held', 1, mcnt'[1])
      <3>1. Using(held', 1) = {}
        <4>1. ASSUME NEW k \in Using(held', 1) PROVE FALSE
          <5>1. k \in Owner /\ held'[k].node = Sub
            BY <4>1 DEF Using, Dev
          <5> QED BY <1>16, <5>1 DEF Owners
        <4> QED BY <4>1
      <3>2. Cardinality(Using(held', 1)) = 0
        BY <3>1, FS_EmptySet
      <3> QED BY <1>13, <3>2 DEF Used
    <2> QED BY <1>13, <2>1, <2>2 DEF MountsRight, Mid
  <1>19. InThePast'
    BY <1>1, <1>13 DEF UInv, InThePast, Mid
  <1>20. LinksPositive'
    BY <1>1 DEF UInv, LinksPositive, Allocated
  <1>21. Joined'
    BY <1>1, <1>13, <1>14 DEF Joined, n
  <1> QED BY <1>17, <1>18, <1>19, <1>20, <1>21 DEF UInv

(* BTUMOUNT by the only user: its BTCB is closed, then the file mounted on.  *)
LEMMA UmountKept ==
  ASSUME IInv, UInv, Typed', NEW c \in Client, Unjoin(c), Unmounts(c)
  PROVE  UInv'
  <1> DEFINE n == joined.node
             g == [held EXCEPT ![c] = Closed]
             s == Closing(stat, Sub)
             cnt == Leaving(stat, mcnt, Sub)
  <1>1. /\ handle[c].node = Sub /\ joined # Closed /\ cnt[1] <= 1
        /\ stat' = Closing(s, n) /\ mcnt' = [Leaving(s, cnt, n) EXCEPT ![1] = 0]
        /\ joined' = Closed /\ handle' = [handle EXCEPT ![c] = Closed]
        /\ UNCHANGED <<dir, mtime, now>>
    BY DEF Unjoin, Unmounts
  <1>2. n \in Node /\ n # Sub /\ Sub \in Node /\ Dev(Sub) = 1 /\ Dev(n) = 0 /\ None \notin Node
    BY <1>1, HeldTyped DEF IInv, Typed, UInv, Joined
  <1>3. /\ held \in [Owner -> Opened] /\ c \in Owner /\ None \in Owner /\ c # None
        /\ held[c].node = Sub /\ held[None].node = n
        /\ held'[None] = Closed /\ held'[c] = Closed
        /\ \A j \in Owner \ {c, None} : held'[j] = held[j]
    BY <1>1, HeldTyped DEF IInv, Typed, held, Owner
  <1>4. g \in [Owner -> Opened] /\ g[c] = Closed /\ (\A j \in Owner \ {c} : g[j] = held[j])
        /\ g[None].node = n /\ \A j \in Owner \ {None} : held'[j] = g[j]
    BY <1>3 DEF Opened
  <1>5. /\ Typed /\ stat \in [Node -> Stat] /\ mcnt \in [Mid -> Int] /\ mtime \in [Mid -> Int]
        /\ \A j \in Node : Right(held, j, stat[j], mcnt[Dev(j)], mtime[Dev(j)])
        /\ \A m \in Mid : Used(held, m, mcnt[m])
    BY DEF IInv, Typed, UInv, MountsRight, FilesRight
  <1> HIDE DEF n, g
  <1>6. /\ \A j \in Node : Right(g, j, s[j], cnt[Dev(j)], mtime[Dev(j)])
        /\ \A m \in Mid : Used(g, m, cnt[m])
        /\ s \in [Node -> Stat] /\ cnt \in [Mid -> Int]
        /\ \A j \in Node : s[j].atime = stat[j].atime /\ s[j].links = stat[j].links
        /\ \A j \in Node \ {Sub} : s[j] = stat[j]
        /\ \A m \in Mid : cnt[m] > 0 <=> mcnt[m] > 0
        /\ mcnt[1] > 0 /\ stat[Sub].links > 0 /\ ~(stat[Sub].atime < mtime[1])
    BY <1>2, <1>3, <1>4, <1>5, CloseOne, SMTT(60)
  <1> HIDE DEF s, cnt
  <1>7. /\ \A j \in Node : Right(held', j, Closing(s, n)[j], Leaving(s, cnt, n)[Dev(j)], mtime[Dev(j)])
        /\ \A m \in Mid : Used(held', m, Leaving(s, cnt, n)[m])
        /\ \A j \in Node : Closing(s, n)[j].atime = s[j].atime /\ Closing(s, n)[j].links = s[j].links
        /\ \A j \in Node \ {n} : Closing(s, n)[j] = s[j]
        /\ Leaving(s, cnt, n) \in [Mid -> Int]
        /\ \A m \in Mid : Leaving(s, cnt, n)[m] > 0 <=> cnt[m] > 0
        /\ s[n].links > 0
    <2>1. Typed /\ n \in Node /\ mtime \in [Mid -> Int] /\ None \in Owner /\ held'[None] = Closed
          /\ g \in [Owner -> Opened] /\ g[None].node = n
          /\ \A j \in Owner \ {None} : held'[j] = g[j]
      BY <1>2, <1>3, <1>4, <1>5
    <2>2. /\ \A j \in Node : Right(held', j, Closing(s, n)[j], Leaving(s, cnt, n)[Dev(j)], mtime[Dev(j)])
          /\ \A m \in Mid : Used(held', m, Leaving(s, cnt, n)[m])
      BY <2>1, <1>6, CloseOne
    <2>3. /\ \A j \in Node : Closing(s, n)[j].atime = s[j].atime /\ Closing(s, n)[j].links = s[j].links
          /\ \A j \in Node \ {n} : Closing(s, n)[j] = s[j]
      BY <2>1, <1>6, CloseOne, SMTT(60)
    <2>4. /\ Leaving(s, cnt, n) \in [Mid -> Int]
          /\ \A m \in Mid : Leaving(s, cnt, n)[m] > 0 <=> cnt[m] > 0
          /\ s[n].links > 0
      BY <2>1, <1>6, CloseOne
    <2> QED BY <2>2, <2>3, <2>4
  <1>8. Owners(g, Sub) = {} /\ s[Sub].opens = 0
    <2>1. Cardinality(Using(g, 1)) = 0
      <3>1. cnt[1] = 1 + Cardinality(Using(g, 1)) /\ cnt[1] = 1
        BY <1>1, <1>6 DEF Used, Mid
      <3>2. Cardinality(Using(g, 1)) \in Nat
        BY OwnersFinite DEF Using
      <3> QED BY <3>1, <3>2
    <2>2. Using(g, 1) = {}
      BY <2>1, OwnersFinite DEF Using
    <2>3. Owners(g, Sub) = {}
      <3>1. ASSUME NEW k \in Owners(g, Sub) PROVE FALSE
        <4>1. k \in Owner /\ g[k].node = Sub /\ g[k] # Closed
          BY <1>2, <3>1 DEF Owners, Closed
        <4>2. k \in Using(g, 1)
          BY <1>2, <4>1 DEF Using
        <4> QED BY <2>2, <4>2
      <3> QED BY <3>1
    <2>4. s[Sub].opens = Opens(g, Sub)
      BY <1>2, <1>6 DEF Right, Mid
    <2> QED BY <2>3, <2>4, NobodyOpens
  <1>9. Owners(held', Sub) = {}
    BY <1>2, <1>3, <1>4, <1>8 DEF Owners, Closed
  <1>10. /\ mcnt' \in [Mid -> Int] /\ mcnt'[1] = 0 /\ mcnt'[0] = Leaving(s, cnt, n)[0]
         /\ mcnt'[0] > 0 /\ mtime' = mtime
    BY <1>1, <1>6, <1>7 DEF Mid, UInv, MountsRight
  <1>11. FilesRight'
    <2>1. ASSUME NEW j \in Node PROVE Right(held', j, stat'[j], mcnt'[Dev(j)], mtime[Dev(j)])
      <3>1. CASE j = Sub
        BY <1>2, <1>9, <1>10, <3>1 DEF Right
      <3>2. CASE j # Sub
        <4>1. Dev(j) = 0 /\ Right(held', j, stat'[j], Leaving(s, cnt, n)[0], mtime[0])
          BY <1>1, <1>7, <3>2 DEF Dev
        <4> QED BY <1>10, <4>1
      <3> QED BY <3>1, <3>2
    <2> QED BY <1>10, <2>1 DEF FilesRight
  <1>12. MountsRight'
    <2>1. Used(held', 0, mcnt'[0])
      BY <1>7, <1>10 DEF Mid
    <2>2. Used(held', 1, mcnt'[1])
      BY <1>10 DEF Used
    <2> QED BY <1>5, <1>10, <2>1, <2>2 DEF MountsRight, Mid
  <1>13. InThePast' /\ LinksPositive'
    <2>1. \A j \in Node : stat'[j].atime = stat[j].atime
      BY <1>1, <1>6, <1>7
    <2>2. ASSUME NEW j \in Node PROVE stat'[j] = stat[j] \/ stat'[j].links > 0
      <3>1. CASE j = n \/ j = Sub
        BY <1>1, <1>2, <1>6, <1>7, <3>1
      <3>2. CASE j # n /\ j # Sub
        BY <1>1, <1>6, <1>7, <3>2
      <3> QED BY <3>1, <3>2
    <2> QED BY <1>1, <2>1, <2>2, OpensOnly
  <1>14. Joined'
    <2>1. stat'[Sub].opens = 0
      BY <1>1, <1>2, <1>7, <1>8
    <2> QED BY <1>1, <1>2, <1>10, <2>1, HeldTyped DEF Joined, IInv
  <1> QED BY <1>11, <1>12, <1>13, <1>14 DEF UInv

LEMMA InitUInv == Init => UInv
  <1> SUFFICES ASSUME Init PROVE UInv
    OBVIOUS
  <1>1. \A k \in Owner : held[k] = Closed
    BY DEF Init, held, Owner
  <1>2. Typed
    BY InitIInv DEF IInv
  <1>3. /\ mcnt \in [Mid -> Int] /\ mcnt[0] = 1 /\ mcnt[1] = 0
        /\ mtime \in [Mid -> Int] /\ mtime[0] = 1 /\ mtime[1] = 1 /\ now = 1 /\ joined = Closed
    BY DEF Init, Mid
  <1>4. \A n \in Node : stat[n].opens = 0 /\ stat[n].atime = 0 /\ (Allocated(n) => stat[n].links > 0)
    BY DEF Init, Free, Allocated
  <1>5. ASSUME NEW n \in Node PROVE Owners(held, n) = {} /\ ~Locked(held, n) /\ Opens(held, n) = 0
    <2>1. Owners(held, n) = {}
      BY <1>1, <1>2, HeldTyped DEF Owners
    <2> QED BY <2>1, NobodyOpens
  <1>6. FilesRight
    BY <1>4, <1>5 DEF FilesRight, Right
  <1>7. ASSUME NEW m \in Mid PROVE Used(held, m, mcnt[m])
    <2>1. Cardinality(Using(held, m)) = 0
      BY <1>1, FS_EmptySet DEF Using
    <2> QED BY <1>3, <2>1 DEF Used, Mid
  <1>8. MountsRight
    BY <1>3, <1>7 DEF MountsRight
  <1>9. InThePast /\ LinksPositive
    BY <1>3, <1>4 DEF InThePast, LinksPositive, Mid
  <1>10. Joined
    BY <1>2, <1>3, <1>4, HeldTyped DEF Joined
  <1> QED BY <1>6, <1>8, <1>9, <1>10 DEF UInv

LEMMA StepUInv ==
  ASSUME ~Touching, ~Drives, ~SameSecond
  PROVE  IInv /\ UInv /\ [Next]_vars => UInv'
  <1> SUFFICES ASSUME IInv, UInv, [Next]_vars PROVE UInv'
    OBVIOUS
  <1>1. Typed'
    BY StepIInv DEF IInv
  <1>2. ASSUME NEW n \in Node, Look(n) PROVE UInv'
    BY <1>1, <1>2, LookKeeps
  <1>3. ASSUME NEW c \in Client, NEW n \in Node, NEW excl \in BOOLEAN, Open(c, n, excl) PROVE UInv'
    BY <1>1, <1>3, OpenKept
  <1>4. ASSUME NEW c \in Client, Close(c) PROVE UInv'
    BY <1>1, <1>4, CloseKept DEF Close
  <1>5. ASSUME NEW c \in Client, NEW x \in Name, NEW f \in File, NEW isdir \in BOOLEAN,
               Create(c, x, f, isdir)
        PROVE  UInv'
    BY <1>1, <1>5, CreateKept
  <1>6. ASSUME NEW c \in Client, NEW x \in Name, NEW f \in Linkable, Link(c, x, f) PROVE UInv'
    BY <1>1, <1>6, LinkKept
  <1>7. ASSUME NEW c \in Client, NEW x \in Name, Delete(c, x) PROVE UInv'
    BY <1>1, <1>7, DeleteKept
  <1>8. ASSUME NEW c \in Client, Join(c) PROVE UInv'
    BY <1>1, <1>8, JoinKept
  <1>9. ASSUME NEW c \in Client, Unjoin(c) PROVE UInv'
    <2>1. CASE Unmounts(c)
      BY <1>1, <1>9, <2>1, UmountKept
    <2>2. CASE ~Unmounts(c)
      BY <1>1, <1>9, <2>2, CloseKept DEF Unjoin
    <2> QED BY <2>1, <2>2
  <1>10. CASE Restart
    BY <1>1, <1>10, RestartKept
  <1>11. CASE UNCHANGED vars
    BY <1>11 DEF vars, UInv, FilesRight, MountsRight, InThePast, LinksPositive, Joined,
                 Allocated, held
  <1>12. /\ \A c \in Client, t \in 0..(MaxTime - 1) : ~Touch(c, t)
         /\ ~MountDrive /\ ~UmountDrive
    BY DEF Touch, MountDrive, UmountDrive
  <1> QED BY <1>2, <1>3, <1>4, <1>5, <1>6, <1>7, <1>8, <1>9, <1>10, <1>11, <1>12 DEF Next

-----------------------------------------------------------------------------
(* Holders are the owners, each with what it has open.                      *)
LEMMA AsMany ==
  ASSUME NEW S \in SUBSET Owner
  PROVE  Cardinality({<<k, held[k]>> : k \in S}) = Cardinality(S)
  <1> DEFINE T == {<<k, held[k]>> : k \in S}
             f == [k \in S |-> <<k, held[k]>>]
  <1>1. f \in Surjection(S, T)
    BY DEF Surjection
  <1>2. f \in Injection(S, T)
    <2>1. f \in [S -> T] /\ \A a, b \in S : f[a] = f[b] => a = b
      <3>1. f \in [S -> T]
        OBVIOUS
      <3>2. ASSUME NEW a \in S, NEW b \in S, f[a] = f[b] PROVE a = b
        <4>1. <<a, held[a]>> = <<b, held[b]>>
          BY <3>2
        <4> QED BY <4>1
      <3> QED BY <3>1, <3>2
    <2> QED BY <2>1 DEF Injection, IsInjective
  <1>3. IsFiniteSet(S)
    BY OwnersFinite
  <1> QED BY <1>1, <1>2, <1>3, FS_Surjection

LEMMA HoldersOwn ==
  ASSUME Typed, NEW n \in Node
  PROVE  /\ Holders(n) = {<<k, held[k]>> : k \in Owners(held, n)}
         /\ Cardinality(Holders(n)) = Cardinality(Owners(held, n))
         /\ (\E h \in Holders(n) : h[2].excl) <=> Locked(held, n)
         /\ Holders(n) = {} <=> Owners(held, n) = {}
  <1>1. Holders(n) = {<<k, held[k]>> : k \in Owners(held, n)}
    BY HeldTyped DEF Holders, Owners, Owner
  <1>2. Cardinality(Holders(n)) = Cardinality(Owners(held, n))
    BY <1>1, AsMany DEF Owners
  <1>3. (\E h \in Holders(n) : h[2].excl) <=> Locked(held, n)
    <2>1. ASSUME NEW h \in Holders(n), h[2].excl PROVE Locked(held, n)
      <3>1. PICK k \in Owners(held, n) : h = <<k, held[k]>>
        BY <1>1
      <3>2. h[2] = held[k]
        BY <3>1
      <3> QED BY <2>1, <3>1, <3>2 DEF Locked
    <2>2. ASSUME NEW k \in Owners(held, n), held[k].excl PROVE \E h \in Holders(n) : h[2].excl
      <3>1. <<k, held[k]>> \in Holders(n) /\ <<k, held[k]>>[2] = held[k]
        BY <1>1
      <3> QED BY <2>2, <3>1
    <2> QED BY <2>1, <2>2 DEF Locked
  <1> QED BY <1>1, <1>2, <1>3

LEMMA UsersHold ==
  ASSUME Typed, NEW m \in Mid
  PROVE  Cardinality(UNION {Holders(n) : n \in {k \in Node : Dev(k) = m}})
           = Cardinality(Using(held, m))
  <1>1. UNION {Holders(n) : n \in {k \in Node : Dev(k) = m}}
          = {<<k, held[k]>> : k \in Using(held, m)}
    <2>1. ASSUME NEW n \in Node, Dev(n) = m, NEW h \in Holders(n)
          PROVE  h \in {<<k, held[k]>> : k \in Using(held, m)}
      <3>1. PICK k \in Owners(held, n) : h = <<k, held[k]>>
        BY <2>1, HoldersOwn
      <3>2. k \in Using(held, m)
        BY <2>1, <3>1, HeldTyped DEF Owners, Using
      <3> QED BY <3>1, <3>2
    <2>2. ASSUME NEW k \in Using(held, m)
          PROVE  held[k].node \in Node /\ Dev(held[k].node) = m
                 /\ <<k, held[k]>> \in Holders(held[k].node)
      <3>1. k \in Owner /\ held[k].node \in Node /\ Dev(held[k].node) = m
        BY <2>2, HeldTyped DEF Using
      <3>2. k \in Owners(held, held[k].node)
        BY <3>1 DEF Owners
      <3> QED BY <3>1, <3>2, HoldersOwn
    <2> QED BY <2>1, <2>2
  <1> QED BY <1>1, AsMany DEF Using

LEMMA UInvSays ==
  ASSUME IInv, UInv
  PROVE  /\ OpensCounted /\ ExclusiveAlone /\ OpenFilesExist /\ MountsCounted /\ JoinLeadsOn
         /\ UnmountWhenIdle
  <1>1. Typed /\ \A n \in Node : Right(held, n, stat[n], mcnt[Dev(n)], mtime[Dev(n)])
    BY DEF IInv, UInv, FilesRight
  <1>2. OpensCounted
    <2>1. ASSUME NEW n \in Node, mcnt[Dev(n)] > 0
          PROVE  IF stat[n].atime < mtime[Dev(n)] THEN Holders(n) = {}
                 ELSE stat[n].opens = IF \E h \in Holders(n) : h[2].excl
                                      THEN -1 ELSE Cardinality(Holders(n))
      BY <1>1, <2>1, HoldersOwn DEF Right, Opens
    <2> QED BY <2>1 DEF OpensCounted
  <1>3. ASSUME NEW n \in Node
        PROVE  Owners(held, n) # {} => mcnt[Dev(n)] > 0 /\ stat[n].links > 0
    BY <1>1 DEF Right
  <1>4. ExclusiveAlone
    <2>1. ASSUME NEW n \in Node, Locked(held, n) PROVE Cardinality(Owners(held, n)) = 1
      <3>1. Owners(held, n) # {}
        BY <2>1 DEF Locked
      <3> QED BY <1>1, <1>3, <2>1, <3>1 DEF Right
    <2> QED BY <1>1, <2>1, HoldersOwn DEF ExclusiveAlone
  <1>5. OpenFilesExist
    <2>1. ASSUME NEW n \in Node, Holders(n) # {} PROVE Allocated(n) /\ mcnt[Dev(n)] > 0
      BY <1>1, <1>3, <2>1, HoldersOwn DEF Allocated, Free
    <2> QED BY <2>1 DEF OpenFilesExist
  <1>6. MountsCounted
    BY <1>1, UsersHold DEF MountsCounted, UInv, MountsRight, Used
  <1>7. JoinLeadsOn
    BY DEF JoinLeadsOn, UInv, Joined
  <1>8. UnmountWhenIdle
    <2>1. SUFFICES ASSUME NEW c \in Client, handle[c].node = Sub,
                          Holders(Sub) = {<<c, handle[c]>>}
                   PROVE  Unmounts(c)
      BY DEF UnmountWhenIdle
    <2>2. Sub \in Node /\ Dev(Sub) = 1 /\ held[c] = handle[c] /\ c \in Owner
      BY <1>1, HeldTyped
    <2>3. Owners(held, Sub) = {c}
      <3>1. ASSUME NEW k \in Owners(held, Sub) PROVE k = c
        <4>1. <<k, held[k]>> \in Holders(Sub)
          BY <1>1, <2>2, HoldersOwn
        <4> QED BY <2>1, <4>1
      <3>2. c \in Owners(held, Sub)
        BY <2>1, <2>2 DEF Owners
      <3> QED BY <3>1, <3>2
    <2>4. mcnt[1] > 0 /\ joined # Closed
      BY <1>3, <2>2, <2>3 DEF UInv, Joined
    <2>5. Using(held, 1) = {c}
      BY <1>1, <2>1, <2>2, <2>3, HeldTyped DEF Using, Owners, Dev
    <2>6. mcnt[1] = 2
      <3>1. Cardinality(Using(held, 1)) = 1
        BY <2>5, FS_Singleton
      <3> QED BY <2>4, <3>1 DEF UInv, MountsRight, Used, Mid
    <2>7. stat[Sub].opens # 0
      <3>1. ~(stat[Sub].atime < mtime[1]) /\ stat[Sub].opens = Opens(held, Sub)
        BY <1>1, <2>2, <2>3, <2>4 DEF Right
      <3> QED BY <2>3, <3>1, NoOwner
    <2>8. Leaving(stat, mcnt, Sub)[1] = 1
      BY <2>2, <2>6, <2>7 DEF Leaving, UInv, MountsRight, Mid
    <2> QED BY <2>1, <2>4, <2>8 DEF Unmounts
  <1> QED BY <1>2, <1>4, <1>5, <1>6, <1>7, <1>8

(* For any number of processes, files and names, with filesystems that run  *)
(* full, mounts, restarts and processes that never close, when no access    *)
(* time is set by hand, no drive unmounted by its id and no restart in the   *)
(* second of the stop: the opens of a file are those who have it open, an    *)
(* exclusive one is alone, nothing open is freed or unmounted, and what      *)
(* mcnt counts are the open files, so that the last user of a filesystem     *)
(* can unmount it (btfile.c, btserve.c).                                    *)
THEOREM OpensStayCounted ==
  ASSUME ~Touching, ~Drives, ~SameSecond
  PROVE  Spec => [](/\ OpensCounted /\ ExclusiveAlone /\ OpenFilesExist
                    /\ MountsCounted /\ JoinLeadsOn /\ UnmountWhenIdle)
  <1>1. IInv /\ UInv /\ [Next]_vars => (IInv /\ UInv)'
    BY StepIInv, StepUInv
  <1>2. IInv /\ UInv => /\ OpensCounted /\ ExclusiveAlone /\ OpenFilesExist
                        /\ MountsCounted /\ JoinLeadsOn /\ UnmountWhenIdle
    BY UInvSays
  <1> QED BY InitIInv, InitUInv, <1>1, <1>2, PTL DEF Spec
=============================================================================

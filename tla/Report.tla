------------------------------- MODULE Report -------------------------------
(***************************************************************************)
(* btddir's report of a filesystem read offline (fix/btddir.cc,            *)
(* fix/logdir.cc): from the blocks in the order they lie, with no index,   *)
(* the directory tree, what no directory leads to, and the roots whose     *)
(* counts are wrong.  The filesystem read is the device, the image that    *)
(* btsave makes of it, or what btrest makes of that image.                 *)
(***************************************************************************)
EXTENDS Integers, Sequences, FiniteSets, SequencesExt

CONSTANTS
  Disks,      \* the filesystems: sequences of blocks
  Sign        \* what the sign bit takes from a block number

VARIABLES disk, source, read, log, main, lost, printed

reportVars == <<disk, source, read, log, main, lost, printed>>

\* A block: root (0 deleted), son, lbro; stem; dir and stat of a root; and
\* its node: recs [name, to], to = 0 a symbolic link, and what is wrong
\* with it, "none", "offsets" or "record".
Mark(n) == IF n < 0 THEN n ELSE n - Sign
Unmark(n) == IF n < 0 THEN n + Sign ELSE n
Unreadable == 0 - Sign      \* what fstbl::get() leaves as the root of a bad block

(***************************************************************************)
(* The type of a block, as btasFS::buftypex; long has 64 bits, so that the *)
(* root of a bad block is not equal to 0x80000000L.                        *)
(***************************************************************************)
IsDel(b) == b.root = 0
IsRoot(b, n) == b.root < 0 \/ (b.root = n /\ n # 0)
IsDirBlock(b, n) == IF IsRoot(b, n) THEN b.dir ELSE b.son < 0
\* The same of a block found by get(blk), which gives nothing for a bad one.
TypeIsRoot(d, n) == n \in DOMAIN d /\ d[n].root # Unreadable /\ IsRoot(d[n], n)
TypeIsDir(d, n) == n \in DOMAIN d /\ d[n].root # Unreadable /\ ~IsDel(d[n]) /\ IsDirBlock(d[n], n)
TypeIsDel(d, n) == n \in DOMAIN d /\ IsDel(d[n])

(***************************************************************************)
(* btsave and btrest                                                       *)
(***************************************************************************)
Rooted(b, n) == [b EXCEPT !.root = IF IsRoot(b, n) THEN Mark(@) ELSE @]
OfDirectory(d, b, n) == IF IsRoot(b, n) THEN b.dir ELSE ~IsDel(b) /\ TypeIsDir(d, b.root)
Deleted(d, b, n) == IsDel(b) \/ (~IsRoot(b, n) /\ TypeIsDel(d, b.root))

\* -z: a deleted block is written as zeros but for the chain.
Zeroed(b) == [b EXCEPT !.root = 0, !.lbro = 0, !.stem = FALSE, !.dir = FALSE,
                       !.son = IF b.root # 0 THEN b.lbro ELSE @,
                       !.node = [recs |-> <<>>, fault |-> "none"]]
SavedBlock(d, b, n, zerodel) ==
  IF OfDirectory(d, b, n) THEN [Rooted(b, n) EXCEPT !.son = Mark(@)]
  ELSE IF Deleted(d, b, n) /\ zerodel THEN Zeroed(b)
  ELSE Rooted(b, n)
Saved(d, zerodel) == [n \in DOMAIN d |-> SavedBlock(d, d[n], n, zerodel)]

\* Seeded fault: the mark of a directory's blocks is left.
UnmarkedRoot(b) == [b EXCEPT !.root = Unmark(@)]
RestoredBlock(b) == [b EXCEPT !.root = Unmark(@), !.son = Unmark(@)]
Restored(image) == [n \in DOMAIN image |-> RestoredBlock(image[n])]

(***************************************************************************)
(* Logdir: for each root its counts, the stat of its root block, and the   *)
(* entries found in its blocks.                                            *)
(***************************************************************************)
NoStat == [bcnt |-> 0, rcnt |-> 0, links |-> 0]
NewRoot == [bcnt |-> 0, rcnt |-> 0, links |-> 0, st |-> NoStat, dir |-> <<>>, last |-> 0]
AddRoot(lg, r) == IF r \in DOMAIN lg THEN lg
                  ELSE [x \in DOMAIN lg \cup {r} |-> IF x = r THEN NewRoot ELSE lg[x]]
LogRoot(lg, r, st) == [AddRoot(lg, r) EXCEPT ![r].st = st]
LogRecs(lg, r, cnt) ==
  [AddRoot(lg, r) EXCEPT ![r].bcnt = @ + 1, ![r].rcnt = IF cnt > 0 THEN @ + cnt ELSE @]

\* logdir: after the last entry when that is less, else from the head, past
\* the entries that are greater.
Start(d, rec) == IF d.last # 0 /\ d.dir[d.last].name < rec.name THEN d.last ELSE 0
Place(d, rec) ==
  CHOOSE i \in Start(d, rec)..Len(d.dir) :
    /\ \A j \in (Start(d, rec) + 1)..i : d.dir[j].name > rec.name
    /\ i < Len(d.dir) => d.dir[i + 1].name <= rec.name
Entered(d, rec, i) == [d EXCEPT !.dir = InsertAt(@, i + 1, rec), !.last = i + 1]
Linked(lg, rec) == IF rec.to = 0 THEN lg ELSE [AddRoot(lg, rec.to) EXCEPT ![rec.to].links = @ + 1]
LogDir(lg, r, rec) ==
  LET with == Linked(AddRoot(lg, r), rec) IN [with EXCEPT ![r] = Entered(@, rec, Place(@, rec))]

\* donode: the count, negative when the node is not whole; the entries of
\* a directory are logged up to the record that is wrong.
Count(node) == CASE node.fault = "none" -> Len(node.recs) [] node.fault = "offsets" -> 0 - 2 [] OTHER -> 0 - 5
Loggable(node) ==
  CASE node.fault = "none" -> node.recs [] node.fault = "offsets" -> <<>> [] OTHER -> Front(node.recs)
DoNode(lg, r, node, isdir) ==
  IF isdir THEN FoldLeft(LAMBDA l, rec : LogDir(l, r, rec), lg, Loggable(node)) ELSE lg

\* btddir's loop: what the next block adds.
Inspect(lg, r, b, isdir) ==
  IF b.stem THEN LogRecs(lg, r, 0) ELSE LogRecs(DoNode(lg, r, b.node, isdir), r, Count(b.node))
RootOf(b) == IF source = "image" THEN Unmark(b.root) ELSE b.root
\* Seeded fault: the leaves of a deleted file count on the device too.
AnyLeaf(d, lg, b, n) ==
  IF IsDel(b) THEN lg
  ELSE IF IsRoot(b, n) THEN Inspect(LogRoot(lg, RootOf(b), b.stat), RootOf(b), b, b.dir)
  ELSE Inspect(lg, RootOf(b), b, TypeIsDir(d, b.root))
Inspected(d, lg, b, n) ==
  IF IsDel(b) THEN lg
  ELSE IF IsRoot(b, n) THEN Inspect(LogRoot(lg, RootOf(b), b.stat), RootOf(b), b, b.dir)
  ELSE IF source = "image" THEN Inspect(lg, RootOf(b), b, b.son < 0)
  ELSE IF TypeIsRoot(d, b.root) THEN Inspect(lg, b.root, b, TypeIsDir(d, b.root))
  ELSE lg

Source(d) == CASE source = "device" -> d
               [] source = "image" -> Saved(d, FALSE)
               [] OTHER -> Restored(Saved(d, TRUE))

ReportInit ==
  /\ disk \in Disks
  /\ source \in {"device", "image", "restored"}
  /\ read = 0 /\ log = [r \in {} |-> NewRoot]
  /\ main = 0 /\ lost = 0
  /\ printed = [seen |-> <<>>, wrong |-> {}, blocks |-> 0]

NextBlock ==
  /\ read < Len(disk)
  /\ read' = read + 1
  /\ \E d \in {Source(disk)} : log' = Inspected(d, log, d[read + 1], read + 1)
  /\ UNCHANGED <<disk, source, main, lost, printed>>

\* printroot: a root already shown is only named again.
Amiss(r) == r.links # r.st.links \/ r.bcnt # r.st.bcnt \/ r.rcnt # r.st.rcnt
Shown(p, r, root) ==
  [seen |-> Append(p.seen, r),
   wrong |-> IF Amiss(root) THEN p.wrong \cup {r} ELSE p.wrong,
   blocks |-> p.blocks + root.bcnt]
RECURSIVE PrintRoot(_, _, _)
PrintRoot(lg, p, r) ==
  IF r \in Range(p.seen) THEN p
  ELSE FoldLeft(LAMBDA q, d : IF d.to = 0 THEN q ELSE PrintRoot(lg, q, d.to),
                Shown(p, r, lg[r]), lg[r].dir)
\* ++r->links: as if a directory led to it.
Topmost(lg, r) == [lg EXCEPT ![r].links = @ + 1]

\* logprint, the main tree.
PrintMain ==
  /\ read = Len(disk) /\ 1 \in DOMAIN log /\ printed.seen = <<>>
  /\ log' = Topmost(log, 1)
  /\ printed' = PrintRoot(Topmost(log, 1), printed, 1)
  /\ main' = printed'.blocks
  /\ UNCHANGED <<disk, source, read, lost>>

\* logprint's twalk: logchk of the next root, in order, that is not shown.
PrintLost ==
  /\ read = Len(disk) /\ (1 \in DOMAIN log => printed.seen # <<>>)
  /\ \E r \in DOMAIN log \ Range(printed.seen) :
       /\ \A x \in DOMAIN log \ Range(printed.seen) : r <= x
       /\ log' = Topmost(log, r)
       /\ printed' = PrintRoot(Topmost(log, r), printed, r)
       /\ lost' = lost + printed'.blocks - printed.blocks
  /\ UNCHANGED <<disk, source, read, main>>

ReportNext == NextBlock \/ PrintMain \/ PrintLost

(***************************************************************************)
(* Properties.                                                             *)
(***************************************************************************)
Finished == read = Len(disk) /\ DOMAIN log \subseteq Range(printed.seen)

\* The blocks of each root, and where its directory blocks lead.
BlocksOf(r) == {n \in DOMAIN disk : disk[n].root = r /\ r # 0 /\ (IsRoot(disk[n], n) \/ TypeIsRoot(disk, r))}
Leads(r) ==
  {s \in 1..Len(disk) : \E n \in BlocksOf(r) :
     ~disk[n].stem /\ disk[r].dir /\ \E i \in DOMAIN Loggable(disk[n].node) : Loggable(disk[n].node)[i].to = s}
RECURSIVE Reached(_)
Reached(rs) == LET more == rs \cup UNION {Leads(r) : r \in {x \in rs : x \in DOMAIN disk /\ TypeIsRoot(disk, x)}}
               IN IF more = rs THEN rs ELSE Reached(more)
Live == {n \in DOMAIN disk : \E r \in 1..Len(disk) : n \in BlocksOf(r)}
\* The leaves of a file whose root has been deleted.
Stray == {n \in DOMAIN disk : disk[n].root > 0 /\ ~TypeIsRoot(disk, disk[n].root)}
Broken == {n \in DOMAIN disk : disk[n].root = Unreadable}

(* When the report is complete every root has been shown once, the blocks   *)
(* said to be accessible are those of the files that the root directory     *)
(* leads to, and all other blocks in use are counted as lost.  From an      *)
(* image the blocks of deleted files count as lost too.  An unreadable      *)
(* block counts as lost but where btrest has made it a deleted one.         *)
Accounted ==
  Finished =>
    /\ \A i, j \in DOMAIN printed.seen : i # j => printed.seen[i] # printed.seen[j]
    /\ main = Cardinality({n \in Live : disk[n].root \in Reached({1})})
              + (IF source = "image" THEN Cardinality({n \in Stray : disk[n].root \in Reached({1})}) ELSE 0)
    /\ main + lost = Cardinality(Live) + (IF source = "image" THEN Cardinality(Stray) ELSE 0)
                       + (IF source = "restored" THEN 0 ELSE Cardinality(Broken))

(* What btrest makes of btsave's image is the filesystem again, unreadable  *)
(* blocks and, with -z, the blocks of deleted files as deleted ones.        *)
SavedWhole ==
  \A n \in DOMAIN disk :
    /\ n \notin Broken => Restored(Saved(disk, FALSE))[n] = disk[n]
    /\ IF n \in Broken \/ Deleted(disk, disk[n], n)
       THEN Restored(Saved(disk, TRUE))[n].root = 0
       ELSE Restored(Saved(disk, TRUE))[n] = disk[n]
=============================================================================

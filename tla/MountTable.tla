----------------------------- MODULE MountTable -----------------------------
(***************************************************************************)
(* The mount table devtbl[] and the extent table extbl[] shared by its     *)
(* entries: BlockCache::mount and unmount (btbuf.c), DEV::open and close   *)
(* (btdev.cc), FDEV::open (fsdev.cc).  A filesystem is one or more OS      *)
(* files; an entry of devtbl, once closed, is reused by the next mount     *)
(* with whatever its fields still hold.                                    *)
(***************************************************************************)
EXTENDS Integers, FiniteSets

CONSTANTS
  MaxMnt,    \* MAXMNT entries in devtbl
  MaxExt,    \* MAXEXT entries in extbl
  Fs,        \* filesystems
  Extents,   \* dcnt of each filesystem
  Area,      \* checkpoint blocks that fit before its root block; -1: not failsafe
  Missing,   \* filesystems one of whose extension files may be out of reach
  NoFs,
  MaxTime,   \* bound: seconds in a behaviour
  MaxBotched \* bound: descriptors in question before no other mount fails half way

MountAssumption ==
  /\ MaxMnt \in Nat \ {0} /\ MaxExt \in Nat \ {0} /\ MaxTime \in Nat /\ MaxBotched \in Nat
  /\ Extents \in [Fs -> Nat \ {0}]
  /\ Area \in [Fs -> Nat \cup {-1}]
  /\ Missing \subseteq {f \in Fs : Extents[f] > 1}
  /\ NoFs \notin Fs

VARIABLES
  devtbl,    \* per mount id: filesystem (NoFs when closed), baseid, mount_time, maxblks
  extbl,     \* extent table: OS descriptor and owning mount id
  extcnt,    \* entries of extbl in use
  hdr,       \* baseid and mount_time in each filesystem's superblock on disk
  fdtbl,     \* open descriptors: the filesystem file each one is for
  now,       \* time(), in seconds
  botched    \* history: descriptors that mounts failing half way left open, or took from others

vars == <<devtbl, extbl, extcnt, hdr, fdtbl, now, botched>>

Mnt == 0..(MaxMnt - 1)
Slot == 0..(MaxExt - 1)
Fd == 0..(2 * MaxExt)              \* bound: room for a few leaked descriptors
NotOpen == <<NoFs, 0>>
Stdin == <<NoFs, 1>>               \* what descriptor 0 is when the server starts
IsOpen(m) == devtbl[m].fs # NoFs

Init ==
  /\ devtbl = [m \in Mnt |-> [fs |-> NoFs, baseid |-> 0, mtime |-> 0, maxblks |-> 0]]
  /\ extbl = [i \in Slot |-> [fd |-> 0, mid |-> 0]]
  /\ extcnt = 0
  /\ hdr = [f \in Fs |-> [baseid |-> 0, mtime |-> 0]]
  /\ fdtbl = [d \in Fd |-> IF d = 0 THEN Stdin ELSE NotOpen]
  /\ now = 1
  /\ botched = {}

(* The n lowest descriptors that are not open, in order. *)
Unused == {d \in Fd : fdtbl[d] = NotOpen}
Lowest(n) == CHOOSE s \in [0..(n - 1) -> Unused] :
               /\ \A i, j \in 0..(n - 1) : i < j => s[i] < s[j]
               /\ \A d \in Unused : d < s[n - 1] => \E i \in 0..(n - 1) : s[i] = d

(* "is it already mounted": the superblock names an extent in use, and the  *)
(* device there has the mount time of the superblock.                       *)
SeemsMounted(f) ==
  /\ hdr[f].baseid < extcnt
  /\ LET m == extbl[hdr[f].baseid].mid
     IN  IsOpen(m) /\ devtbl[m].mtime = hdr[f].mtime

FreeMid(m) == ~IsOpen(m) /\ \A k \in 0..(m - 1) : IsOpen(k)

(* FDEV::open: the buffer only grows, except that it is given up for a      *)
(* checkpoint area with no room at all.                                     *)
MaxBlks(f, old) ==
  CASE Area[f] > old -> Area[f]
    [] Area[f] = 0   -> 0
    [] OTHER         -> old

(* Seeded fault: BTERMTBL only when the extent table is full already. *)
RoomForOne(f) == extcnt < MaxExt

(* BTERMTBL. *)
Room(f) == extcnt + Extents[f] <= MaxExt

(* BTMOUNT of a filesystem whose files can all be opened. *)
Mount(m, f) ==
  /\ FreeMid(m)
  /\ ~SeemsMounted(f)                     \* BTEROPEN
  /\ Cardinality(Unused) >= Extents[f]    \* bound
  /\ Room(f)
  /\ LET n == Extents[f]
         fd == Lowest(n)
     IN  /\ fdtbl' = [d \in Fd |-> IF \E i \in 0..(n - 1) : fd[i] = d
                                   THEN <<f, CHOOSE i \in 0..(n - 1) : fd[i] = d>>
                                   ELSE fdtbl[d]]
         /\ extbl' = [i \in Slot |-> IF i \in extcnt..(extcnt + n - 1)
                                     THEN [fd |-> fd[i - extcnt], mid |-> m]
                                     ELSE extbl[i]]
         /\ extcnt' = extcnt + n
  /\ devtbl' = [devtbl EXCEPT ![m] = [fs |-> f, baseid |-> extcnt, mtime |-> now,
                                      maxblks |-> MaxBlks(f, @.maxblks)]]
  /\ hdr' = [hdr EXCEPT ![f] = [baseid |-> extcnt, mtime |-> now]]
  /\ UNCHANGED <<now, botched>>

(* BTMOUNT of a filesystem whose extension j cannot be opened: the files    *)
(* opened so far are meant to be closed again, but the loop starts at the   *)
(* entry of the extension itself, whose descriptor was never set, and does  *)
(* not reach the primary file.  Two descriptors may be left otherwise than   *)
(* the mount found them: the primary file's, which stays open, and the one   *)
(* that an earlier mount has left in that entry, whoever has it now.         *)
CleanedUp(j) == 1..j
MountMissing(m, f, j) ==
  /\ FreeMid(m)
  /\ f \in Missing /\ j \in 1..(Extents[f] - 1)
  /\ Cardinality(botched) < MaxBotched     \* bound
  /\ ~SeemsMounted(f)
  /\ Room(f)
  /\ Cardinality(Unused) >= j
  /\ LET fd == Lowest(j)
         filled == [i \in Slot |->
                      CASE i \in extcnt..(extcnt + j - 1) -> [fd |-> fd[i - extcnt], mid |-> m]
                        [] i = extcnt + j -> [fd |-> extbl[i].fd, mid |-> m]
                        [] OTHER -> extbl[i]]
         opened == [d \in Fd |-> IF \E i \in 0..(j - 1) : fd[i] = d
                                 THEN <<f, CHOOSE i \in 0..(j - 1) : fd[i] = d>>
                                 ELSE fdtbl[d]]
         closed == {filled[extcnt + i].fd : i \in CleanedUp(j)}
     IN  /\ extbl' = filled
         /\ fdtbl' = [d \in Fd |-> IF d \in closed THEN NotOpen ELSE opened[d]]
         /\ botched' = botched \cup
                         {d \in {fd[0], extbl[extcnt + j].fd} : fdtbl'[d] # fdtbl[d]}
  /\ UNCHANGED <<devtbl, extcnt, hdr, now>>

(* Seeded faults: the device just above the gap is not moved, the table     *)
(* moves down by one entry only, only the primary file is closed.           *)
RebasedAbove(k, base, n) ==
  IF IsOpen(k) /\ devtbl[k].baseid > base + n THEN devtbl[k].baseid - n
                                              ELSE devtbl[k].baseid
CompressedByOne(base, n) ==
  [i \in Slot |-> IF i \in base..(extcnt - n - 1) THEN extbl[i + 1] ELSE extbl[i]]
ClosedPrimary(base, n) == {extbl[base].fd}

(* What DEV::close makes of the n entries from base on: the descriptors it  *)
(* closes, the table without them, and the baseid of the other devices.     *)
Closed(base, n) == {extbl[base + i].fd : i \in 0..(n - 1)}
Compressed(base, n) ==
  [i \in Slot |-> IF i \in base..(extcnt - n - 1) THEN extbl[i + n] ELSE extbl[i]]
Rebased(k, base, n) ==
  IF IsOpen(k) /\ devtbl[k].baseid >= base + n THEN devtbl[k].baseid - n
                                               ELSE devtbl[k].baseid

(* DEV::close after BlockCache::unmount: the files are closed and the       *)
(* extents of later mounts moved down over the gap.  The superblocks of     *)
(* those mounts are not written.  Of the closed entry only maxblks is read   *)
(* again before it is set; baseid and mount_time are forgotten here.        *)
Unmount(m) ==
  /\ IsOpen(m)
  /\ LET f == devtbl[m].fs
         base == devtbl[m].baseid
         n == Extents[f]
     IN  /\ fdtbl' = [d \in Fd |-> IF d \in Closed(base, n) THEN NotOpen ELSE fdtbl[d]]
         /\ extbl' = Compressed(base, n)
         /\ extcnt' = extcnt - n
         /\ devtbl' = [k \in Mnt |-> [devtbl[k] EXCEPT
                                        !.fs = IF k = m THEN NoFs ELSE @,
                                        !.mtime = IF k = m THEN 0 ELSE @,
                                        !.baseid = IF k = m THEN 0 ELSE Rebased(k, base, n)]]
  /\ UNCHANGED <<hdr, now, botched>>

(* A write or a sync that changes the flag writes the whole superblock.     *)
WriteHdr(m) ==
  /\ IsOpen(m)
  /\ hdr' = [hdr EXCEPT ![devtbl[m].fs] = [baseid |-> devtbl[m].baseid,
                                           mtime |-> devtbl[m].mtime]]
  /\ UNCHANGED <<devtbl, extbl, extcnt, fdtbl, now, botched>>

Tick ==
  /\ now < MaxTime
  /\ now' = now + 1
  /\ UNCHANGED <<devtbl, extbl, extcnt, hdr, fdtbl, botched>>

Next ==
  \/ \E m \in Mnt, f \in Fs :
       \/ Mount(m, f)
       \/ \E j \in 1..(Extents[f] - 1) : MountMissing(m, f, j)
  \/ \E m \in Mnt : Unmount(m) \/ WriteHdr(m)
  \/ Tick

Spec == Init /\ [][Next]_vars

-----------------------------------------------------------------------------
TypeOK ==
  /\ devtbl \in [Mnt -> [fs: Fs \cup {NoFs}, baseid: 0..MaxExt, mtime: 0..MaxTime,
                         maxblks: Nat]]
  /\ extbl \in [Slot -> [fd: Fd, mid: Mnt]]
  /\ extcnt \in 0..MaxExt
  /\ hdr \in [Fs -> [baseid: 0..MaxExt, mtime: 0..MaxTime]]
  /\ fdtbl \in [Fd -> (Fs \X Nat) \cup {NotOpen, Stdin}]
  /\ now \in 1..MaxTime
  /\ botched \subseteq Fd

(* Every extent of a mounted filesystem is in extbl where its device looks  *)
(* for it, however many mounts before it have gone (DEV::close moves the    *)
(* table under it), and the table holds nothing else.                       *)
Extent(m) == {devtbl[m].baseid + i : i \in 0..(Extents[devtbl[m].fs] - 1)}

ExtentsOwned ==
  /\ \A m \in Mnt : IsOpen(m) => \A e \in Extent(m) : e < extcnt /\ extbl[e].mid = m
  /\ \A e \in 0..(extcnt - 1) : \E m \in Mnt : IsOpen(m) /\ e \in Extent(m)

(* The descriptor of every extent is open on the file it should be, apart    *)
(* from those in except.                                                    *)
DescriptorsOpenBut(except) ==
  \A m \in Mnt : IsOpen(m) =>
    \A e \in Extent(m) :
      extbl[e].fd \in except \/ fdtbl[extbl[e].fd] = <<devtbl[m].fs, e - devtbl[m].baseid>>
DescriptorsOpen == DescriptorsOpenBut({})

(* Nor is any leaked: a descriptor open on a filesystem is that of an       *)
(* extent of a mounted one.                                                 *)
NoLeakBut(except) ==
  \A d \in Fd \ except : fdtbl[d][1] \in Fs =>
    \E m \in Mnt : IsOpen(m) /\ \E e \in Extent(m) : extbl[e].fd = d

(* Mounting and unmounting in any order, with a table that is compressed     *)
(* each time, closes no descriptor of another filesystem and leaves none     *)
(* behind.  A mount that fails half way closes the extensions it has opened; *)
(* it can leave its primary file open, and close the descriptor an earlier   *)
(* mount has left in the entry of the missing extension.  What is open under *)
(* the number of one of these two is in question from then on, until the     *)
(* server ends, for whoever gets that number; every other descriptor stays   *)
(* that of its extent.                                                      *)
DescriptorsKept == DescriptorsOpenBut(botched) /\ NoLeakBut(botched)

(* A filesystem is mounted at most once. *)
MountedOnce ==
  \A m, k \in Mnt : IsOpen(m) /\ devtbl[m].fs = devtbl[k].fs => m = k

(* A device never writes a checkpoint longer than the room its filesystem   *)
(* has for one before the root block.                                       *)
CheckpointFits ==
  \A m \in Mnt : IsOpen(m) => devtbl[m].maxblks <= IF Area[devtbl[m].fs] > 0
                                                   THEN Area[devtbl[m].fs] ELSE 0
=============================================================================

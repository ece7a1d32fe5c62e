-------------------------------- MODULE Files --------------------------------
(***************************************************************************)
(* Files and directories as the server keeps them (btfile.c, and the       *)
(* requests of btas.c that use it): links, opens and the join table.       *)
(*                                                                         *)
(* A filesystem is always mounted as mount id 0; another one, of which     *)
(* only the root directory Sub is modelled, may be mounted as 1 on one of  *)
(* the files of 0.  A request runs to its end before the next one, and     *)
(* leaves by longjmp when something it calls posts an error.  A process    *)
(* has one BTCB; one that ends without closing it just takes no more       *)
(* steps, and the server never knows.                                      *)
(***************************************************************************)
EXTENDS Integers, FiniteSets

CONSTANTS
  Client,      \* processes
  Root, Sub,   \* the root directories of the two filesystems
  File,        \* blocks a new file of filesystem 0 can be rooted at (bound)
  Linkable,    \* files links are made to: also Root, which ".." is a link to
  Name,        \* names in a directory
  None,        \* no file, and no open BTCB
  CanFill,     \* may an insert in a directory find the filesystem full
  Touching,    \* may BTTOUCH set an access time in the past, as a reload does
  Drives,      \* may Sub be mounted and unmounted by its mount id alone
  SameSecond,  \* may the server be back within the second it was stopped in
  MaxTime,     \* bound: seconds in a behaviour
  MaxCount     \* bound: links and opens of a file, and what mcnt counts up to

ASSUME FilesAssumption ==
  /\ Root # Sub /\ {Root, Sub} \cap File = {}
  /\ Linkable \subseteq File \cup {Root}
  /\ None \notin {Root, Sub} \cup File \cup Client
  /\ {CanFill, Touching, Drives, SameSecond} \subseteq BOOLEAN
  /\ IsFiniteSet(File) /\ IsFiniteSet(Name) /\ IsFiniteSet(Client)
  /\ MaxTime \in Nat \ {0} /\ MaxCount \in Nat

VARIABLES
  stat,        \* struct btstat of each root node: links, opens, atime, is it a directory
  dir,         \* the directory records: per directory and name the file
  handle,      \* the BTCB of each process: the file, and whether BTEXCL
  joined,      \* jointbl: what Sub is mounted on, and whether that was open BTEXCL
  mcnt,        \* DEV::mcnt of both filesystems, 0 when not mounted
  mtime,       \* DEV::mount_time
  now          \* time(), in seconds

vars == <<stat, dir, handle, joined, mcnt, mtime, now>>

Node == {Root, Sub} \cup File
Mid == {0, 1}
Dev(n) == IF n = Sub THEN 1 ELSE 0

Free == [links |-> 0, opens |-> 0, atime |-> 0, isdir |-> FALSE]
Closed == [node |-> None, excl |-> FALSE]
IsOpen(c) == handle[c] # Closed
Allocated(n) == stat[n] # Free

Init ==
  /\ stat = [n \in Node |-> IF n \in File THEN Free
                            ELSE [links |-> 1, opens |-> 0, atime |-> 0, isdir |-> TRUE]]
  /\ dir = [d \in Node |-> [x \in Name |-> None]]
  /\ handle = [c \in Client |-> Closed]
  /\ joined = Closed
  /\ mcnt = [m \in Mid |-> IF m = 0 THEN 1 ELSE 0]
  /\ mtime = [m \in Mid |-> 1]
  /\ now = 1

-----------------------------------------------------------------------------
(* The files a path can lead to: it starts at the root of a filesystem or   *)
(* at an open directory, and goes from a directory to what it names, or to  *)
(* what is mounted there.                                                   *)
Mounted(n) == IF joined.node = n THEN Sub ELSE n

Starts == {Root} \cup (IF mcnt[1] > 0 THEN {Sub} ELSE {})
                 \cup {handle[c].node : c \in {k \in Client : IsOpen(k)}}

Named(d) == {Mounted(dir[d][x]) : x \in {y \in Name : dir[d][y] # None}}

Reachable ==
  {n \in Node : \A S \in SUBSET Node :
     Starts \subseteq S /\ (\A d \in S : Named(d) \subseteq S) => n \in S}

(* openfile: a lock left by an earlier server is reset. *)
Reset(n) ==
  IF stat[n].atime < mtime[Dev(n)] THEN [stat EXCEPT ![n].opens = 0] ELSE stat

(* BTSTAT, or a BTOPEN refused for its permissions: the lock is reset all   *)
(* the same.                                                                *)
Look(n) ==
  /\ n \in Reachable
  /\ mcnt[Dev(n)] > 0
  /\ stat' = Reset(n)
  /\ UNCHANGED <<dir, handle, joined, mcnt, mtime, now>>

(* BTERLOCK otherwise. *)
Lockable(n, excl) ==
  IF excl THEN Reset(n)[n].opens = 0 ELSE Reset(n)[n].opens # -1

(* BTOPEN, exclusive or shared. *)
Open(c, n, excl) ==
  /\ ~IsOpen(c)
  /\ n \in Reachable
  /\ mcnt[Dev(n)] > 0
  /\ mcnt[Dev(n)] < MaxCount /\ Reset(n)[n].opens < MaxCount     \* bound
  /\ Lockable(n, excl)
  /\ stat' = [Reset(n) EXCEPT ![n].opens = IF excl THEN -1 ELSE @ + 1,
                              ![n].atime = now]
  /\ handle' = [handle EXCEPT ![c] = [node |-> n, excl |-> excl]]
  /\ mcnt' = [mcnt EXCEPT ![Dev(n)] = @ + 1]
  /\ UNCHANGED <<dir, joined, mtime, now>>

(* Seeded faults: -1 is counted down too; the close of an exclusive open is *)
(* not counted.                                                             *)
ClosingAny(s, n) == [s EXCEPT ![n].opens = IF @ # 0 THEN @ - 1 ELSE 0]

LeavingShared(s, cnt, n) ==
  IF s[n].opens > 0 THEN [cnt EXCEPT ![Dev(n)] = @ - 1] ELSE cnt

(* closefile of an open BTCB: what it makes of the file and of mcnt. *)
Closing(s, n) ==
  [s EXCEPT ![n].opens = CASE @ = -1 -> 0 [] @ > 0 -> @ - 1 [] OTHER -> 0]

Leaving(s, cnt, n) ==
  IF s[n].opens # 0 THEN [cnt EXCEPT ![Dev(n)] = @ - 1] ELSE cnt

Close(c) ==
  /\ IsOpen(c)
  /\ stat' = Closing(stat, handle[c].node)
  /\ mcnt' = Leaving(stat, mcnt, handle[c].node)
  /\ handle' = [handle EXCEPT ![c] = Closed]
  /\ UNCHANGED <<dir, joined, mtime, now>>

-----------------------------------------------------------------------------
(* Directory records.  An insert that needs a new node posts BTERFULL on a  *)
(* full filesystem, and the request ends there.                             *)

OpenDir(c) == IsOpen(c) /\ stat[handle[c].node].isdir /\ handle[c].node # Sub

(* BTCREATE: a new root with one link, then its record.  When the name is   *)
(* taken the root is freed again, which leaves all as it was.               *)
Create(c, x, f, isdir) ==
  /\ OpenDir(c)
  /\ f \in File /\ ~Allocated(f)
  /\ stat' = [stat EXCEPT ![f] = [links |-> 1, opens |-> 0, atime |-> now,
                                  isdir |-> isdir]]
  /\ dir[handle[c].node][x] = None
  /\ \/ dir' = [dir EXCEPT ![handle[c].node][x] = f]
     \/ CanFill /\ UNCHANGED dir
  /\ UNCHANGED <<handle, joined, mcnt, mtime, now>>

(* BTLINK to a file a process has open (btlink): one more link, then the    *)
(* record.  When the name is taken delfile takes the link back, unless      *)
(* something is mounted on the file.                                        *)
Link(c, x, f) ==
  /\ OpenDir(c)
  /\ \E k \in Client : handle[k].node = f
  /\ f \in Linkable /\ Allocated(f)
  /\ stat[f].links < MaxCount
  /\ IF dir[handle[c].node][x] = None
     THEN /\ stat' = [stat EXCEPT ![f].links = @ + 1]
          /\ \/ dir' = [dir EXCEPT ![handle[c].node][x] = f]
             \/ CanFill /\ UNCHANGED dir
     ELSE /\ joined.node = f
          /\ stat' = [stat EXCEPT ![f].links = @ + 1]
          /\ UNCHANGED dir
  /\ UNCHANGED <<handle, joined, mcnt, mtime, now>>

(* Seeded fault: the last link of an open file can be deleted. *)
DeletableOpen(d, f) ==
  /\ joined.node # f
  /\ Named(f) # {} /\ f # d => stat[f].links >= 2

(* delfile: not while something is mounted on the file, or it is the last   *)
(* link of a directory with records in it or of an open file.               *)
Deletable(d, f) ==
  /\ joined.node # f
  /\ stat[f].isdir /\ Named(f) # {} /\ f # d => stat[f].links >= 2
  /\ stat[f].links <= 1 => stat[f].opens = 0

(* Seeded fault: the last link but one frees the file. *)
DeleteEarly(c, x) ==
  /\ OpenDir(c)
  /\ LET d == handle[c].node
         f == dir[d][x]
     IN  /\ f # None
         /\ Deletable(d, f)
         /\ stat' = [stat EXCEPT ![f] = IF @.links <= 2 THEN Free
                                        ELSE [stat[f] EXCEPT !.links = @ - 1]]
         /\ dir' = [dir EXCEPT ![d][x] = None]
  /\ UNCHANGED <<handle, joined, mcnt, mtime, now>>

(* BTDELETE of a directory record. *)
Delete(c, x) ==
  /\ OpenDir(c)
  /\ LET d == handle[c].node
         f == dir[d][x]
     IN  /\ f # None
         /\ Deletable(d, f)
         /\ stat' = [stat EXCEPT ![f] = IF @.links <= 1 THEN Free
                                        ELSE [stat[f] EXCEPT !.links = @ - 1]]
         /\ dir' = [dir EXCEPT ![d][x] = None]
  /\ UNCHANGED <<handle, joined, mcnt, mtime, now>>

(* BTTOUCH with the times of an archived file. *)
Touch(c, t) ==
  /\ Touching
  /\ IsOpen(c)
  /\ t < now
  /\ stat' = [stat EXCEPT ![handle[c].node].atime = t]
  /\ UNCHANGED <<dir, handle, joined, mcnt, mtime, now>>

-----------------------------------------------------------------------------
(* Mounting. *)

(* BTMOUNT on the open file of the BTCB, which stays open although the BTCB *)
(* now stands for what was mounted.                                         *)
Join(c) ==
  /\ IsOpen(c)
  /\ mcnt[1] = 0
  /\ mcnt' = [mcnt EXCEPT ![1] = 1]
  /\ mtime' = [mtime EXCEPT ![1] = now]
  /\ joined' = handle[c]
  /\ handle' = [handle EXCEPT ![c] = Closed]
  /\ UNCHANGED <<stat, dir, now>>

(* BTERJOIN when the file is not what was mounted, BTERBUSY when it is used *)
(* by others.                                                               *)
Unmounts(c) ==
  /\ handle[c].node = Sub /\ joined # Closed
  /\ Leaving(stat, mcnt, Sub)[1] <= 1

(* Seeded fault: the entry stays in the join table. *)
UnjoinKept(c) ==
  /\ IsOpen(c) /\ Unmounts(c)
  /\ stat' = Closing(Closing(stat, Sub), joined.node)
  /\ mcnt' = [Leaving(stat, mcnt, joined.node) EXCEPT ![1] = 0]
  /\ handle' = [handle EXCEPT ![c] = Closed]
  /\ UNCHANGED <<dir, joined, mtime, now>>

(* BTUMOUNT with an open BTCB, which is closed first, even when nothing     *)
(* else is done; the file mounted on is closed last.                        *)
Unjoin(c) ==
  /\ IsOpen(c)
  /\ LET n == handle[c].node
         s == Closing(stat, n)
         cnt == Leaving(stat, mcnt, n)
     IN  IF Unmounts(c)
         THEN /\ stat' = Closing(s, joined.node)
              /\ mcnt' = [Leaving(s, cnt, joined.node) EXCEPT ![1] = 0]
              /\ joined' = Closed
         ELSE stat' = s /\ mcnt' = cnt /\ UNCHANGED joined
  /\ handle' = [handle EXCEPT ![c] = Closed]
  /\ UNCHANGED <<dir, mtime, now>>

(* BTMOUNT and BTUMOUNT with no root in the BTCB. *)
MountDrive ==
  /\ Drives
  /\ mcnt[1] = 0
  /\ mcnt' = [mcnt EXCEPT ![1] = 1]
  /\ mtime' = [mtime EXCEPT ![1] = now]
  /\ UNCHANGED <<stat, dir, handle, joined, now>>

UmountDrive ==
  /\ Drives
  /\ mcnt[1] = 1
  /\ mcnt' = [mcnt EXCEPT ![1] = 0]
  /\ UNCHANGED <<stat, dir, handle, joined, mtime, now>>

(* The server is stopped, which unmounts everything, and started again; the *)
(* library refuses to use a BTCB of the old one.                            *)
Restart ==
  /\ now' \in {now + 1} \cup (IF SameSecond THEN {now} ELSE {})
  /\ now' <= MaxTime
  /\ mcnt' = [m \in Mid |-> IF m = 0 THEN 1 ELSE 0]
  /\ mtime' = [mtime EXCEPT ![0] = now']
  /\ handle' = [c \in Client |-> Closed]
  /\ joined' = Closed
  /\ UNCHANGED <<stat, dir>>

Next ==
  \/ \E n \in Node : Look(n)
  \/ \E c \in Client :
       \/ \E n \in Node, excl \in BOOLEAN : Open(c, n, excl)
       \/ Close(c)
       \/ \E x \in Name :
            \/ \E f \in File, isdir \in BOOLEAN : Create(c, x, f, isdir)
            \/ \E f \in Linkable : Link(c, x, f)
            \/ Delete(c, x)
       \/ \E t \in 0..(MaxTime - 1) : Touch(c, t)
       \/ Join(c) \/ Unjoin(c)
  \/ MountDrive \/ UmountDrive
  \/ Restart

Spec == Init /\ [][Next]_vars

-----------------------------------------------------------------------------
TypeOK ==
  /\ stat \in [Node -> [links: Nat, opens: Nat \cup {-1}, atime: 0..MaxTime,
                        isdir: BOOLEAN]]
  /\ dir \in [Node -> [Name -> Node \cup {None}]]
  /\ handle \in [Client -> [node: Node \cup {None}, excl: BOOLEAN]]
  /\ joined \in [node: Node \cup {None}, excl: BOOLEAN]
  /\ mcnt \in [Mid -> Nat]
  /\ mtime \in [Mid -> 0..MaxTime]
  /\ now \in 0..MaxTime

(* No file has fewer links than the records that name it, whatever fails    *)
(* half way: a file is never freed while a record still leads to it.        *)
Records(f) == {r \in Node \X Name : dir[r[1]][r[2]] = f}
RecordsCounted == \A f \in File : Cardinality(Records(f)) <= stat[f].links

(* "unlink if can't add record" (btas.c): a link is counted only if there   *)
(* is a record for it.                                                      *)
LinksRecorded == \A f \in File : stat[f].links <= Cardinality(Records(f))

(* Those who have a file open: processes, and the join table.               *)
Holders(n) == {<<c, handle[c]>> : c \in {k \in Client : handle[k].node = n}}
                \cup (IF joined.node = n THEN {<<None, joined>>} ELSE {})

(* The opens kept in the file, unless they are older than the mount, agree  *)
(* with who has it open: it can be neither deleted under its users nor      *)
(* locked for ever by nobody.                                               *)
OpensCounted ==
  \A n \in Node : Allocated(n) /\ mcnt[Dev(n)] > 0 =>
    IF stat[n].atime < mtime[Dev(n)] THEN Holders(n) = {}
    ELSE stat[n].opens = IF \E h \in Holders(n) : h[2].excl
                         THEN -1 ELSE Cardinality(Holders(n))

(* An exclusive open is alone with its file.                                *)
ExclusiveAlone ==
  \A n \in Node : (\E h \in Holders(n) : h[2].excl) => Cardinality(Holders(n)) = 1

(* Nothing open disappears: a file in use is not freed ("Files that are     *)
(* currently open cannot be deleted", btutil.help), its filesystem not      *)
(* unmounted, by an unmount that races with opens and closes of others.     *)
OpenFilesExist ==
  \A n \in Node : Holders(n) # {} => Allocated(n) /\ mcnt[Dev(n)] > 0

(* A filesystem is in use as often as its files are open (and once for      *)
(* itself), so that it can be unmounted when the last one is closed.        *)
MountsCounted ==
  \A m \in Mid : mcnt[m] > 0 =>
    mcnt[m] = 1 + Cardinality(UNION {Holders(n) : n \in {k \in Node : Dev(k) = m}})

(* The join table never leads to a filesystem that is not mounted.          *)
JoinLeadsOn == joined # Closed => mcnt[1] > 0

(* "UMount dir: unmount filesystem" (btutil.help): BTUMOUNT by the only     *)
(* user of a mounted filesystem unmounts it.                                *)
UnmountWhenIdle ==
  \A c \in Client : handle[c].node = Sub /\ Holders(Sub) = {<<c, handle[c]>>}
                       => Unmounts(c)
=============================================================================

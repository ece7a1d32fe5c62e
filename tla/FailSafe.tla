------------------------------ MODULE FailSafe ------------------------------
(***************************************************************************)
(* The failsafe block device of one mounted filesystem (FDEV in fsdev.cc   *)
(* over DEV in btdev.cc), driven by the buffer pool's sync and wait        *)
(* (hash.c) and by mount, unmount and flush (btbuf.c).                     *)
(*                                                                         *)
(* The server is single threaded, so no client operation interleaves with  *)
(* a sync; but the process may be killed between any two writes, and in    *)
(* the middle of the one large write of a checkpoint.  Every action below  *)
(* therefore makes at most one write that recovery can tell apart.         *)
(*                                                                         *)
(* The contents of a block, and of the superblock fields that describe the *)
(* free list and the end of data (meta), are the number of the update that *)
(* last changed them.                                                      *)
(***************************************************************************)
EXTENDS Naturals, FiniteSets

CONSTANTS
  Block,       \* block numbers of the filesystem
  MaxBlks,     \* FDEV::maxblks, the blocks a checkpoint can hold; 0 if not failsafe
  MaxBuf,      \* MAXBUF, the buffers one operation can modify
  Threshold,   \* maxtouch - MAXBUF, where get(0) starts to sync
  SeqMod,      \* chkseq is an unsigned char: 256
  Torn,        \* may a kill cut the checkpoint write short
  Flushing,    \* do the alarm and BTFLUSH call flush() between operations
  Misses,      \* does the cache miss, so that blocks are read from disk
  Prealloc,    \* is space reserved by writing zeros past the end of data (safe_eof)
  CanFill,     \* may the extent reach its end, which fixes its eof
  Failing,     \* may a write fail (EIO, ENOSPC)
  MaxOps,      \* bound: updates in a behaviour
  MaxCrash     \* bound: crashes in a behaviour

ASSUME FailSafeAssumption ==
  /\ IsFiniteSet(Block) /\ Block # {}
  /\ MaxBlks \in 0..254
  /\ MaxBuf \in Nat \ {0}
  /\ Threshold \in Nat \ {0}
  /\ SeqMod \in Nat \ {0}
  /\ Torn \in BOOLEAN /\ Flushing \in BOOLEAN /\ Misses \in BOOLEAN
  /\ Prealloc \in BOOLEAN /\ CanFill \in BOOLEAN /\ Failing \in BOOLEAN
  /\ MaxOps \in Nat
  /\ MaxCrash \in Nat

Dirty == 255                       \* (unsigned char)~0 : update in place

Header == [flag: 0..MaxBlks \cup {Dirty}, chkseq: 0..(SeqMod - 1),
           meta: Nat, eof: {0, 1}]

Zeroed == [flag |-> 0, chkseq |-> 0, meta |-> 0, eof |-> 0]

VARIABLES
  \* in the server
  pc,          \* where the server is
  job,         \* who called BufferPool::sync
  cache,       \* current contents of every block, buffered or not
  mod,         \* blocks whose buffer is BLK_MOD
  chk,         \* blocks whose buffer is BLK_CHK
  cnt,         \* buffers written by the current sync
  err,         \* rc of FDEV::wait: 1 once a write of it has failed
  hdr,         \* the in-memory superblock
  backup,      \* the superblock at the front of FDEV::buf
  queue,       \* blocks in FDEV::buf (blks[0..nblks-1])
  qval,        \* their contents
  lastn,       \* blocks in the previous checkpoint (FDEV::lastsize)
  \* on disk
  disk,        \* data blocks, in place
  sb,          \* first sector: the superblock, and the front of a checkpoint
  cpdom,       \* block list of the checkpoint area
  cpval,       \* blocks of the checkpoint area
  slot,        \* what follows the n-th block of the checkpoint area
  \* bounds
  clock,       \* updates so far
  crashes      \* crashes so far

server == <<cache, mod, chk, cnt, err, hdr, backup, queue, qval, lastn>>
area == <<cpdom, cpval, slot>>
bounds == <<clock, crashes>>
vars == <<pc, job, server, disk, sb, area, bounds>>

Slots == 1..MaxBlks

Idle == pc = "idle"

(* touched[]: every buffer that is modified or checkpointed. *)
Touched == mod \cup chk

Full == Cardinality(Touched) >= Threshold

-----------------------------------------------------------------------------
(* ispartial: the header after the blocks does not belong to the one before *)
(* them.                                                                    *)
Partial(f, g) ==
  \/ f.flag # g.flag
  \/ f.eof # g.eof
  \/ (f.chkseq + 1) % SeqMod # g.chkseq

(* What a mount would make of the disk: load_chkpoint's two cases. *)
HasCheckpoint == /\ sb.flag \in Slots
                 /\ ~Partial(sb, slot[sb.flag])

-----------------------------------------------------------------------------
(* A clean filesystem as btinit leaves it, not mounted. *)
Init ==
  /\ pc = "closed"
  /\ job = "none"
  /\ disk = [b \in Block |-> 0]
  /\ sb = Zeroed
  /\ cpdom = {} /\ cpval = [b \in Block |-> 0]
  /\ slot = [i \in Slots |-> Zeroed]
  /\ cache = disk /\ mod = {} /\ chk = {} /\ cnt = 0 /\ err = 0
  /\ hdr = Zeroed /\ backup = Zeroed
  /\ queue = {} /\ qval = disk
  /\ lastn = MaxBlks
  /\ clock = 0 /\ crashes = 0

-----------------------------------------------------------------------------
(* Mounting. *)

(* DEV::open refuses a filesystem whose update in place was cut short       *)
(* (BTERBMNT); it is left for the repair programs.                          *)
MountRefused ==
  /\ pc \in {"down", "closed"}
  /\ sb.flag = Dirty
  /\ pc' = "broken"
  /\ UNCHANGED <<job, server, disk, sb, area, bounds>>

(* DEV::open, then FDEV::open for a filesystem without a usable checkpoint: *)
(* clean, or with a partial checkpoint that is ignored.  Either way buf     *)
(* holds the superblock that was read.                                      *)
MountPlain ==
  /\ pc \in {"down", "closed"}
  /\ sb.flag # Dirty
  /\ ~HasCheckpoint
  /\ pc' = "idle"
  /\ hdr' = sb /\ backup' = sb
  /\ cache' = disk
  /\ mod' = {} /\ chk' = {} /\ queue' = {} /\ cnt' = 0 /\ err' = 0
  /\ lastn' = MaxBlks
  /\ UNCHANGED <<job, qval, disk, sb, area, bounds>>

(* FDEV::open with a complete checkpoint: its superblock fields are         *)
(* installed and its blocks queued for wait() to write in place.            *)
MountCheckpoint ==
  /\ pc \in {"down", "closed"}
  /\ HasCheckpoint
  /\ pc' = "wait" /\ job' = "mount"
  /\ hdr' = [sb EXCEPT !.meta = slot[sb.flag].meta,
                       !.chkseq = (@ + 1) % SeqMod]
  /\ backup' = sb
  /\ queue' = cpdom /\ qval' = cpval
  /\ cache' = [b \in Block |-> IF b \in cpdom THEN cpval[b] ELSE disk[b]]
  /\ mod' = {} /\ chk' = {} /\ cnt' = 0 /\ err' = 0
  /\ lastn' = MaxBlks
  /\ UNCHANGED <<disk, sb, area, bounds>>

-----------------------------------------------------------------------------
(* Seeded fault: the dirty flag is set in memory only.                      *)
MarkDirtyInMemory ==
  /\ hdr' = [hdr EXCEPT !.flag = Dirty]
  /\ UNCHANGED sb

(* FDEV::write with its buffer full, and DEV::write: the superblock on disk *)
(* says that an update in place is under way before the block is written.   *)
MarkDirty ==
  /\ hdr' = [hdr EXCEPT !.flag = Dirty]
  /\ sb' = IF hdr.flag # Dirty THEN hdr' ELSE sb

(* DEV::write when a write of it fails: of the superblock that marks dirty   *)
(* says is written first, of the block, or of both.  The flag is set in      *)
(* memory before, and either error is what the caller gets.                  *)
BlockFails(b, v, marks) ==
  /\ Failing
  /\ IF marks THEN hdr' = [hdr EXCEPT !.flag = Dirty] /\ sb' \in {sb, hdr'}
              ELSE UNCHANGED <<hdr, sb>>
  /\ disk' \in {disk, [disk EXCEPT ![b] = v]}
  /\ disk' = disk \/ (marks /\ sb' = sb)

-----------------------------------------------------------------------------
(* Client operations, which see only the cache. *)

(* One operation modifies the buffers of S, and perhaps the free list or    *)
(* the end of data.  get(0) before it made sure that the touched list has   *)
(* room.                                                                    *)
Update(S, m) ==
  /\ Idle /\ ~Full
  /\ clock < MaxOps
  /\ S # {} /\ Cardinality(S) <= MaxBuf
  /\ m \in {hdr.meta, clock + 1}
  /\ cache' = [b \in Block |-> IF b \in S THEN clock + 1 ELSE cache[b]]
  /\ mod' = mod \cup S
  /\ hdr' = [hdr EXCEPT !.meta = m]
  /\ clock' = clock + 1
  /\ UNCHANGED <<pc, job, chk, cnt, err, backup, queue, qval, lastn, disk, sb, area,
                 crashes>>

(* chkspace finds the end of the extent and fixes eof there (BTERFULL). *)
ExtentFull ==
  /\ CanFill
  /\ Idle /\ ~Full
  /\ hdr.eof = 0
  /\ hdr' = [hdr EXCEPT !.eof = 1]
  /\ UNCHANGED <<pc, job, cache, mod, chk, cnt, err, backup, queue, qval, lastn, disk,
                 sb, area, bounds>>

(* chkspace reserves a block past the end of data by writing zeros through  *)
(* the device, outside any sync.                                            *)
Preallocate(b) ==
  /\ Prealloc
  /\ Idle /\ ~Full
  /\ b \notin Touched \cup queue
  /\ cache[b] = 0 /\ disk[b] = 0
  /\ IF Cardinality(queue) < MaxBlks
     THEN /\ queue' = queue \cup {b}
          /\ qval' = [qval EXCEPT ![b] = 0]
          /\ UNCHANGED <<hdr, sb>>
     ELSE MarkDirty /\ UNCHANGED <<queue, qval>>
  /\ UNCHANGED <<pc, job, cache, mod, chk, cnt, err, backup, lastn, disk, area,
                 bounds>>

(* A block reserved in place cannot be written: chkspace fixes the end of    *)
(* the extent there if that is for want of space.                           *)
PreallocateFails(b) ==
  /\ Failing /\ Prealloc
  /\ Idle /\ ~Full
  /\ b \notin Touched \cup queue
  /\ cache[b] = 0 /\ disk[b] = 0
  /\ Cardinality(queue) >= MaxBlks
  /\ \E e \in {hdr.eof, 1} : hdr' = [hdr EXCEPT !.flag = Dirty, !.eof = e]
  /\ sb' = sb \/ (hdr.flag # Dirty /\ sb' = [hdr EXCEPT !.flag = Dirty])
  /\ UNCHANGED <<pc, job, cache, mod, chk, cnt, err, backup, queue, qval, lastn, disk,
                 area, bounds>>

(* A cache miss.  Only a buffer that is neither modified nor checkpointed   *)
(* can have been evicted; after reading it FDEV::read writes one queued     *)
(* block in place.                                                          *)
Read(b) ==
  /\ Misses
  /\ Idle /\ ~Full
  /\ b \notin Touched
  /\ hdr.flag # 0
  /\ \E q \in queue :
       /\ disk' = [disk EXCEPT ![q] = qval[q]]
       /\ queue' = queue \ {q}
  /\ UNCHANGED <<pc, job, cache, mod, chk, cnt, err, hdr, backup, qval, lastn, sb,
                 area, bounds>>

(* The write that the read starts fails: FDEV::read forgets the block.      *)
ReadFails(b) ==
  /\ Failing /\ Misses
  /\ Idle /\ ~Full
  /\ b \notin Touched
  /\ hdr.flag # 0
  /\ \E q \in queue : queue' = queue \ {q}
  /\ UNCHANGED <<pc, job, cache, mod, chk, cnt, err, hdr, backup, qval, lastn, disk, sb,
                 area, bounds>>

-----------------------------------------------------------------------------
(* BufferPool::sync and its callers. *)

(* get(0) after an operation: flush while the touched list is too full. *)
StartFull ==
  /\ Idle /\ Full
  /\ pc' = "sync" /\ job' = "full"
  /\ UNCHANGED <<server, disk, sb, area, bounds>>

(* The alarm or a BTFLUSH request. *)
StartFlush ==
  /\ Flushing
  /\ Idle /\ ~Full
  /\ pc' = "sync" /\ job' = "flush"
  /\ UNCHANGED <<server, disk, sb, area, bounds>>

(* BlockCache::unmount: sync twice, then close. *)
StartUnmount ==
  /\ Idle /\ ~Full
  /\ pc' = "sync" /\ job' = "unmount"
  /\ UNCHANGED <<server, disk, sb, area, bounds>>

(* Seeded fault: unmount syncs only once. *)
ReturnOnce ==
  CASE job = "full"     -> IF Full THEN pc' = "sync" /\ UNCHANGED job
                                   ELSE pc' = "idle" /\ job' = "none"
    [] job = "unmount"  -> pc' = "closed" /\ job' = "none"
    [] OTHER            -> pc' = "idle" /\ job' = "none"

(* BufferPool::sync returns. *)
Return ==
  CASE job = "full"     -> IF Full THEN pc' = "sync" /\ UNCHANGED job
                                   ELSE pc' = "idle" /\ job' = "none"
    [] job = "unmount"  -> pc' = "sync" /\ job' = "unmount2"
    [] job = "unmount2" -> pc' = "closed" /\ job' = "none"
    [] OTHER            -> pc' = "idle" /\ job' = "none"

(* BufferPool::wait with nothing queued: FDEV::wait returns at once, and    *)
(* the checkpointed buffers are released.                                   *)
WaitNothing ==
  /\ pc = "sync"
  /\ queue = {}
  /\ pc' = "write"
  /\ chk' = {} /\ cnt' = 0
  /\ UNCHANGED <<job, cache, mod, err, hdr, backup, queue, qval, lastn, disk, sb,
                 area, bounds>>

WaitSome ==
  /\ pc = "sync"
  /\ queue # {}
  /\ pc' = "wait"
  /\ UNCHANGED <<job, server, disk, sb, area, bounds>>

(* DEV::write of one queued block.  The superblock on disk already says     *)
(* checkpoint or dirty, unless all that is queued is preallocated space.    *)
Apply(b) ==
  /\ pc = "wait"
  /\ b \in queue
  /\ IF hdr.flag = 0 THEN MarkDirty ELSE UNCHANGED <<hdr, sb>>
  /\ disk' = [disk EXCEPT ![b] = qval[b]]
  /\ queue' = queue \ {b}
  /\ UNCHANGED <<pc, job, cache, mod, chk, cnt, err, backup, qval, lastn, area,
                 bounds>>

(* The write of a queued block fails: wait() goes on with the others and    *)
(* forgets this one.                                                        *)
ApplyFails(b) ==
  /\ pc = "wait"
  /\ b \in queue
  /\ BlockFails(b, qval[b], hdr.flag = 0)
  /\ queue' = queue \ {b}
  /\ err' = 1
  /\ UNCHANGED <<pc, job, cache, mod, chk, cnt, backup, qval, lastn, area, bounds>>

(* Seeded fault: wait() leaves the superblock in buf as it was. *)
WaitDoneOldBackup ==
  /\ pc = "wait"
  /\ queue = {} /\ err = 0
  /\ chk' = {} /\ cnt' = 0
  /\ IF job = "mount" THEN pc' = "idle" /\ job' = "none"
                      ELSE pc' = "write" /\ UNCHANGED job
  /\ UNCHANGED <<cache, mod, err, hdr, backup, queue, qval, lastn, disk, sb, area,
                 bounds>>

(* All written: buf gets the current superblock as the backup for the next  *)
(* checkpoint, and the checkpointed buffers are released.                   *)
WaitDone ==
  /\ pc = "wait"
  /\ queue = {} /\ err = 0
  /\ backup' = hdr
  /\ chk' = {} /\ cnt' = 0
  /\ IF job = "mount" THEN pc' = "idle" /\ job' = "none"
                      ELSE pc' = "write" /\ UNCHANGED job
  /\ UNCHANGED <<cache, mod, err, hdr, queue, qval, lastn, disk, sb, area, bounds>>

(* FDEV::wait failed: no buffer is released, sync() gives up and a mount is *)
(* undone.                                                                  *)
WaitFailed ==
  /\ pc = "wait"
  /\ queue = {} /\ err = 1
  /\ err' = 0
  /\ backup' = hdr
  /\ IF job = "mount" THEN pc' = "down" /\ job' = "none" ELSE Return
  /\ UNCHANGED <<cache, mod, chk, cnt, hdr, queue, qval, lastn, disk, sb, area,
                 bounds>>

(* get(0) passes MAXBUF, which a failsafe device replaces by its maxblks;   *)
(* the other callers pass no limit.                                         *)
Limit == IF MaxBlks > 0 THEN MaxBlks ELSE MaxBuf

(* Seeded fault: room for another operation is kept back from the limit. *)
OverLowLimit(n) == job = "full" /\ n >= Limit - MaxBuf

OverLimit(n) == job = "full" /\ n > Limit

(* Seeded fault: a queued buffer is not marked BLK_CHK. *)
WriteQueuedUnmarked(b) ==
  /\ pc = "write" /\ ~OverLimit(cnt)
  /\ b \in mod
  /\ Cardinality(queue) < MaxBlks
  /\ queue' = queue \cup {b}
  /\ qval' = [qval EXCEPT ![b] = cache[b]]
  /\ mod' = mod \ {b} /\ cnt' = cnt + 1
  /\ UNCHANGED <<pc, job, cache, chk, err, hdr, backup, lastn, disk, sb, area, bounds>>

(* Seeded fault: one block too many is queued (nblks <= maxblks). *)
WriteQueuedPastEnd(b) ==
  /\ pc = "write" /\ ~OverLimit(cnt)
  /\ b \in mod
  /\ Cardinality(queue) <= MaxBlks
  /\ queue' = queue \cup {b}
  /\ qval' = [qval EXCEPT ![b] = cache[b]]
  /\ mod' = mod \ {b} /\ chk' = chk \cup {b} /\ cnt' = cnt + 1
  /\ UNCHANGED <<pc, job, cache, err, hdr, backup, lastn, disk, sb, area, bounds>>

(* writebuf of a modified buffer while the checkpoint has room. *)
WriteQueued(b) ==
  /\ pc = "write" /\ ~OverLimit(cnt)
  /\ b \in mod
  /\ Cardinality(queue) < MaxBlks
  /\ queue' = queue \cup {b}
  /\ qval' = [qval EXCEPT ![b] = cache[b]]
  /\ mod' = mod \ {b} /\ chk' = chk \cup {b} /\ cnt' = cnt + 1
  /\ UNCHANGED <<pc, job, cache, err, hdr, backup, lastn, disk, sb, area, bounds>>

(* writebuf with the checkpoint full: the superblock is marked dirty on     *)
(* disk, unless it is already, and the block written in place.              *)
WriteInPlace(b) ==
  /\ pc = "write" /\ ~OverLimit(cnt)
  /\ b \in mod
  /\ Cardinality(queue) >= MaxBlks
  /\ MarkDirty
  /\ disk' = [disk EXCEPT ![b] = cache[b]]
  /\ mod' = mod \ {b} /\ chk' = chk \cup {b} /\ cnt' = cnt + 1
  /\ UNCHANGED <<pc, job, cache, err, backup, queue, qval, lastn, area, bounds>>

(* The write of a buffer in place fails: it is BLK_CHK all the same, and    *)
(* not counted.                                                             *)
WriteFails(b) ==
  /\ pc = "write" /\ ~OverLimit(cnt)
  /\ b \in mod
  /\ Cardinality(queue) >= MaxBlks
  /\ BlockFails(b, cache[b], hdr.flag # Dirty)
  /\ mod' = mod \ {b} /\ chk' = chk \cup {b}
  /\ UNCHANGED <<pc, job, cache, cnt, err, backup, queue, qval, lastn, area, bounds>>

(* The limit is exceeded: return without syncing the device. *)
WriteLimit ==
  /\ pc = "write" /\ OverLimit(cnt)
  /\ Return
  /\ UNCHANGED <<server, disk, sb, area, bounds>>

(* Seeded fault: sync() may stop with modified buffers left. *)
WriteDoneEarly ==
  /\ pc = "write" /\ ~OverLimit(cnt)
  /\ pc' = "devsync"
  /\ UNCHANGED <<job, server, disk, sb, area, bounds>>

(* Every buffer of the touched list has been looked at. *)
WriteDone ==
  /\ pc = "write" /\ ~OverLimit(cnt)
  /\ mod = {}
  /\ pc' = "devsync"
  /\ UNCHANGED <<job, server, disk, sb, area, bounds>>

(* Seeded fault: the superblock is marked clean whatever is queued. *)
SyncCleanAlways ==
  /\ pc = "devsync"
  /\ hdr' = [hdr EXCEPT !.flag = 0] /\ sb' = hdr'
  /\ Return
  /\ UNCHANGED <<cache, mod, chk, cnt, err, backup, queue, qval, lastn, disk, area,
                 bounds>>

(* DEV::sync: nothing queued, so the superblock can be marked clean. *)
SyncClean ==
  /\ pc = "devsync"
  /\ queue = {}
  /\ IF hdr.flag # 0
     THEN hdr' = [hdr EXCEPT !.flag = 0] /\ sb' = hdr'
     ELSE UNCHANGED <<hdr, sb>>
  /\ Return
  /\ UNCHANGED <<cache, mod, chk, cnt, err, backup, queue, qval, lastn, disk, area,
                 bounds>>

(* The clean superblock cannot be written: it is clean in memory only.       *)
SyncCleanFails ==
  /\ Failing
  /\ pc = "devsync"
  /\ queue = {}
  /\ hdr.flag # 0
  /\ hdr' = [hdr EXCEPT !.flag = 0]
  /\ Return
  /\ UNCHANGED <<cache, mod, chk, cnt, err, backup, queue, qval, lastn, disk, sb, area,
                 bounds>>

(* Seeded faults: the current superblock in front, the sequence number      *)
(* behind not advanced.                                                     *)
FrontCurrent(n) == [hdr EXCEPT !.flag = n]
BehindSameSeq(n) == [hdr EXCEPT !.flag = n]

(* The checkpoint that FDEV::sync builds from n queued blocks: the backup   *)
(* superblock in front, the current one behind.                             *)
Front(n) == [backup EXCEPT !.flag = n]
Behind(n) == [hdr EXCEPT !.flag = n, !.chkseq = (@ + 1) % SeqMod]

(* The slots overwritten by n blocks and by zeros up to the end of the      *)
(* previous checkpoint.                                                     *)
Overwritten(n, upto) ==
  [i \in Slots |-> IF i < n \/ (n < i /\ i <= upto) THEN Zeroed ELSE slot[i]]

(* FDEV::sync: one write of the whole checkpoint. *)
SyncCheckpoint ==
  LET n == Cardinality(queue)
  IN  /\ pc = "devsync"
      /\ queue # {}
      /\ hdr' = Behind(n)
      /\ sb' = Front(n)
      /\ cpdom' = queue /\ cpval' = qval
      /\ slot' = [Overwritten(n, lastn) EXCEPT ![n] = Behind(n)]
      /\ lastn' = n
      /\ Return
      /\ UNCHANGED <<cache, mod, chk, cnt, err, backup, queue, qval, disk, bounds>>

(* What is on disk when that write ends after the front superblock, the     *)
(* block list and some of the blocks.                                       *)
CutShort ==
  /\ sb' = Front(Cardinality(queue))
  /\ \E done \in SUBSET queue :
       /\ cpdom' = queue
       /\ cpval' = [b \in Block |-> IF b \in done THEN qval[b] ELSE cpval[b]]
       /\ slot' = Overwritten(Cardinality(done), 0)

(* The write fails, at once or part of the way: the server goes on as if    *)
(* the checkpoint were there, and its callers go on too.                    *)
SyncFails ==
  LET n == Cardinality(queue)
  IN  /\ Failing
      /\ pc = "devsync"
      /\ queue # {}
      /\ hdr' = Behind(n)
      /\ CutShort \/ UNCHANGED <<sb, area>>
      /\ lastn' = n
      /\ Return
      /\ UNCHANGED <<cache, mod, chk, cnt, err, backup, queue, qval, disk, bounds>>

-----------------------------------------------------------------------------
(* Crashes: the process dies and everything in its memory is lost. *)
Die ==
  /\ crashes < MaxCrash
  /\ pc' = "down" /\ job' = "none"
  /\ crashes' = crashes + 1
  /\ cache' = [b \in Block |-> 0] /\ mod' = {} /\ chk' = {} /\ cnt' = 0 /\ err' = 0
  /\ hdr' = Zeroed /\ backup' = Zeroed
  /\ queue' = {} /\ qval' = [b \in Block |-> 0]
  /\ lastn' = MaxBlks

Crash ==
  /\ pc \in {"idle", "sync", "wait", "write", "devsync"}
  /\ Die
  /\ UNCHANGED <<disk, sb, area, clock>>

(* Killed inside the checkpoint write, before the superblock behind it.     *)
TornBlocks ==
  /\ Torn
  /\ pc = "devsync"
  /\ queue # {}
  /\ CutShort
  /\ Die
  /\ UNCHANGED <<disk, clock>>

(* Killed after the superblock behind the blocks but before the zeros that  *)
(* hide the end of a longer predecessor.                                    *)
TornPadding ==
  LET n == Cardinality(queue)
  IN  /\ Torn
      /\ pc = "devsync"
      /\ queue # {}
      /\ sb' = Front(n)
      /\ cpdom' = queue /\ cpval' = qval
      /\ slot' = [Overwritten(n, 0) EXCEPT ![n] = Behind(n)]
      /\ Die
      /\ UNCHANGED <<disk, clock>>

-----------------------------------------------------------------------------
Sync ==
  \/ StartFull
  \/ WaitNothing \/ WaitSome \/ WaitDone \/ WaitFailed
  \/ \E b \in Block : Apply(b) \/ ApplyFails(b)
  \/ \E b \in Block : WriteQueued(b) \/ WriteInPlace(b) \/ WriteFails(b)
  \/ WriteLimit \/ WriteDone
  \/ SyncClean \/ SyncCheckpoint \/ SyncCleanFails \/ SyncFails

Next ==
  \/ MountRefused \/ MountPlain \/ MountCheckpoint
  \/ \E S \in SUBSET Block, m \in {hdr.meta, clock + 1} : Update(S, m)
  \/ ExtentFull
  \/ \E b \in Block : Preallocate(b) \/ Read(b) \/ PreallocateFails(b) \/ ReadFails(b)
  \/ StartFlush \/ StartUnmount
  \/ Sync
  \/ Crash \/ TornBlocks \/ TornPadding

Spec == Init /\ [][Next]_vars

(* What a step may not do if the superblock in FDEV::buf is to stay the one *)
(* that goes with the blocks in place.  FDEV::read may not put the last     *)
(* queued block in place, which only FDEV::wait makes known there, and the  *)
(* extent may not be found full.                                            *)
KeepsBackup ==
  /\ (\E b \in Block : Read(b)) => queue' # {}
  /\ ~ExtentFull

(* Nor may the fields of the superblock change under a pending checkpoint,  *)
(* or the write of a checkpoint be cut short while the superblock on disk   *)
(* is marked dirty, which that write removes.                               *)
Orderly ==
  /\ KeepsBackup
  /\ Idle /\ Idle' /\ queue # {} => hdr'.meta = hdr.meta
  /\ TornBlocks => sb.flag # Dirty

-----------------------------------------------------------------------------
Up == pc \notin {"down", "closed", "broken"}

Phases == {"down", "closed", "broken", "idle", "sync", "wait", "write", "devsync"}
Jobs == {"none", "mount", "full", "flush", "unmount", "unmount2"}

(* The variables have their types; in particular FDEV::buf never holds more *)
(* than maxblks blocks (blks[] and buf have no room for more), and the flag *)
(* written to the superblock is the size of a real checkpoint.              *)
TypeOK ==
  /\ pc \in Phases /\ job \in Jobs
  /\ cache \in [Block -> Nat] /\ disk \in [Block -> Nat]
  /\ qval \in [Block -> Nat] /\ cpval \in [Block -> Nat]
  /\ mod \in SUBSET Block /\ chk \in SUBSET Block
  /\ queue \in SUBSET Block /\ cpdom \in SUBSET Block
  /\ Cardinality(queue) <= MaxBlks /\ Cardinality(cpdom) <= MaxBlks
  /\ hdr \in Header /\ sb \in Header /\ backup \in Header
  /\ slot \in [Slots -> Header]
  /\ cnt \in Nat /\ err \in {0, 1} /\ lastn \in 0..MaxBlks
  /\ clock \in Nat /\ crashes \in Nat

(* A buffer that is neither modified nor checkpointed may be evicted and    *)
(* its block read again from disk (BufferPool::find, FDEV::read): what is   *)
(* read must be the current contents, never a version that a queued write   *)
(* is about to replace.                                                     *)
ReadCurrent ==
  Idle => \A b \in Block \ Touched : disk[b] = cache[b]

(* What makes ReadCurrent, UnmountClean and CleanMeansWritten inductive as  *)
(* long as no write fails.  The cache agrees                                *)
(* with what the disk will hold once the queue is written, except for       *)
(* modified buffers; a queued block without a touched buffer is             *)
(* preallocated space.                                                      *)
Coherent ==
  Up => \A b \in Block \ mod :
          cache[b] = IF b \in queue THEN qval[b] ELSE disk[b]

QueueTouched ==
  Up /\ pc # "wait" => \A b \in queue \ Touched : qval[b] = disk[b]

WriteFresh == pc = "write" => queue \cap mod = {}

(* Where the callers of sync are, and what the second sync of an unmount    *)
(* finds.                                                                   *)
JobPhase ==
  /\ ~Up \/ Idle => job = "none"
  /\ pc = "devsync" => mod = {}
  /\ job = "unmount2" => mod = {}
  /\ job = "unmount2" /\ pc \in {"write", "devsync"} => queue = {}

(* A superblock that is clean in memory is clean on disk, and differs from  *)
(* it only while modified blocks are still to be written.                   *)
CleanHeader ==
  Up /\ hdr.flag = 0 =>
    /\ sb.flag = 0
    /\ hdr.meta = sb.meta \/ mod # {} \/ queue # {}

NoError == err = 0

IInv == Coherent /\ QueueTouched /\ WriteFresh /\ JobPhase /\ CleanHeader /\ NoError

(* While some blocks of a checkpoint are still to be written in place, the  *)
(* checkpoint on disk is one that a mount would load: otherwise a crash now *)
(* leaves some of its blocks in place and loses the others.                 *)
UnappliedRecoverable ==
  /\ pc \in {"idle", "sync", "wait"}
  /\ queue # {}
  /\ hdr.flag \in Slots
  => HasCheckpoint

(* A filesystem recovered from the disk as it is now. *)
Image == [blk: [Block -> Nat], meta: Nat]
NoImage == [blk |-> <<>>, meta |-> 0]

Recovered ==
  CASE sb.flag = Dirty -> NoImage
    [] HasCheckpoint   -> [blk |-> [b \in Block |-> IF b \in cpdom THEN cpval[b]
                                                                  ELSE disk[b]],
                           meta |-> slot[sb.flag].meta]
    [] OTHER           -> [blk |-> disk, meta |-> sb.meta]

(* What the filesystem would be if the checkpoint about to be written       *)
(* turned out partial: the superblock kept for that case goes with the      *)
(* blocks that are in place, and both are what could be recovered before.   *)
BackupIsOld ==
  pc = "devsync" /\ queue # {} =>
    Recovered = [blk |-> disk, meta |-> backup.meta]

(* The superblock is marked clean only when everything is in place: "ensure *)
(* updates written before clean flag" (DEV::writehdr).                      *)
CleanMeansWritten ==
  [][sb.flag # 0 /\ sb'.flag = 0 => disk' = cache']_vars

(* An orderly unmount leaves a clean superblock, and in place everything    *)
(* its users had written (BlockCache::unmount syncs twice for this).        *)
UnmountClean ==
  [][pc # "closed" /\ pc' = "closed" =>
       /\ sb'.flag = 0
       /\ disk' = cache
       /\ sb'.meta = hdr.meta]_vars

(* The loop of get(0), which syncs until the touched list has room, and     *)
(* every other sync, ends: the server gets back to its clients.             *)
SyncEnds == pc = "sync" ~> pc \in {"idle", "closed", "down"}

(* The device as its users see it across crashes: a mount finds an image    *)
(* they had, or is refused.  A step that is not Orderly, and where space is *)
(* reserved ahead any checkpoint cut short, may leave something else, and   *)
(* so may a write that failed.                                              *)
Store == INSTANCE AtomicStore WITH
           up <- Up,
           img <- IF Up THEN [blk |-> cache, meta |-> hdr.meta] ELSE NoImage,
           saved <- Recovered

StoreSpec == Store!Spec
=============================================================================

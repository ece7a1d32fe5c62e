# TLA+ models of BTAS/X

BTAS/X is a record server: clients on the same machine send requests over two
System V message queues, a single-threaded server executes them against
B-trees in a pool of block buffers, and a failsafe block device writes
checkpoints so that a filesystem survives a crash. Above the server are a
client library, a C-ISAM library with a server of its own, a SQL client,
utilities and offline repair tools. This directory holds TLA+ modules
translated from that C and C++ code, the TLC configurations that check them,
and TLAPS proofs.

    tlc -config Disk.cfg MCDisk         # one run
    tlapm Requests_proofs.tla           # one module of proofs

## 1. Inventory

### Components

| Component | Source | State | Operations |
|---|---|---|---|
| Fail-safe device | `fsdev.cc`, `btdev.cc` | superblock in memory, checkpoint buffer `buf` (front superblock, block list, blocks), the disk | `open`/`load_chkpoint`, `read`, `write`, `wait`, `sync` |
| Buffer flushing | `hash.c` (`get`, `sync`, `wait`), `btbuf.c` | touched list, `BLK_MOD`, `BLK_CHK` of every buffer | make room before an operation, flush, unmount |
| Mount and extent tables | `btdev.cc`, `btbuf.c` | `devtbl[]`, the shared `extbl[]`, OS descriptors, `baseid`/`mount_time` in each superblock | mount, unmount, failed mount |
| Flush timer | `alarm.cc`, `server.c` | `ticks`, `limit`, `fatal`, the pending alarm | `enable`, `check`, two signal handlers |
| Request queues | `server.c`, `lib/client.c` | `btasreq`, `btasres`; per process the queue ids, `server_cnt` and open BTCBs | call, reply, `cleanq`, freeze, stop and start |
| Record locks | `LockTable.cc` | `tbl` (set of entries) and `pidtbl` (chains per process) | `addLock`, `delLock` |
| Files, directories, joins | `btfile.c`, `btas.c` | links, opens and access time in each root node; directory records; `jointbl`; `DEV::mcnt` | open, close, create, link, delete, touch, join, unjoin, mount, unmount |
| B-tree engine | `btree.c`, `btkey.c` | nodes, the trace of a descent | add, delete, replace, find; split and merge |
| Nodes | `node.c`, `insert.c`, `find.c` | records stored as differences from the next lower one | insert, delete, replace, move, find |
| Block allocation | `btbuf.c`, `btdev.cc`, `fix/btfree.cc`, `fix/btrcvr.cc` | free list with whole deleted trees, end of data per extent, `space`, `newspace` | `btnew`, `btfree`, `chkspace`, `newblk`; rebuild and recovery |
| Buffer pool | `hash.c` | hash table by open addressing, LRU chain, touched array | `find`, `rehash`, `swap`, `clear` |
| C-ISAM library | `cisam/` | a BTAS file per index, each with a BTCB; `.idx` control files | read, write, rewrite, delete, indexes; build, open, erase, rename |
| C-ISAM server | `cisam/isserve.c`, `isreq.c` | descriptors with a position, a range and a batch; two streams | requests sent ahead, replies in batches |
| Client library | `lib/` | BTCBs of a process, current directory, a walk | open by path, directories, copies, removal, packing, numbers |
| Offline tools | `fix/` | an unmounted filesystem or an image | scan, report, save, restore, rebuild, recover |
| Utilities | `util/` | an archive | archive, extract; single requests |
| SQL client | `sql/` | expressions, cursors, `DATA.DICT` | SELECT, UPDATE, DELETE, INSERT, CREATE |
| Browser, Python binding, build | `btbr/`, `pybtas/` | clients of the server | |

### How they interact

    sql, util, btbr --> cisam --> lib --btasreq--> main loop (server.c) --> btas --> btfile, B-tree
       isserve <--pipes--> isreq      <--btasres--      |                              |
                          SIGALRM, SIGTERM              v                              v
                          (alarm.cc) -----------> BlockCache::flush            BlockCache, BufferPool
                                                        |                              |
                                                        +---> FDEV (fsdev.cc) over DEV (btdev.cc)
                                                                       ^
                                            fix/: the same blocks, unmounted or beside the server

* The server is single threaded: requests do not interleave with each other
  inside it. What interleaves is what clients do **between** requests, signals
  with the loop, other processes with the queues, and the death of a process
  or of the machine between any two writes.
* Everything above the server is built of several requests: a directory is
  made in three, a C-ISAM record is written in one per index, an UPDATE is a
  read and a rewrite per row. Nothing makes them one.
* Errors leave a request by `longjmp` (`errpost`); whatever has been changed
  in memory by then stays.
* All filesystems share one buffer pool, one extent table and one set of OS
  descriptors.
* The open count and the link count of a file are on disk, in its root node,
  and outlive the server that wrote them.
* The server compares records byte by byte and knows nothing of fields, keys
  or indexes: their order is what `pack.c`, `isconv.c` and the columns of the
  SQL client make of it.

### Where it is hard

| Component | Hard behaviour | What makes it correct |
|---|---|---|
| Fail-safe device | crash between two writes or inside the checkpoint write; checkpoint area smaller than what is touched; reads that drain the queue; preallocation outside a sync | after a crash a mount gives the last image or the one before, or is refused; a read is never older than a queued write; clean means complete |
| Mount tables | entries and descriptors reused; table compressed under filesystems that stay mounted; a mount that fails half way | each device finds its own extents and open descriptors |
| Flush timer | signals anywhere in the loop; `flush` needs two passes | dirty data always has a timer; everything gets written when requests stop |
| Queues | replies put back while clients read; clients that die; process ids used again; restarts | every call ends, with its own reply |
| Locks | two containers over the same objects; holders that die | one holder per record; containers agree |
| Files | several opens share a counter with -1 as a mark; stale counts; creation in two steps | counts agree with users; nothing open disappears; no record to a freed file |
| B-tree | a change climbs over several levels and add calls itself on the way; merges exchange block ids; a delete that splits on a full filesystem; cached node numbers of clients | every record is found, and found in order, after any history; the tree has each block once; needed() blocks are enough |
| Nodes | what a record takes, and which bytes are stored, depends on its neighbour | the records decompressed are those put in |
| Allocation | deleted trees kept whole in the free list; a recovery beside running requests | each unused block is free once, a used one never |
| Pool | deletion and exchange in overlapping probe chains; eviction of low priority blocks | a block is in one buffer and is found there; modified means touched; no buffer is lost |
| C-ISAM | other clients between the requests of a call; failures and deaths in between | the indexes agree, a scan meets every record, a replaced record keeps its number |
| C-ISAM server | batches of answers consumed later; requests sent ahead | each request gets the answer of the file as it was |
| Library | directories that change under a walk; removal in steps | no file without a name, nothing met twice |
| Offline tools | a read buffer shared by two readers; unreadable blocks; no index to go by | every block once and in order; a report that accounts for each |
| SQL | expressions reduced three times; ranges split; conditions moved; a scan over what it changes | the rows SQL says, each once |

The hazards are listed one by one, at their lines, in `PROJECT.json`.

## 2. Modules

| Module | Models | Checked in |
|---|---|---|
| `AtomicStore` | the promise of a checkpointed filesystem: an image that changes, a durable image, commits, refused mounts (abstract, no code) | `Disk` |
| `FailSafe` | fail-safe device, `BufferPool::sync`/`wait`, their callers, crashes | `Disk`, `FailSafe_live`, `FailSafe_drain` |
| `Space` | free list, allocation, reservation, rebuild, recovery in place | `Disk`, `Space_recover`, `Space_reserve` |
| `Device` | one device: two instances of `FailSafe` (checkpoints that hold all a sync writes, and ones that overflow) and `Space` | `Disk` |
| `Scan`, `Report` | the block reader of the offline tools; `btddir`, `btsave`, `btrest` | `Disk` |
| `Pool` | hash table, LRU chain, touched array | `Blocks` |
| `MountTable` | mount and extent tables | `Blocks` |
| `Node` | compressed records of a node | `Blocks` |
| `BTree` | the B-tree of a file under writes, deletes and rewrites, and reads of it | `BTree_tree`, `BTree_half` |
| `Alarm` | timer, signals and request loop | `Server` |
| `LockTable` | the two containers of locks | `Server` |
| `Requests` | clients, queues, `cleanq`, freeze, restart | `Server` |
| `Files` | opens, links, joins | `Files` |
| `Library` | calls on directories, as programs of requests of `Files` | `Files` |
| `Names` | paths, symbolic links, the current directory, patterns | `Files` |
| `Archive` | `btar` | `Files` |
| `Isam` | records and indexes of a C-ISAM file, request by request | `Isam_calls` |
| `IsamDir` | the BTAS files of C-ISAM files: build, open, erase, rename | `Isam_calls` |
| `Serve` | the C-ISAM server and its streams | `Isam_calls` |
| `Lex`, `Expr`, `Boxes`, `Sorting`, `Joins` | byte order; expressions; key ranges; ORDER BY, DISTINCT, GROUP BY; the plan of a SELECT | `Sql` |
| `KeyMap`, `Convert`, `Dictionary` | how records, keys and values are laid out; tables and their dictionary | `Sql` |
| `Statements` | UPDATE, DELETE, INSERT ... SELECT beside another client | `Sql` |
| `FailSafe_proofs`, `Requests_proofs`, `Server_proofs`, `MountTable_proofs`, `Blocks_proofs`, `Files_proofs`, `FilesAll_proofs`, `Isam_proofs` | section 4 | |

`MCDisk`, `MCBlocks`, `MCServer`, `MCFilesAll` (over `MCFiles`), `MCIsam` and
`MCSql` each put several models in one run: a variable `part`, chosen in the
initial state, says which of them a behaviour is about, and the others stand
still. `MCDisk` takes what the server does from `Device`, which the proofs are about,
and puts the offline readers beside it. `MCFailSafe` divides the behaviours into those that
reserve space and those with more updates, `MCBTree` adds sample records and the `VIEW`.

Two compositions are more than that. `Library` EXTENDS `Files`: its steps *are*
the requests of `Files`, on BTCBs of which each process has three. `FailSafe` is
shown to implement `AtomicStore` (`StoreSpec`, a refinement mapping that
recovers the disk as the next mount would).

Every module holds, beside the translated definitions, a few *seeded faults*:
variants of a definition (`FrontCurrent` of `Front`, `ReturnOnce` of `Return`,
...) with a mistake that is easy to make in that code. They are used by
nothing; substituted for the original, each must make its property fail, and
that is how the properties are known to say something. `PROJECT.json` pairs
them.

### FailSafe

`pc` follows the code: `idle` between requests, `sync` at the head of
`BufferPool::sync`, `wait` in the loop of `FDEV::wait`, `write` in the loop
over the touched list, `devsync` at `FDEV::sync`/`DEV::sync`, and `closed`,
`down` or `broken` without a server. `job` is the caller, and decides in
`Return` what follows: the loop of `get(0)` syncs again while the touched list
is full, `unmount` syncs twice.

Every action makes at most one write that recovery can tell apart, so `Crash`
is possible between any two; the one large write of a checkpoint is torn by
`TornBlocks` (front superblock, list, some blocks) and `TornPadding` (all but
the zeros that hide the end of a longer predecessor). A block is the number of
the update that last changed it; `meta` stands for the fields of the
superblock that updates change (free list, end of data, ...), `eof` for the
extent's recorded end, `chkseq` and `flag` for themselves. `slot[i]` is what a
reader finds after the i-th block of the checkpoint area, which is how
`ispartial` recognises a whole checkpoint.

`Read` is a cache miss (`FDEV::read` applies one queued block each time),
`Preallocate` the zeros `chkspace` writes beyond the end of data, outside any
sync. With `Failing` every write may fail: of a block, also where the superblock has to be
marked dirty first (`BlockFails`, used by `ApplyFails`, `WriteFails`; `PreallocateFails`,
`ReadFails`), of a checkpoint, at once or part of the way (`SyncFails`), and of the clean
superblock (`SyncCleanFails`).

Two steps of the code leave in `buf` a superblock that does not go with the blocks in
place: a read that puts the last queued block there (`fsdev.cc:221-226`; only `wait` renews
the front of `buf`), and `chkspace` at the end of an extent (`btdev.cc:142`).
`KeepsBackup` is the action formula that excludes these two; `Orderly` excludes besides
a change of superblock fields while a checkpoint is pending, and the death of the server in a checkpoint's
write that has just replaced a superblock marked dirty (`fsdev.cc:90`, 176). What `StoreSpec` promises
it promises for behaviours whose steps are all of that kind, and the run `Disk` and the
theorems say so (section 4); section 5 has what happens otherwise.

### MountTable

One action is a whole `BTMOUNT` or unmount. `extbl`, `extcnt` and `devtbl` are
the arrays of the code; closed entries keep what the code leaves in them
(`maxblks`). `fdtbl` is the descriptor table of the process with the lowest
free descriptor allocated first, so that closing a wrong descriptor closes
somebody's file. `hdr` is what each superblock on disk says of `baseid` and
`mount_time`: `WriteHdr` is any later write of it. `MountMissing` is the error
path for an extension file that cannot be opened: its loop (`CleanedUp`, `btdev.cc:264`) starts at
the entry of the missing extension and does not reach the primary file. `botched` is a history
variable: the two descriptors this leaves otherwise than the mount found them. `DescriptorsKept`
excepts these two and no others, from then on and in whosever hands they come to be.

### Alarm

`loop` is the code between the test of the loop and `msgrcv`, `recv` a blocked
`msgrcv`; a signal takes the server to `check` only from `recv`. The
filesystem is `clean`, `modified` or has a `checkpoint` that is not in place.
Time passes by `Alrm`, one interval each.

### Requests

The two queues are sequences; `cleanq` is one action per round (take the first
reply, throw it away if `kill(pid,0)` finds nobody, put it back otherwise).
`gen` numbers servers; `conn` and `server_cnt` are the statics of
`lib/client.c` in each process, `file` a BTCB with its `msgident`. `reused` is
a history variable: the ids a second process has been given.

### LockTable

`heap` maps addresses to entries, `tbl` and `pidtbl` hold addresses. `Find` is
`set<LockEntry *>::find` with the address of a local variable. `told` is what
each process believes it holds.

### Files

A request is one action. `stat` is `struct btstat` in the root nodes; `Reset`
is the rule that an open count older than the mount is stale. `Reachable`
closes over directory records and joins, as a path walk would.

### BTree

`node` are the blocks; a node is a sequence of records in descending order with
its left brother and `son`, which in a leaf is `rbro` (the code uses one field
too). `stack` and `sp` are the level stack that `trace` leaves and `add` and
`del` climb. A step is one turn of the loop of `add` (`SplitRoot`, `Rotate`,
`SplitTwo`, `SplitFirst`) or `del` (`Merge`, `Collapse`, `EvenOut`, `DelRoot`).
When a separator that grew does not fit, `add` calls itself; `frames` is that C
stack, and `Resume` what a call does after the inner one has returned. `AddRec`,
`DelRec` and `Replace` begin a request, `Finish` counts in the `btstat`. `Full`
is `btnew` without a block; `"assert"` and `"full"` are the two ways a request
leaves by `longjmp` with the tree half changed.

A string is a tuple of digits, and a digit stands for a run of bytes. What a
record takes is its length less what it shares with the next lower record,
as compression stores it, so that moving a neighbour changes the size of a
record, and a replaced separator can be longer than the one it replaces. The
data after a key is only a length (`ext`). Requests use whole keys of one length.

`file` is what the file should hold. The properties compare with it: finding
(`EveryKeyFound`), ordered reads, from a key or from a slot that a client
has cached (`ReadsInOrder`; `verify` accepts a slot only when the record there
is the client's, so this is every record of every leaf), the shape of the tree
and the counts (`TreeWhole`). `NoAssert` says that the asserts of `btree.c` and
`node.c` hold. `Work` is a measure that every turn decreases
(`EachTurnLess`): that, and the deadlock check, is why a request ends.

Partial keys are not in this module: descents with a prefix of a key, and
duplicates of one.

### Node

Two nodes of stored records `[dup, data]`: `Insert`, `Delete`, `Replace`, the
moves and copies of `node.c`, each changing the record above it as the code
does. `held` is the history: the records the node should hold. `NodeWhole` says
that decompressing gives them, in order, with the longest possible `dup` and
within the size of the node; `KeysLocated` that `find` and `comp`, which never
decompress, answer for every key what the plain records say. `BTree` takes nodes
as such ordered sets, so this is the level below it. The sizes 16 and 17 let a
node run full with and without a pointer in each record.

`find` and `insert` bound their comparison by the length of the key alone (`find.c:61`, `insert.c:58`), so a
key longer than a record is compared with what follows the record in memory: the `dup` and data of
the next higher one, and behind the highest the end of the block (`Memory`; `Beyond` are the bytes
there may be). That is the one exception of `KeysLocated`: to a key that goes on after the end of a whole
record of a leaf, `find` may return that record, and an insert that follows it goes `"astray"`.
It takes a file in which one whole record is the beginning of another's key.

### Pool

`table`, `key`, `flags` and `chain` are the hash table, the `blk`/`mid` and flags
of each buffer, and the LRU list. A request reads, creates and modifies up to
`MaxBuf` blocks; `Swap` exchanges two blocks' buffers with the probe chains they
are in; `Unmount` clears. `BlocksFound`: whatever block a buffer holds, the
probe from its hash value finds that buffer before an empty slot, and no block
has two. `ModifiedTouched`: whatever is modified is in the touched array, or a
flush would not write it. `ChainWhole`: every buffer is once in the chain or in use,
and the chain is never empty ("assume chain is never empty", `hash.c:167`). Writes of
a flush succeed here; those that fail are in `FailSafe`.

### Space

`tree` is what files have, level by level; `disk` (`links` in `Device`) the root, son and
left brother of each block; `hdr` (`space` in `Device`) the fields of the superblock. A
file is deleted by writing the first block of each level only, and `Taken` finds
the rest of it through left brothers and sons. `Rebuild` is `fix/btfree`. The two loops, over
the levels of a file and over all blocks, are recursive functions (`Chained`, `Swept`); `Disconnect`
to `RecoveryEnds` are `btrcvr`, which reads a batch of blocks under an old root,
copies what is in them and frees them while the server goes on. `FreeExact`,
`RootsTakenLast` and `RecordsStay` are the invariants; `FreeExact` fails when
files are made during a recovery (`Space_recover`) and `GrantsBacked` always
(`Space_reserve`).

### Scan and Report

`Scan` is `fstbl`: `Get` is one call of `get()`, with reads that fail, end early
or meet an extent shorter than the superblock says, and `Find` one of `get(blk)`,
which borrows a slot of the same buffer. `BlocksInOrder`: what `get()` returns is
every block in order, a bad one marked, but for the cases of section 5;
`BorrowsOnly`: a borrowed slot gives the block asked for and disturbs nothing.

`Report` is `btddir` over every filesystem of three blocks that the constants
allow: its log of roots and entries, the walk that prints the tree, what no
directory leads to, and `btsave`/`btrest`. `Accounted`: each root is printed once, on the side it
belongs to, and the counts marked wrong are those that are; `SavedWhole`: the
restored image is the filesystem.

### Library, Names, Archive

In `Library` a call is a program: a sequence of requests such as
`<<opendir dst, delete dst>>`, that ends at the first that fails where the code
does; every request is an action of `Files`, and the other process's come
between. `btwalk` keeps a BTCB per level. `NothingLost`: what is not deleted has
a name that leads to it; `WalkedOnce`: a walk meets everything that stays once.
A process that dies takes no more steps, anywhere in a program.

`Names` opens every path over a tree with symbolic links, relative, absolute,
circular, through parents and through further links, from every current directory (`OpensRight`,
against a definition by recursion on the path; `PathTrue`, that the text of the
current directory leads to it), and runs `findfirst`/`findnext` for patterns
(`FindsAll`). A path is *plain* (`LeadsTo`) when behind each link on its way only names of the
path itself are left; of one that is not, `btopenf` takes the rest from the wrong place
(`btopen.c:147-150`), and these are the exception of the first two. The patterns have ranges, in which
`-` matches itself when the range begins above it, and `?` and `[!` at the end of a name, which
take the NUL and go on in the record; `FindsAll` says which names these add.

`Archive` archives, interrupts, extracts, skips and converts (`Restored`). A conversion may append to a record or
exchange its bytes (`Reforms`). The next record is rebuilt from the converted one (`archive.c:147`,
503-504), so `Restored` promises the contents of a file when the bytes that records share with
the next are left alone (`SharedKept`), and otherwise only that what was there before stays.

### Isam, IsamDir, Serve

`Isam` has an action per BTAS request, with what the client computes before and
after it. `call[c]` is the call under way and where in it; `h[c]` the
descriptor: the current index, and the buffers of the master and of that index.
A write that meets a duplicate in an index takes back the keys it wrote. `IndexesAgree`: an
index has the key of each record that no call is changing, and no other;
`ReplacedKept`: a record being replaced is in the master file, old or new, also when
the client dies there, and the highest unique id stays;
`ScanComplete`: a scan meets every record that stays. A scan ends with a call that
moves the position, and with an `isupdate` that fails in the current index (section 5).

A client that is `Careful` calls `isrewcurr`, `isdelcurr` and `isdelrec` only for a
record of its own that is there: a record it has just deleted still counts as
current in the code (section 5).

`IsamDir` is about the files: `FilesTogether`, that an open C-ISAM file has all
files its control file lists, and that nothing is left over when no call runs. Others open the
file while it is built, erased or renamed. A file opened between the two records `isbuildx` writes
(`isbuild.c:131`) is without its record numbers; a rename and an erase tried again that meet a lock or a missing
name leave the control file apart from its files. `parted` is a history variable with these
control files, and `FilesTogether` excepts them; even of these it says that every key file is still listed
by one of them, so that an erase finds it.

`Serve` has the two pipes as sequences of headers and bytes, so that a reply too
long or a parameter read at the wrong place misaligns all that follows.
`ServedRight`: the replies parse, one for each request, each with the records a
file with that content and that range would give. A reply carries the number of the last record
unpacked (`isrecnum`), also after a request that failed, and a parameter has a zero stored behind it.

### The SQL client

`Expr`, `Boxes`, `Sorting`, `Joins`, `KeyMap`, `Convert` and `Dictionary` are
operators: the algorithm of the code beside a reference that is short enough to be
believed. A behaviour of `MCSql` takes one case and makes one step, the answer.

* `Expr` builds, reduces and evaluates a condition in as many stages as the code
  does; the reference is three-valued logic on the unreduced condition.
* `Boxes` turns a condition into disjoint boxes and walks the file through them;
  the reference is the rows for which the condition is true, in order (`RowsOnce`). Where
  the key to go on from wraps to zero (`vwsel.c:201-205`; `Wraps` says for which tables and boxes)
  the walk begins again, and the property says what it hands out a second time.
* `Sorting` and `Joins`: work files with run-by-run reading, and the plan of a join
  with moved conditions and outer tables (`RowsAsked`). Stated exceptions: a descending
  column by which the source is ascending (`order.c:212-219`), COUNT over no rows, and
  conditions on an outer table taken for ones on an earlier table (`TakenFor`).
* `KeyMap` rotates keys to the front of a record (`rotate`, `isconvkey`); `Convert`
  packs fields and stores columns; the reference is that the order of bytes is the
  order of values and that nothing is lost (`StoredOrder`).
* `Dictionary`: what CREATE and INSERT ... SELECT write, read back (`ColumnsRight`).

`Statements` is a state machine again: the scan and the C-ISAM call of each row, the
position the call leaves in the buffer, and another client who adds and
deletes rows between, also the row that has been read and not yet changed. Statements raise the
key they scan by, meet duplicates in the index they scan by, and insert into the table they read.
`EachRowOnce` says which rows may then be met again (`Again`, `CopiesOf`) and when a
statement ends before it has met all (`Early`).

## 3. Runs

States are distinct states; all runs are exhaustive.

| Run | Question | States |
|---|---|---|
| `Disk` | `full`, `over`, where steps are `Orderly` or keep the backup superblock: does a crash, a torn checkpoint included, always leave the last image or the one before (`WholeRecoverable`, the refinement `StoreSpec`), is every read current (`ReadCurrent`), is clean complete (`CleanMeansWritten`, `UnmountClean`)? `free`: is every unused block free once (`FreeExact`), nothing wanted taken (`FilesStay`)? `scan`, `report`: do the offline tools read and report it right (`ScanRight`, `ReportRight`)? | 2 528 000 |
| `FailSafe_live` | Does every sync end, with reads, full extents, reserved space and failing writes (`SyncEnds`)? | 1 365 000 |
| `FailSafe_drain` (fails) | Is an unapplied checkpoint recoverable when reads drain the queue? | |
| `Space_recover` (fails) | Is the free list right when files are made during a recovery? | |
| `Space_reserve` (fails) | Is what `chkspace` grants there? | |
| `Blocks` | `pool`: is a block in one buffer and found, is everything modified touched, is no buffer lost (`BlocksKept`)? `mounts`: are extents and descriptors those of their filesystem, after mounts that failed half way too (`MountsOwn`)? `leaf`, `long`, `stem`: do compressed nodes hold their records and find them (`RecordsLocated`)? | 199 000 |
| `BTree_tree` | Is every record found, in order, after any history (`KeysRead`); is the tree whole; do asserts hold; do `needed()` blocks suffice; does every request end (`EachTurnLess`)? | 301 000 up to names of blocks |
| `BTree_half` (fails) | Do the asserts hold for records of half a node? | |
| `Server` | `timer`: does dirty data always have a timer (`TimerRuns`), and is it flushed in the end (`TimerServes`)? `locks`: do the set, the chains and the heap agree (`LocksConsistent`)? `queues`: does every call end (`Answered`), with its own reply (`ReplyIsMine`), none lost (`NothingLost`)? | 363 000 |
| `Files` | `opens`, `stale`: do open counts, mount counts, records and joins agree with the users (`FilesKept`)? `library`: do the calls on directories (`CallsRight`), `names`: paths and patterns (`NamesRight`), `archive`: archives (`Restored`) do what they should? | 573 000 |
| `Isam_calls` | `changes`, `reads`, `moves`: do indexes agree, are records kept, do scans meet them (`IndexesAgree`, `ReplacedKept`, `ScanComplete`)? `serves`: is each request answered (`ServedRight`)? `dirs`: do the files of a C-ISAM file stay together (`FilesTogether`)? | 1 743 000 |
| `Sql` | Does each algorithm answer what SQL says (`ConditionRight`, `RowsOnce`, `RowsAsked`), keep the order of keys (`StoredOrder`) and the columns (`ColumnsRight`); does a statement change each row once (`EachRowOnce`)? | 2 568 000 |

**Why the bounds are enough.** *FailSafe*: three blocks are one in the queue,
one in place and one modified; `Threshold` 2 makes `get(0)` sync; three updates
give two successive checkpoints and changes after them; two crashes allow one
during the recovery of another. `lastn` differs from the new length with two
blocks, so padding matters. In `over` the area holds one block, so that a sync
goes in place; both have flushes by the alarm. `FailSafe_live` has every kind of failing write; with one
update (`FewOps`) where space is reserved too, with two elsewhere. *Space*: five blocks with room for four on the device are a
root, a file of three levels being deleted or recovered, and one more that takes
its blocks; a batch of two needs a second round. *Scan*: a buffer of three and
extents of five and two: a full, a short and an only read; up to two blocks
missing. *Report*: three blocks are a root directory, what it leads to, and what
nothing leads to. *MountTable*: filesystems of one, three and one extents in four
slots: the table is full with two of them, every order of unmounting moves
something, and a mount of the second can fail at either extension. With two descriptors in question no further mount fails. *Pool*: three buffers for eight keys (four blocks on two mounts) in five slots (the code
always has at least half as many again as buffers, `hash.c:78`), whose hash values collide in pairs and wrap; one request may
use two buffers and the array has room for three, so every request is followed by rounds of flushing.
The proof has no bound. *Node*: all records of up to three bytes of
two values, each behind a block; in `long` a key is at most two of the three, as `MAXKEY` is
shorter than the longest record.

*Alarm*: the limit only delays, and 3 leaves room for signals before, at and
after it. *Requests*: with room for one reply, the reply of one process
keeps that of the other out, and `cleanq` meets it with its receiver waiting,
gone or replaced; with room for two and two ids the queue would be full only
after an id has been used again, and `Answered` would say nothing. *LockTable*:
chains of two entries in a heap of four; the proof has no bound. *Files*: three
clients are an exclusive holder, a shared one and one that deletes or unmounts.
*Library*: two processes, of which one makes and removes directories; two calls
and one. With two such processes `NothingLost` fails (section 5).

*BTree*: records of 2 or 3 units in nodes of 6. A leaf record is at most half a
node, which is what `maxrec` allows; a separator, 1 or 2 units, is at most a
third, where `MAXKEY` in a block of 1024 gives a quarter. With nine keys and
nine blocks the tree gets three levels (two of stems), a root stem is split and
collapses, `add` climbs, and calls itself from `Rotate` and from `SplitTwo`,
`del` and `replace` call `add`, and in `del` the dad's separator goes left or
right as it fits. Not reached: merging two stems while the root has a third,
a separator that does not fit in the left brother during `add`, and two nested
calls of `add` at once; random walks in trees of 50 keys (section 5) reach
further. The 32 bytes a root is short of a node (978 for 1010) are
less than a unit, and 0 here; `BTree_half` is about them. Other files leave
either no block or exactly as many as `chkspace` asks for (`Request`): more would
make no difference, and a request is checked at the limit. `VIEW Shape` renames
blocks in the order they are met from the root: which free block `btnew` takes
changes names and nothing else, and no property names a block.

*Isam*: two clients, each changing records of its own (`Own`): two calls of one
against one of the other cover every pair of requests of two calls, and a client
that dies in each place. Both are `Careful`.
*IsamDir*: one client builds, erases (and tries again) or renames while another opens what is
not there yet, half there or about to go.
*Serve*: four requests sent ahead, batches of two and of five, ranges over both
parts of the key. *Sql*: values of each kind with NULL, every pair of conditions; up to
three boxes; tables of two or three; records of every layout of a few fields.

**Deadlock** is checked for the `BTree` runs. In the others the bounds
on updates, requests, calls and crashes let a behaviour stop, as the real system
does when no client calls.

**Fairness.** `FailSafe_live` (`MCFairSpec`): weak fairness of `Sync`: the server is one
thread that never waits inside a sync. `Server`, timer: weak fairness of the
server's steps, and strong fairness of an alarm that finds the server blocked
in `msgrcv`: an armed alarm arrives every interval of seconds, and the server
is back in `msgrcv` within microseconds, so it is hit there again and again.
Clients and SIGTERM have no fairness. Queues: weak fairness of the server,
of a process that is in `msgrcv` with a reply present (or with the queue
removed), and the process that froze the server ends some time, which is what
the operator's backup does. A process is never obliged to call.

## 4. Proofs

`FailSafe_proofs` (for every finite set of blocks, every area up to 254 blocks
and every setting of the switches):

* `TypeCorrect`: `Spec => []TypeOK`. Not mere typing: it holds the bound
  `Cardinality(queue) <= MaxBlks`, on which `buf` and `blks[]` depend, and that
  the flag written to disk is the size of a real checkpoint.
* `ReadsAreCurrent`, `CleanIsWritten`, `UnmountsAreClean`: `ReadCurrent`,
  `CleanMeansWritten` and `UnmountClean` under the assumption that no write
  fails (`~Failing`). With failing writes TLC refutes them.

None of the three is inductive. `IInv` strengthens them to: `Coherent` (what is
not modified is, in the cache, what the queue holds, or the disk where nothing
is queued), `QueueTouched` (what is queued without a touched buffer is
preallocated space, equal to the disk), `WriteFresh` (a block is not queued
and modified at once while the touched list is being written; otherwise the
queue would already hold an older version and one write could overtake the
other), `JobPhase` (where the callers of a sync can be, and that the second
sync of an unmount finds nothing modified), `CleanHeader` (a superblock clean
in memory is clean on disk) and `NoError`. The step lemma has one case per action.

The second half of `FailSafe_proofs` is the refinement of `AtomicStore`,
in the two ways the device is used. What a crash would recover is a function of the
disk (`Recovered`); the proof follows it, step by step, from one commit to the next.

* `CheckpointsAreAtomic`: `Spec /\ [][Orderly]_vars => StoreSpec`. The checkpoint may be torn, in its
  blocks and in its padding; a sync may overflow it; `flush` runs between operations; and a crash
  may meet the recovery of another. `CheckpointsAreRecoverable`: `UnappliedRecoverable`, and
  `BackupIsOld` unless an update in place is under way, for the same behaviours.
* `OverflowIsAtomic`: `Spec /\ [][KeepsBackup /\ ~TornBlocks]_vars => StoreSpec`, with space
  reserved ahead as well, for any size of the checkpoint, none included. What a sync has half done
  in place is refused by the next mount.

The hypotheses are about steps (`FailSafe` above) and leave everything else of the code in: flushes by
the alarm, reads, torn checkpoints as said; only `ExtentFull` is excluded as a whole. The code does take
the steps they exclude, and section 5 says what is lost then. Both theorems assume that no write fails, and the first that no space is reserved ahead
and that `MaxCrash < SeqMod`: each crash during a recovery moves `chkseq` on by one, and after
256 of them the first header left in the area is taken for that of the checkpoint that was
torn. TLC finds a counterexample without each clause and each
assumption (the last with `SeqMod = 2`, three crashes).

Both rest on `AInv`: while the queue is written in place, each of its blocks is in the
checkpoint or equal to the disk; the backup superblock differs from the current one in
what the users changed and in nothing else once the queue is empty; and a superblock that
is dirty in memory is dirty on disk. `WInv` adds, for orderly steps, that a queue between operations
goes with the superblock fields as they are (`MetaSame`), so that a read takes a block out of a
checkpoint only when that is complete; that until the checkpoint is complete on disk the backup
superblock and the blocks in place are the last image (`BackupInPlace`), and from then on the
checkpoint is the new one (`Drains`); and that what former checkpoints left in
the area has a sequence number that is behind, by no more than the crashes there have
been (`Sequenced`).

The third part is about `Device`, whose behaviours each move one of its three parts.
`DeviceStaysRecoverable` is `WholeRecoverable` of the run `Disk`, whose part `full` makes orderly steps only; it
assumes besides what `CheckpointsAreAtomic` does `Threshold + MaxBuf <= MaxBlks + 1`, the touched list that
`get(0)` keeps (`maxtouch`), with which one more operation still fits a checkpoint (`NoOverflow`). `SpaceStaysExact` (`FreeExact`) and `FilesStayWhole` (`FilesStay`) are about
the free space, for any number of blocks, any depth of files and any batch of `btrcvr`. They assume that
no file is made while `btrcvr` reads (`~Busy`) and that it is not given the root of a deleted file
(`~Undelete`): in either case the code frees blocks it should not, and TLC refutes them (section 5).

Neither is inductive, for neither says what the blocks behind the first of the free list hold. The
invariant `SInv` says how every block can be reached:

* `FilesPlaced`: each block is at one place of one level of one file; the first and the last block
  of a stem level lead to the first and the last block of the level below, and each but the first to its left
  brother. That is all `btfree` relies on when it deletes a whole file without visiting it:
  `ChainedDown` follows its loop and shows that writing the first block of each level links
  the levels into one list with the root last.
* `FreeChain`: the blocks in no file have ranks, which fall along the list (by `son` when the block
  was deleted by itself, by `lbro` when it went with its file), and the root of one that
  went with its file is on the list too, deleted, at a lower rank. So the root is taken last,
  which is `RootsTakenLast`. `ChainPop`, `ChainPush` and `ChainFile` say what `btnew`, `btfree` of a
  block and of a file do to it; `SweptDown` follows `fix/btfree` over all blocks, where the
  type of a root is the one it had when it was first asked for, and builds the list anew.
* `Recovering`: what is left of a file under recovery is exactly the blocks with the old root; they are in
  the batch or further on; none of those not yet copied is behind the place `btrcvr` is at in its batch. That
  each block is written as deleted only after its copy is what `RecordsStay` needs, also when `btrcvr`
  is killed and run again.
* `Counted`: `space` is what is on the list and what a filesystem of fixed size has beyond its last block.

`Covers` ends the argument: a list whose ranks fall, and in which each block but the first is led to
by another, is the list `Listed` as `btnew` takes it, with each block once.

`Server_proofs` (over `MCServer`, whose behaviours each move one of its parts):
`TimerAlwaysRuns`, for any limit: `TimerRuns` is inductive together with the type.
`LocksStayConsistent`, `RepliesStayMine` and `NothingIsLost`: what the run `Server` checks of
the lock table and of the queues, for all values of their constants.

Its first part is about the lock table alone (any processes, locks and addresses):
`TableConsistent`, the set and the chains hold the same live entries, each once and in the chain of its
own process; `HeldRecorded`, what a process has been told it holds stays in the
table until it releases it. `Consistent` is inductive with the type only because
it also says that an entry is in one chain at one place: without that, freeing a
chain could free what another names. `NothingFound` is the reason the reclaiming branch needs no
case: the search compares the address of a local variable and finds nothing (section 5).

`Requests_proofs` (any number of processes, requests and servers, any setting of
the switches): `NothingEverLost`, that whoever waits for the running server waits
for a request or a reply that exists. `cleanq` makes it hard: it takes replies out
and puts them back, while processes end, ids are used again and the server is
replaced. The inductive invariant `IInv` is `Expected` (a wait for the running
server has its number on a request in the queue, on the one in the server's
hands, or on a reply), `Distinct` (numbers are not given twice, no two processes
wait for the same one, and a message with the number a process waits for is
addressed to it, so that `cleanq` and the other processes leave it alone)
and the types. The lemmas on `Append`, `Tail` and `Without` say what the queues
keep.

On top of it `RepliesAreMine`: that a reply in the queue which is
addressed to a process whose id nobody had before is the one to the request that
process waits for. `ReplyIsMine` alone says nothing of requests that are not answered
yet, and does not survive `Receive`, which sets `wait` back while another reply might
lie behind the one taken. `RInv` adds `Sole` (a request is in one place at a time:
asked once, in the server's hands, or answered once, also while `cleanq` turns the
queue over) and `Ours` (every message of a living process, in either queue or in the
server's hands, is what it waits for, from the queues of this server; those of a
server that is down are gone). So a process that calls has no message anywhere, and
the one that takes its reply took its last.

`MountTable_proofs` (any sizes of the device and extent tables, any filesystems):
`ExtentsStayOwned`. `ExtentsOwned` is inductive with the types. The key lemma is
`Apart`: the extents of two open devices are intervals that do not overlap, so that
when `DEV::close` moves down everything above the gap it makes, each device lies
wholly below or wholly above it, and what moves is neither cut nor pushed into
another. A mount that finds an extent missing takes the same way out after it has
entered some of them.

`DescriptorsStayKept` states `DescriptorsKept`: no device
uses a closed descriptor or another one's, and none stays open that no device
uses, apart from the two of each mount that failed half way (`botched`). The invariant `Described` says that the extents in use have descriptors of
their own, which a move keeps, extent and descriptor together (`UnmountMoves`), and which
a mount takes from those that are free, lowest first (`MountOpens`). A failed mount
changes no others than the two; without them excepted the property is false (`DescriptorsOpen`, section 5).

`Blocks_proofs` (over `MCBlocks`): `MountsStayOwn`, which is `MountsOwn` of the run `Blocks`:
the two invariants of `MountTable` under the moves of the composition, for all values of
the table's constants.

`BlocksStayKept` is `BlocksKept` of the same run, for any number of buffers, blocks and mounts, any
hash function and any table with two more slots than buffers (`PoolAssumption`), as long as no read
fails: with failing reads `BlocksFound` is false (section 5), and the parts that are not about the
hash table are theorems of their own, `ModifiedStayTouched` and `ChainStaysWhole`. Each has its
inductive invariant:

* `FoundInv`, for `BlocksFound`. `HashInv` says that no buffer is in two slots, that whatever
  has a block number is in one, and that no slot between the hash value of an entry and the entry,
  going down the ring, is empty (`Before`). Everything rests on the loop of `rehash`, which moves
  later entries of a cluster up into the hole: its invariant `LoopInv` is that only entries the loop has
  still to come to may be cut off from their hash value, and by the hole only (`LoopStep`, where
  the condition of `hash.c:275` is what `WithinIsBefore` says it is); when it meets an empty slot
  none is left (`ClosesUp`). `find` puts the entry into its new slot before the old one is deleted
  (`Reused`), `clear` only deletes (`Cleared`), and `swap` exchanges two entries with their keys, so each
  slot keeps its key (`FoundSwap`). An empty slot besides any other exists by the pigeonhole principle (`Empty`).
* `TouchedInv`, for `ModifiedTouched`. The array grows only by buffers the request has changed; so it has room
  while the others in it are no more than `MaxTouch - MaxBuf`. The loop of `get(0)` restores that:
  each round lowers `Left`, twice the length of the array, less one if its first buffer is
  written, so it ends within the rounds `Rounds` has (`RoundsEnd`), and no round forgets a
  modified buffer (`SyncedKeeps`).
* `ChainInv`, for `ChainWhole`: a request uses fewer buffers than there are, and what leaves the chain
  (`Taken`) comes back once (`ReleaseAllSet`).

`Files_proofs` (any finite number of processes, files and names). `RecordsStayCounted`,
for any setting of the switches: `RecordsCounted` is inductive with the types, which
say that what is open is a file. A record is entered in one place for one link, which
is counted first and stays counted when the insert finds the filesystem full; a delete
takes one record and one link, and frees the file at the last link, when the count
leaves no room for another record.

`OpensStayCounted`: `OpensCounted`, `ExclusiveAlone`, `OpenFilesExist`, `MountsCounted`,
`JoinLeadsOn` and `UnmountWhenIdle`, together, since they need one another. It
assumes `~Touching`, `~Drives` and `~SameSecond`: TLC refutes one of the six under
each of these switches (section 5). The join table is one more owner of a file
beside the processes (`held`), so that `BTMOUNT` passes a file from one owner to
another, and an unmount is two closes one after the other (`CloseOne`). What the proof
needs beyond the six properties: no file has an access time in the future (a
restart makes every lock it finds a stale one), what is open has links (so that a path
leads to no freed file, `ReachableLinked`), and the root of the second filesystem,
which keeps its counts while it is not mounted, was closed by its last user or was last
opened before the next mount (`Joined`). The opens kept in a file are -1, their
number, or stale; `closefile` lowers the count of the filesystem only when
they are not 0, and that they never are while somebody closes is part of `Right`.

`FilesAll_proofs` (over `MCFilesAll`): `FilesStayKept`, which is `FilesKept` of the run `Files`:
what the processes of the composition do to the files, under the same three conditions.

`Isam_proofs` (any number of clients and calls, any list of indexes, any records):
`ClientsKeepIndexes`, `IndexesAgree`; `ReplacedStays`, `ReplacedKept`; and `ScansMeetAll`,
`ScanComplete`. Clients are at any request of any call, and may end there. The assumption is `Disciplined`: clients are
`Careful`, no two of them change the same records (`Separate`), and indexes are neither added nor
rebuilt (not `Admin`). TLC refutes `IndexesAgree` without the first two; the third is checked by
`Isam_calls`, but `isfix` is a fold over the records of a file, and the prover has no induction
over data.

`IndexesAgree` speaks of records no call is changing, and says nothing of the state a
call leaves them in. The inductive invariant `IInv` does: for each client and each file of
the list it gives the records the file holds of those that are the client's (`Exact`): what completed
calls have left, without the old one where the call has deleted it (`Gone`), with the new one
where it has written it (`Come`). Where that is depends on the call, on how the records compare in each
index (`cmprec`) and on the place in the list it has got to, going forward or, after a
duplicate, back; `CallOK` gives the phases, and that the duplicate an undo stops at is another
record's. `Unique` says that a key is in a file once. The steps are of two kinds: those
that change one file at one place (`Putting`, `Dropping`) and those that only
move on, which need that the files between the place and the next one do not differ (`NextIndex`).
A call that has ended, by its return or by the death of the client, is one that is at no place, and the two
are the same to the others. `IdInv`, beside it, is about `isuniqueid`: a call deletes
an id only when it has seen or written a higher one.

`ScansMeetAll` is about a client that reads by ISNEXT, with any modes and calls in
between, while it and others write, change and delete. It also assumes `Numbered`, that the
fields of records are numbers, which gives keys their order. `ScanComplete` says what holds
at the end of the file; `ScanInv`, beside `IInv`, where the client is until then
(`Going`): at a record or a key of the current index behind which come all the records it has still to
meet (`Ahead`), at a record about to be counted as met between the two requests of `isread` (`Reached`),
or, in a call that restores the position, at the one it has saved. What a scan has to
meet are records that completed calls have left and no call is about (`Settled`, `MustOK`: a call
takes its records out of all scans); by `IndexesAgree` they are all in the index and in the master file, so a read of the next record passes none of them (`Search`),
and the key records `isread` skips for want of a master are not theirs (`MasterThere`). The step lemma is `Together`: what one
client does leaves the scans of the others where they are. Trying to prove it is what showed that an `isupdate` that
fails moves the position (section 5, "Read in the code on the way").

**Only model-checked:** liveness (`SyncEnds`, `TimerServes`, `Answered`,
`EachTurnLess`), which the prover does not reach; `CallsRight`, `NamesRight` and `Restored`, whose
programs of calls need induction over data; `RecordsLocated`, which is
about what recursive functions compute; administration in `Isam`; and
everything of the other modules. `Scan`, `Report`, `Serve` and most modules of the run `Sql`
have recursive operators, which are beyond the prover.

## 5. What the models show of the code

Four runs end in a violation, and `PROJECT.json` quotes the lines:

1. `FailSafe_drain`: reads that drain the queue skip the renewal of the backup
   superblock; the next whole checkpoint is taken for a partial one.
2. `BTree_half`: "variable length records up to 1/2 node size" (`btree.c:2`).
   Two records of nearly that size are too long for a root together (978
   bytes) and fit in a node below it (1010). The split of the root then puts both
   in the left node; `getkey` asserts on the empty right one when the root is
   already a stem, and the file is lost. In the real server: new file, blocks of
   1024, two records of 487 to 502 bytes in descending order of keys; the second write
   returns error 203 (`BTERINT`), and so does every later read.
3. `Space_recover`: `btrcvr` beside a running server frees blocks by their root,
   and a file made meanwhile can have taken the old root.
4. `Space_reserve`: `newspace` is never counted down, so `chkspace` grants space
   that is not written yet.

The following properties are stated in the modules and refuted by TLC when the
constants of a part are changed as given, or an exception named is dropped. They are kept as definitions because
each says what a comment or the documentation promises.

| Property | Module, with the constants of | What happens |
|---|---|---|
| `UnappliedRecoverable` | `FailSafe`, `Disk`, `CanFill` | `chkspace` changes `eof` between the two superblocks of a checkpoint (`btdev.cc:142`), and `ispartial` (`fsdev.cc:118`) takes it for a partial one |
| `BackupIsOld`, `StoreSpec` | `FailSafe`, `Disk` | without the second clause of `Orderly`: the backup superblock (`fsdev.cc:173`) is the one at the time of the wait (`fsdev.cc:217`), with updates later than the last checkpoint |
| `BackupIsOld`, `StoreSpec` | `FailSafe`, `Disk`, `MaxBlks = 1` | without its third clause: the front of a checkpoint replaces the dirty flag set for an overflow (`fsdev.cc:90`, 176) |
| `StoreSpec` | `FailSafe`, `Disk`, `MaxBlks = 1`, `Prealloc` | a block reserved ahead is queued between operations, so that a sync waits first and puts the superblock of that moment in front (`fsdev.cc:217`), with updates of which no block is in place; the checkpoint that follows is cut short |
| `CleanMeansWritten` | `FailSafe`, `Disk`, `MaxBlks = 1`, `Failing` | `BLK_MOD` is cleared before the write (`btbuf.c:294`); "ensure updates written before clean flag" (`btdev.cc:385`) |
| `CheckpointFits` | `MountTable`, `Blocks` | the slot keeps the larger `maxblks` of its former filesystem (`fsdev.cc:62`; "compute maximum chkpoint size", 51) |
| `MountedOnce` | `MountTable`, `Blocks` | "is it already mounted ?" (`btdev.cc:213`) trusts the `baseid` on disk, which `close` (326-333) has made stale |
| `DescriptorsOpen` | `MountTable`, `Blocks` | the cleanup of a failed mount (`btdev.cc:264`) closes descriptors of other entries |
| `KeysLocated` without `GoesOn` | `Node`, `Blocks` | a key that goes on after the end of a record is compared with the bytes behind it (`find.c:61`, `insert.c:58`); "k[idx] >= key > k[idx+1]" does not hold |
| `OpensRight` without `plain` | `Names`, `Files` | what is left of a name after a link is looked for in the name given at first (`btopen.c:147-150`), not in the link's text |
| `Restored` without `SharedKept` | `Archive`, `Files` | a record is rebuilt from the converted one before it (`archive.c:147`, 503-504) |
| `BlocksFound` | `Pool`, `Blocks`, `Failing` | a buffer whose read failed keeps its key without being hashed, or is hashed twice (`hash.c:243-264`, `btbuf.c:322`) |
| `FatalSeen` | `Alarm`, `Server` | a signal outside `msgrcv` with the timer off only sets a flag (`alarm.cc:42`; "signals a shutdown for fatal signals", 2-3) |
| `MaximumAge` | `Alarm`, `Server`, `MaxTicks = 12`, `MaxOps = 6` | each request restarts the count (`alarm.cc:67`; "Secs is the maximum age of dirty buffers", 56) |
| `Exclusive` | `LockTable`, `Server` | `tbl.find(&e)` compares the address of a local variable (`LockTable.cc:118`), finds nothing, and every lock is granted: "return true if lock succeeds" (`LockTable.h:38`), "already locked by someone else" (`LockTable.cc:124`). The code that reclaims locks of dead processes is never reached; what is left: the two containers agree and no granted lock is forgotten |
| `RoomIsMade` | `Requests`, `Server` | `cleanq` does not end when a reply is left for an id that another process has which does not call: "throw away stale messages until there is room" (`server.c:134`) |
| `NoStrayReply` | `Requests`, `Server` | a reply to a dead process waits for the next one with its id (`server.c:138`) |
| `WholeReplies` | `Requests`, `Server` | `cleanq` puts back at most 1024 bytes (`server.c:136`) |
| `StaleRefused` | `Requests`, `Server` | `server_cnt` (`lib/client.c:31`, 58) counts the servers this process has seen |
| `Reconnects` | `Requests`, `Server` | `lib/client.c:84` compares the -1 of `msgsnd` with `EIDRM` |
| `SpaceSuffices` without `op = -1` | `BTree`, `BTree_tree` | `delrec` asks for no free space, and on a full filesystem the `add` that `del` calls fails in `btnew` when the separator is already out of the dad (`btree.c:369`): the records below it are lost |
| `NoAssert` | `BTree`, `Recs` the eight keys of three binary digits and no data | a root stem of two long separators is split into one record each, and `getkey` asserts more than one in the left half (`btree.c:413`). A separator is half a node here; blocks of 512 and keys of 200 bytes are like that |
| `NoAssert` | `BTree`, caps 8, `NBlocks` 80, `MaxLev` 8 and `Recs` the keys of 1..10 by 0..4 with data of 1 and 2, by `tlc -simulate` | a stem is split in two with its left brother, nothing moves (`btree.c:165-167`: the last record and the new one make up half a node), the new record is the only one of the new node, and `getkey` asserts (`btree.c:413`). It takes separators of a quarter of a node; the walks with caps 9 and 10 find nothing. In the real server, blocks of 1024: random keys of 248 to 252 bytes, several of which differ only in the last byte, end in error 203 after one to seven thousand writes; the same with keys of 245 bytes or less does not |
| `LinksRecorded` | `Files`, `CanFill` | `addrec` leaves by `longjmp` (`btkey.c:149`) past "unlink if can't add record" (`btas.c:117`) |
| `LinksRecorded` | `Files` | the undo is refused for a file something is joined to (`btfile.c:348-351`) |
| `ExclusiveAlone` | `Files`, `Touching` | an old access time set on an open file (`btas.c:278`) makes its lock "stale" (`btfile.c:264`) |
| `OpensCounted` | `Files`, `SameSecond` | a restart within the second of the last open (`btfile.c:264` compares with `<`) |
| `UnmountWhenIdle` | `Files`, `Drives` | a drive cannot be unmounted through its open root (`btfile.c:147-163`, `util/mount.c:61-69`) |
| `JoinLeadsOn` | `Files`, `Drives` | `BTUMOUNT` with root 0 leaves the join table (`btas.c:246`) |
| `NothingLost` | `Library`, `Makers` both processes | a name made in a directory that `btrmdir` has found empty (`lib/btrmdir.c:62`, `btfile.c:362-365`) |
| `FreeExact` | `Space`, `Undelete` | recovering a deleted file frees its blocks a second time |
| `NoLostFile` | `Space` | BTCREATE on a full filesystem: the new file stays without a name (`btas.c:117`) |
| `IndexesAgree` | `Isam`, `Own` the same keys for both clients | two calls on one record, request by request; only `ISMANULOCK` would keep them apart |
| `ReplacedKept` | `Isam`, `Careful = FALSE` | after `isdelcurr` the deleted record still counts as current (`cisam/isdelete.c:19`, `cisam/isrewrit.c:50`, `lib/client.c:99-108`), and `isrewcurr` begins to replace it |
| `UniqueIds` | `Isam` | two callers of `isuniqueid` read the same last id (`cisam/isunique.c:14-22`) |
| `ServedRight` | `Serve`, `Short` | `readlast` reads every piece to the start of its buffer (`cisam/isserve.c`) |

This is also what the switches (`CONSTANTS` of type `BOOLEAN`) are for: they
separate the behaviours under which a property holds from the one that breaks
it, and a passing run says by its settings what it is restricted to.

### Read in the code on the way

What follows was met while translating. What is marked (*) is in the inputs of the runs, which
do what the code does; the property states the exception. The rest is not part of any run, and is why
some inputs are restricted.

* **Offline tools.** A bad block just before the last of an extent makes `get()`
  mark the last one bad too, for there is no seek after the mark
  (`getblock.cc:204-212`), and in an extent cut short it reports a block that is
  not there. `root == 0x80000000L` is never true where `long` has 64 bits
  (`blktype.cc:14`), so a bad block has the type of a root. `btddir` counts leaves of
  deleted files as a disconnected tree on an image and not on a device; its
  insertion compares with `> 0`, so its lists are not in order; `memset(path,0,sizeof
  path)` clears a pointer's size. `btrcvr` frees blocks after `donode` has refused their
  node. `btsave` and `btrest` know one extent.
* **C-ISAM.** `iswrite.c:22-25` leaves `curidx->btcb` pointing to the stack when a
  request throws; with a secondary current index the new record stays in the master
  buffer, and an `isupdate` after it keeps a position that is not the scan's; an `isupdate` that
  meets a duplicate in the current index leaves the record it could not write in that buffer
  (`isrewrit.c:63-78` restores the others), and ISNEXT, also after an `isrewrite` that saves and
  restores this as its key position (121-124, 138-141), skips all before it; `isrewrite` between
  `isstart` and the first ISNEXT makes that one go on behind the buffer instead of at the start (`isrewrit.c:133`); the undo loop of `iswr` deletes the record-number key twice. `isread` with
  `ISCURR` rereads by the key length left by the request before. A start through the
  server clears the range. Read by a secondary index, a record deleted in between gives
  `ENOREC` instead of the next. `isfix` may delete a record that is right, `isdelindex` leaves
  `curidx` dangling. In the server, an overlong parameter keeps its last
  part, an end of file in one loops for ever, a child closes its descriptor before it duplicates
  it (348), and a batch leaves the position beyond what the client has consumed.
* **Directories of C-ISAM.** A client that opens a file between the two records
  `isbuildx` writes has no record-number index (*); a control file without records is read with an
  uninitialised key. The retry of `iscleanup` that meets a lock is dropped and
  leaves the `.idx` (*); with a name it uses freed memory, and can delete a file built
  later. In the gap of `isrename` an opener gets a bare file, and a lock makes it stop half way (*); a
  name that begins with the old one is read again. A failed build leaves its
  `.idx`. `isnewfd` refuses to grow past its table (`ETOOMANY`).
* **Library.** `btkill` of a directory that is not empty orphans it with its own
  link; `btclear` loses the name when the process ends between its requests; `BTERLOCK` in a walk
  ends the level above; `dodir` leaves its directory open when a path is too
  long; `[b-d]` matches `-`, and `?` the NUL (*); `a//..` becomes `a`; the link pointer of
  `btopen.c:147-150` (*).
* **Archives.** Converting a record overwrites the buffer that the next one is
  rebuilt from (*); an empty record ends a file early; the last directory header
  has no successor; only `MAXKEY` bytes of the record before are kept.
* **Packing and columns.** The loop that strips zeros runs below the buffer for a record
  of zeros (`pack.c:251`); a descending field whose bytes were stripped loads as 0; a
  partial key that ends in a blank is no prefix. A NULL number of 5 or 6 bytes loads as 0;
  `fmoney` and `fnum` know different values of `MONEY`; numbers of up to 4 bytes sort
  negative after positive under `MONEY=O`; a double 0.0 loads as NULL; a NULL date cannot
  be stored; times from 2^31 load as NULL although `coldate.c:271` says unsigned.
* **Dictionary.** `isdictadd` pairs names in declared order with fields in
  the order of the key (`sqlexec.c:269`): they are exchanged when the primary
  key does not lead. Masks have one decimal too few, and with one the point
  overwrites the NUL. Columns of DOUBLE in a table with a primary key get type X.
  CREATE INDEX takes a column's number for a field's. DROP TABLE and CREATE without a
  key leave old records; names equal in 18 characters share theirs; keys of more than
  `NPARTS` columns are cut.
* **Statements.** An UPDATE that raises the key it scans by meets its row again (*); a
  duplicate refused by the scanned index leaves the cursor at the new key, so
  that rows are skipped or the scan does not end (*); INSERT from the same table can read its
  own rows (*); DELETE without WHERE clears the master file only; a row deleted by another
  client between read and update comes back (*).
* **Expressions and plans.** `(unknown AND x) OR TRUE` is not reduced; IF with a NULL
  condition gives NULL; the literal 0 is one shared node that sums are added to; `'' || 'a'`
  changes the shared empty string; a sum is rounded to the left operand's decimals; LIKE
  reads past the NUL. The walk through key ranges starts again when a prior part of the
  key is at its maximum (*); bounds are rounded before they are moved by one; NULL keys fall
  under `k < 5`. ORDER BY DESC by the leading key comes ascending (*); COUNT over
  nothing gives no row (*); unreferenced tables are dropped; a condition moved into an outer
  join (*); conditions on EXISTS columns at the wrong level.

## 6. Not modelled, and what is left

* Disk sectors reordered at power failure: `fsdev.cc:2` says that it is not
  handled; a torn write is a prefix of blocks in any order inside the area.
* Wrap-around of 16-bit counts, `ulimit` branches, MS-DOS code, permissions.
* `btreload`, `btundup`, `btzap`, the editor of `btdb`, readers of foreign formats; the
  audit trail and locks of C-ISAM; the SQL parser and printing; number formats no
  SQL column uses. They are sequential, or keep no state that others see.
* Server tools, browser, Python binding: one request each, or what is on a
  screen, over libraries that are modelled.
* `nohash.c`, `main.c`, `pipedev.cc`, `writer.cc` are not linked into the server.

| Next | Question |
|---|---|
| `BTree`: partial keys, duplicates; refinement of an ordered map | a scan by a prefix stays complete through splits |
| proofs for `Library`, `BTree` | without bounds |
| `Alarm` with `Requests` | EINTR in the reply |
| `flush` over several devices, with `MountTable` | one touched list, several checkpoints |
| `islock` and the audit trail beside `Isam` | what `ISMANULOCK` promises |

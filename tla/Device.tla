------------------------------- MODULE Device -------------------------------
(***************************************************************************)
(* One device as the server uses it: two instances of FailSafe and the     *)
(* free space (Space), side by side.  In the first of FailSafe, every      *)
(* checkpoint holds all that is modified, and may be cut short.  In the    *)
(* second, a sync may have more blocks than a checkpoint, so that it goes  *)
(* in place and is marked dirty, and space is reserved ahead.  In both,    *)
(* flush() runs between operations, and no step is taken that FailSafe     *)
(* names as leaving the wrong superblock behind (Orderly, KeepsBackup).    *)
(***************************************************************************)
EXTENDS FailSafe, Sequences

CONSTANTS MaxBlk, Capacity, SafeEof, Sized, Undelete, Busy, Batch, MaxTree, MaxCalls

VARIABLES links, tree, space, os, owed, new, lost, rcv, calls, part

Over == INSTANCE FailSafe WITH
  MaxBlks <- 1, Prealloc <- TRUE
OverNext == Over!Next /\ Over!KeepsBackup /\ ~Over!TornBlocks

Free == INSTANCE Space WITH disk <- links, hdr <- space
ASSUME DeviceAssumption == Free!SpaceAssumption

spaceVars == <<links, tree, space, os, owed, new, lost, rcv, calls>>
deviceVars == <<vars, spaceVars, part>>

DeviceInit ==
  /\ Free!Init
  /\ \/ part \in {"full", "free"} /\ Init
     \/ part = "over" /\ Over!Init
DeviceNext == /\ \/ part = "full" /\ Next /\ Orderly /\ UNCHANGED spaceVars
                 \/ part = "over" /\ OverNext /\ UNCHANGED spaceVars
                 \/ part = "free" /\ Free!Next /\ UNCHANGED vars
              /\ UNCHANGED part
DeviceSpec == DeviceInit /\ [][DeviceNext]_deviceVars

(* WholeRecoverable: where every sync first makes a checkpoint of all it    *)
(* writes, a queue that is not yet in place can be recovered, and until the *)
(* new header is there the disk with the backup header is the filesystem    *)
(* before the sync (FDEV::wait, FDEV::sync); but not after a step that is   *)
(* not Orderly, or a write that failed.                                     *)
WholeRecoverable == part = "full" => UnappliedRecoverable /\ BackupIsOld

(* Space's invariants (see there).                                          *)
FreeExact == Free!FreeExact
(* RootsTakenLast and RecordsStay of Space: the free list and the recovery  *)
(* of space take no block whose records are still wanted.                   *)
FilesStay == Free!RootsTakenLast /\ Free!RecordsStay
=============================================================================

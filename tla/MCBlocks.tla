------------------------------ MODULE MCBlocks ------------------------------
(***************************************************************************)
(* What the server keeps about its storage, in one run: the buffer pool    *)
(* (Pool), and the mount and extent tables (MountTable) with a filesystem  *)
(* of one file, one of three, and one not failsafe; and the records within *)
(* the nodes (Node), of leaves and of stems.                               *)
(***************************************************************************)
EXTENDS Pool, TLC

CONSTANTS solo, trio, plain, NoFs, MaxMnt, MaxExt, MaxTime, MaxBotched

VARIABLES devtbl, extbl, extcnt, hdr, fdtbl, now, botched, node, held, failed, part

Symmetry == Permutations(Buf)
MCHash == [v \in 0..9 |-> (v \div 2) % Size]
MCLimit == [m \in Mid |-> IF m = 0 THEN MaxBuf ELSE 1]

Mounts == INSTANCE MountTable WITH
  Fs <- {solo, trio, plain},
  Extents <- [f \in {solo, trio, plain} |-> IF f = trio THEN 3 ELSE 1],
  Area <- [f \in {solo, trio, plain} |-> CASE f = solo -> 2 [] f = trio -> 1 [] OTHER -> 0-1],
  Missing <- {trio}
ASSUME MountsAssumption == Mounts!MountAssumption

\* A leaf with keys of up to whole records, one with records longer than a key
\* can be, and a stem.
Leaf == INSTANCE Node WITH Byte <- {1, 2}, MaxLen <- 3, MaxKey <- 3, Ptr <- 0, Size <- 16
Long == INSTANCE Node WITH Byte <- {1, 2}, MaxLen <- 3, MaxKey <- 2, Ptr <- 0, Size <- 16
Stem == INSTANCE Node WITH Byte <- {1, 2}, MaxLen <- 3, MaxKey <- 3, Ptr <- 1, Size <- 17
nodeVars == <<node, held, failed>>

mountVars == <<devtbl, extbl, extcnt, hdr, fdtbl, now, botched>>

MCInit == Init /\ Mounts!Init /\ Leaf!Init /\ part \in {"pool", "mounts", "leaf", "long", "stem"}
MCNext == /\ \/ part = "pool" /\ Next /\ UNCHANGED <<mountVars, nodeVars>>
             \/ part = "mounts" /\ Mounts!Next /\ UNCHANGED <<vars, nodeVars>>
             \/ part = "leaf" /\ Leaf!Next /\ UNCHANGED <<vars, mountVars>>
             \/ part = "long" /\ Long!Next /\ UNCHANGED <<vars, mountVars>>
             \/ part = "stem" /\ Stem!Next /\ UNCHANGED <<vars, mountVars>>
          /\ UNCHANGED part
MCSpec == MCInit /\ [][MCNext]_<<vars, mountVars, nodeVars, part>>

(* BlocksKept: Pool's BlocksFound, ModifiedTouched and ChainWhole: a block   *)
(* is in one buffer and the hash finds it, what is modified is on its way    *)
(* out, and there is always a buffer to take.                                *)
BlocksKept == BlocksFound /\ ModifiedTouched /\ ChainWhole

(* MountsOwn: MountTable's invariants, the extents of every mounted         *)
(* filesystem are its own; its descriptors are open, and no others, apart   *)
(* from two of each mount that failed half way (DescriptorsKept).           *)
MountsOwn == Mounts!ExtentsOwned /\ Mounts!DescriptorsKept

(* RecordsLocated: Node's NodeWhole and KeysLocated, for leaves and stems.  *)
(* The records decompressed are those put in, in order, compressed to the   *)
(* byte; find and comp answer what the decompressed records say.  The one    *)
(* exception, in a leaf: find may return a record for a key that begins with *)
(* it and goes on, and a record put there by such a key spoils the node.     *)
RecordsLocated ==
  /\ part = "leaf" => Leaf!NodeWhole /\ Leaf!KeysLocated
  /\ part = "long" => Long!NodeWhole /\ Long!KeysLocated
  /\ part = "stem" => Stem!NodeWhole /\ Stem!KeysLocated
=============================================================================

---------------------------- MODULE AtomicStore ----------------------------
(***************************************************************************)
(* What a checkpointed BTAS/X filesystem promises its users: the blocks    *)
(* and the superblock fields survive a crash together, as they were at one *)
(* moment (the last commit), or the mount is refused because an update in  *)
(* place was under way.  Nothing here is code; FailSafe is shown to        *)
(* implement this module.                                                  *)
(***************************************************************************)
CONSTANTS Image,      \* the possible contents of a filesystem
          NoImage     \* nothing recoverable: a mount would be refused

VARIABLES up,         \* is the filesystem mounted
          img,        \* what its users see while it is mounted
          saved       \* what a crash at this moment would leave

vars == <<up, img, saved>>

TypeOK == /\ up \in BOOLEAN
          /\ img \in Image \cup {NoImage}
          /\ saved \in Image \cup {NoImage}

Init == /\ ~up
        /\ saved \in Image
        /\ img = NoImage

(* Users change what they see; nothing durable changes. *)
Update == /\ up
          /\ up'
          /\ img' \in Image
          /\ saved' = saved

(* The durable image jumps to the current one. *)
Commit == /\ up
          /\ saved' = img
          /\ UNCHANGED <<up, img>>

(* More was modified than a checkpoint holds: blocks are being updated in   *)
(* place and until the next commit there is nothing consistent to go back   *)
(* to.                                                                      *)
Expose == /\ up
          /\ saved' = NoImage
          /\ UNCHANGED <<up, img>>

(* Orderly unmount, or a crash: only the durable image is left.  A crash    *)
(* during a commit may find it done.                                        *)
Stop == /\ up
        /\ ~up'
        /\ img' = NoImage
        /\ saved' \in {saved, img}

(* A mount brings back exactly the durable image. *)
Mount == /\ ~up
         /\ saved # NoImage
         /\ up'
         /\ img' = saved
         /\ saved' = saved

Next == Update \/ Commit \/ Expose \/ Stop \/ Mount

Spec == Init /\ [][Next]_vars
=============================================================================

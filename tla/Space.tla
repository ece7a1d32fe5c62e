------------------------------- MODULE Space -------------------------------
(***************************************************************************)
(* The free space of one filesystem (btbuf.c, btdev.cc), the program that  *)
(* rebuilds it on an unmounted one (fix/btfree.cc), and the recovery of a  *)
(* file in place, block by block, while the server runs (fix/btrcvr.cc,    *)
(* fix/rcvr.cc).                                                           *)
(*                                                                         *)
(* A deleted block has root 0 and son leading to the next.  A whole file   *)
(* is deleted without visiting it ("instant delete"): only the first block *)
(* of each level is written, so that the chain of left brothers of a level *)
(* leads to the level above and at last to the root, the one block whose   *)
(* root becomes 0.  Which blocks a file has is kept in tree, level by      *)
(* level; what is inside a block is left to BTree.                         *)
(***************************************************************************)
EXTENDS Naturals, Sequences, SequencesExt, FiniteSets

CONSTANTS
  MaxBlk,    \* blocks the operating system lets the file grow to (maxblk)
  Capacity,  \* blocks the device has room for
  SafeEof,   \* btserve without -e: space past the end is reserved by writing it
  Sized,     \* may the filesystem have a fixed size from the start
  Undelete,  \* may btrcvr be given the root of a deleted file
  Busy,      \* may files be made while btrcvr reads
  Batch,     \* blocks btrcvr reads at a time
  MaxTree,   \* bound: levels of a file
  MaxCalls   \* bound: changes to files

SpaceAssumption ==
  /\ MaxBlk \in Nat \ {0} /\ Capacity \in 1..MaxBlk /\ MaxTree \in Nat \ {0} /\ Batch \in Nat \ {0} /\ MaxCalls \in Nat
  /\ SafeEof \in BOOLEAN /\ Busy \in BOOLEAN /\ Sized \subseteq BOOLEAN /\ Undelete \in BOOLEAN

VARIABLES
  disk,    \* of each block: root, son, lbro, whether a stem, the last son
  tree,    \* the blocks of each file by level, the root above; <<>> if none
  hdr,     \* free, droot, space, eod, eof, newspace of the device
  os,      \* the blocks the operating system has given room
  owed,    \* blocks chkspace has granted the request under way
  new,     \* the file BTCREATE has made and not yet named, or 0
  lost,    \* files made whose directory record never came
  rcv,     \* btrcvr: the file it recovers and how far it has read
  calls    \* changes to files so far

vars == <<disk, tree, hdr, os, owed, new, lost, rcv, calls>>

Blk == 1..MaxBlk
Empty == [root |-> 0, son |-> 0, lbro |-> 0, stem |-> FALSE, last |-> 0]
Blocks(t) == UNION {ToSet(t[l]) : l \in DOMAIN t}
Files == {r \in Blk : tree[r] # <<>>}
Idle == [old |-> 0, new |-> 0, at |-> 0, upto |-> 0, batch |-> {}, copied |-> FALSE,
         left |-> {}, need |-> {}]

-----------------------------------------------------------------------------
(* The links of the blocks of file r when its levels are t.                *)
Linked(r, t, b) ==
  LET l == CHOOSE i \in DOMAIN t : b \in ToSet(t[i])
      i == CHOOSE j \in DOMAIN t[l] : t[l][j] = b
      stem == l < Len(t)
      below == IF stem THEN t[l + 1] ELSE <<0>>
  IN [root |-> r, stem |-> stem,
      son |-> IF i = 1 THEN below[1] ELSE below[Len(below)],
      last |-> IF i = Len(t[l]) THEN below[Len(below)] ELSE below[1],
      lbro |-> IF i = 1 THEN 0 ELSE t[l][i - 1]]
Grown(r, t) == [b \in Blk |-> IF b \in Blocks(t) THEN Linked(r, t, b) ELSE disk[b]]

(* newblk: the block after the last, as long as the extent may grow (a      *)
(* single extent without an end is not tested: MaxBlk is a bound there).    *)
(* What was reserved stays reserved: newspace is not counted down.          *)
CanGrow == IF hdr.eof = 0 THEN hdr.eod < MaxBlk ELSE hdr.eod < hdr.eof
NewBlk == [hdr EXCEPT !.eod = @ + 1, !.space = IF hdr.eof # 0 THEN @ - 1 ELSE @]

(* Seeded fault: every block of the chain is taken to be deleted by itself. *)
TakenBySon ==
  [blk |-> hdr.free, hdr |-> [hdr EXCEPT !.free = disk[hdr.free].son, !.space = @ - 1], bad |-> FALSE]

(* btnew: the first block of the free list and the header without it.  The  *)
(* root of a block deleted with its file must be deleted, and is checked    *)
(* when it is not the one seen last (droot).                                *)
Taken ==
  LET b == disk[hdr.free]
      known == b.root = 0 \/ b.root = hdr.droot
      bad == ~known /\ disk[b.root].root # 0
  IN [blk |-> hdr.free, bad |-> bad,
      hdr |-> IF bad THEN [hdr EXCEPT !.free = 0, !.space = 0]
              ELSE [hdr EXCEPT !.space = @ - 1,
                               !.droot = IF known THEN @ ELSE b.root,
                               !.free = IF b.root = 0 THEN b.son ELSE b.lbro]]

-----------------------------------------------------------------------------
(* chkspace.                                                               *)

\* Reserving n more blocks after blk: they are written in turn until one has
\* no room, where the extent then ends.
Reserve(blk, n) ==
  LET room(m) == blk + m <= MaxBlk /\ Cardinality(os \union blk + 1 .. blk + m) <= Capacity
      wrote == CHOOSE m \in 0..n : (\A k \in 1..m : room(k)) /\ (m = n \/ ~room(m + 1))
      more == [hdr EXCEPT !.newspace = @ + wrote]
  IN [ok |-> wrote = n, os |-> os \union blk + 1 .. blk + wrote,
      hdr |-> IF wrote = n THEN more
              ELSE [more EXCEPT !.eof = blk + wrote, !.space = @ + blk + wrote - hdr.eod]]

Checked(n) ==
  LET known == hdr.space + hdr.newspace
  IN IF n <= known THEN [hdr |-> hdr, os |-> os, ok |-> TRUE]
     ELSE IF hdr.eof # 0 \/ hdr.eod + n > MaxBlk + hdr.space
     THEN [hdr |-> hdr, os |-> os, ok |-> FALSE]
     ELSE IF ~SafeEof THEN [hdr |-> hdr, os |-> os, ok |-> TRUE]
     ELSE Reserve(hdr.eod + hdr.newspace, n - known)

(* addrec: n blocks may be needed for a record, a file's or that of a new   *)
(* file.  chkspace posts BTERFULL, and BTCREATE is left where it is: the    *)
(* file made stays without a name.                                         *)
Ask(n) ==
  /\ owed = 0 /\ calls < MaxCalls
  /\ LET c == Checked(n)
     IN /\ hdr' = c.hdr /\ os' = c.os /\ owed' = IF c.ok THEN n ELSE 0
        /\ lost' = IF c.ok THEN lost ELSE lost \union ({new} \ {0})
  /\ new' = 0
  /\ calls' = calls + 1
  /\ UNCHANGED <<disk, tree, rcv>>

Answer == owed > 0 /\ owed' = 0 /\ UNCHANGED <<disk, tree, hdr, os, new, lost, rcv, calls>>

-----------------------------------------------------------------------------
(* btnew: block b becomes part of file r, whose levels are then t.         *)
Attach(b, r, t, h) ==
  /\ tree' = [tree EXCEPT ![r] = t]
  /\ disk' = Grown(r, t)
  /\ hdr' = h

\* A block at the right of a level, or a new level below the root.
Widen(b, h) ==
  \/ \E r \in Files : \E l \in 2..Len(tree[r]) :
       /\ l < Len(tree[r]) => Len(tree[r][l]) < Len(tree[r][l + 1])
       /\ Attach(b, r, [tree[r] EXCEPT ![l] = Append(@, b)], h)
  \/ \E r \in Files :
       /\ Len(tree[r]) < MaxTree
       /\ Attach(b, r, <<tree[r][1], <<b>> >> \o Tail(tree[r]), h)

Grow(b, h) ==
  /\ owed > 0 /\ owed' = owed - 1
  /\ Widen(b, h)
  /\ UNCHANGED <<os, new, lost, rcv, calls>>

\* creatfile takes the root of a new file without asking chkspace.
Create(b, h) ==
  /\ owed = 0 /\ new = 0 /\ calls < MaxCalls /\ new' = b
  /\ Busy \/ rcv = Idle
  /\ Attach(b, b, << <<b>> >>, h)
  /\ UNCHANGED <<os, owed, lost, rcv, calls>>

NewFromEnd ==
  /\ hdr.free = 0 /\ CanGrow
  /\ Grow(hdr.eod + 1, NewBlk) \/ Create(hdr.eod + 1, NewBlk)

NewFromFree ==
  /\ hdr.free # 0 /\ ~Taken.bad
  /\ Grow(Taken.blk, Taken.hdr) \/ Create(Taken.blk, Taken.hdr)

\* The modified blocks reach the disk, if there is room for them.
Backup ==
  /\ owed = 0 /\ ~(1..hdr.eod \subseteq os) /\ Cardinality(os \union 1..hdr.eod) <= Capacity
  /\ os' = os \union 1..hdr.eod
  /\ UNCHANGED <<disk, tree, hdr, owed, new, lost, rcv, calls>>

-----------------------------------------------------------------------------
(* btfree.                                                                 *)

\* What else a deleted block holds is never looked at.
Deleted(b) == [disk EXCEPT ![b] = [Empty EXCEPT !.son = hdr.free]]

\* One block that is not a root, with its file still there.
FreeBlock(r, l, i) ==
  /\ owed = 0 /\ new = 0 /\ calls < MaxCalls
  /\ l \in 2..Len(tree[r]) /\ i \in DOMAIN tree[r][l] /\ Len(tree[r][l]) > 1
  /\ Len(tree[r][l - 1]) < Len(tree[r][l])
  /\ LET b == tree[r][l][i]
         t == [tree[r] EXCEPT ![l] = RemoveAt(@, i)]
     IN /\ tree' = [tree EXCEPT ![r] = t]
        /\ disk' = [c \in Blk |-> IF c = b THEN Deleted(b)[c] ELSE Grown(r, t)[c]]
        /\ hdr' = [hdr EXCEPT !.free = b, !.space = @ + 1]
  /\ calls' = calls + 1
  /\ UNCHANGED <<os, owed, new, lost, rcv>>

\* Instant delete of file r: down[n] is where the loop is n levels below the
\* root, with the last block of that level and the first of the next.
Down(c) ==
  IF c.disk[c.free].stem
  THEN [disk |-> [c.disk EXCEPT ![c.left].lbro = c.free],
        free |-> c.disk[c.free].last, left |-> c.disk[c.left].son]
  ELSE c
Chained(r) ==
  LET down[n \in 0..MaxTree] ==
        IF n = 0 THEN [disk |-> disk, free |-> r, left |-> disk[r].son] ELSE Down(down[n - 1])
  IN down[MaxTree]

\* delfile with the last link, or BTCREATE when the name is there already.
Kill(r) ==
  /\ owed = 0 /\ calls < MaxCalls /\ r # 1 /\ r # rcv.new /\ r \notin lost
  /\ new \in {0, r} /\ new' = 0
  /\ LET c == Chained(r)
     IN /\ disk' = [c.disk EXCEPT ![r] = Deleted(r)[r]]
        /\ hdr' = [hdr EXCEPT !.free = c.free, !.space = @ + Cardinality(Blocks(tree[r]))]
  /\ tree' = [tree EXCEPT ![r] = <<>>]
  /\ calls' = calls + 1
  /\ UNCHANGED <<os, owed, lost, rcv>>

-----------------------------------------------------------------------------
(* fix/btfree: the header is cleared and every block of the unmounted       *)
(* filesystem looked at in turn.                                            *)

\* buftypex.
Type(d, b) ==
  CASE b = 0 -> "err" [] d[b].root = 0 -> "del" [] d[b].root = b -> "root" [] OTHER -> "node"

Del(st, b) == [st EXCEPT !.disk = [@ EXCEPT ![b] = [Empty EXCEPT !.son = st.free]],
                         !.free = b, !.space = @ + 1]

\* The type of a root is kept from when it was first asked for (btFS::type).
Sweep(st, b) ==
  LET r == st.disk[b].root
      seen == IF r \in DOMAIN st.types THEN st.types
              ELSE [x \in DOMAIN st.types \union {r} |-> IF x = r THEN Type(st.disk, r) ELSE st.types[x]]
  IN CASE Type(st.disk, b) = "del" -> Del(st, b)
       [] Type(st.disk, b) = "root" -> st
       [] OTHER -> IF seen[r] = "del" THEN Del([st EXCEPT !.types = seen], b)
                   ELSE [st EXCEPT !.types = seen]

Cleared ==
  [disk |-> disk, free |-> 0, types |-> <<>>, space |-> IF hdr.eof # 0 THEN hdr.eof - hdr.eod ELSE 0]
Swept ==
  LET swept[n \in 0..hdr.eod] == IF n = 0 THEN Cleared ELSE Sweep(swept[n - 1], n) IN swept[hdr.eod]

Rebuild ==
  /\ owed = 0 /\ new = 0 /\ rcv = Idle /\ calls < MaxCalls /\ 1..hdr.eod \subseteq os
  /\ disk' = Swept.disk
  /\ hdr' = [hdr EXCEPT !.free = Swept.free, !.droot = 0, !.space = Swept.space, !.newspace = 0]
  /\ calls' = calls + 1
  /\ UNCHANGED <<tree, os, owed, new, lost, rcv>>

-----------------------------------------------------------------------------
(* btrcvr in place.                                                        *)

\* The records of a file are in its last level.
Leaves(r) == ToSet(tree[r][Len(tree[r])])

\* setName: the directory record is removed as if it were data, so that the
\* file stays, and a new file takes its name.  recover opens the filesystem.
Disconnect(r, n) ==
  /\ owed = 0 /\ new = 0 /\ rcv = Idle /\ r # n /\ {r, n} \intersect (lost \union {1}) = {} /\ tree[n] = << <<n>> >>
  /\ rcv' = [Idle EXCEPT !.old = r, !.new = n, !.upto = hdr.eod,
                    !.left = Blocks(tree[r]), !.need = Leaves(r)]
  /\ tree' = [tree EXCEPT ![r] = <<>>]
  /\ UNCHANGED <<disk, hdr, os, owed, new, lost, calls>>

\* The old root is a deleted file's: its blocks are on the free list.
DisconnectDeleted(r, n) ==
  /\ Undelete /\ owed = 0 /\ new = 0 /\ rcv = Idle /\ n # 1 /\ tree[n] = << <<n>> >>
  /\ r # 1 /\ disk[r].root = 0 /\ \E b \in Blk : disk[b].root = r
  /\ rcv' = [Idle EXCEPT !.old = r, !.new = n, !.upto = hdr.eod]
  /\ UNCHANGED <<disk, tree, hdr, os, owed, new, lost, calls>>

\* get: the next blocks are read, Batch at a time.  Of those in the buffer
\* the ones with the old root are taken up, as they were when it was read.
Fill ==
  LET upto == rcv.at + Batch
  IN /\ rcv.old # 0 /\ rcv.batch = {} /\ rcv.at < rcv.upto
     /\ rcv' = [rcv EXCEPT !.at = upto,
                           !.batch = {b \in rcv.at + 1 .. upto :
                                        b <= rcv.upto /\ disk[b].root = rcv.old}]
     /\ UNCHANGED <<disk, tree, hdr, os, owed, new, lost, calls>>

Current == CHOOSE b \in rcv.batch : \A c \in rcv.batch : b <= c

\* donode: the records of a leaf are added to the new file.
Copy ==
  /\ rcv.batch # {} /\ ~rcv.copied
  /\ rcv' = [rcv EXCEPT !.need = @ \ {Current}, !.copied = TRUE]
  /\ UNCHANGED <<disk, tree, hdr, os, owed, new, lost, calls>>

\* rcvr::free, BTFREE: the block, a root or not, is freed by itself.
Freed ==
  /\ owed = 0 /\ new = 0
  /\ disk' = Deleted(Current)
  /\ hdr' = [hdr EXCEPT !.free = Current, !.space = @ + 1]
  /\ rcv' = [rcv EXCEPT !.batch = @ \ {Current}, !.left = @ \ {Current}, !.copied = FALSE]
  /\ UNCHANGED <<tree, os, owed, new, lost, calls>>

\* Seeded fault: the block may be freed before its records are in the new file.
FreeFirst == rcv.batch # {} /\ Freed
FreeCopied == rcv.copied /\ Freed

\* btrcvr is killed, and run again with the new file's name and the old root.
Again ==
  /\ rcv.old # 0 /\ owed = 0 /\ calls < MaxCalls
  /\ rcv' = [rcv EXCEPT !.at = 0, !.upto = hdr.eod, !.batch = {}, !.copied = FALSE]
  /\ calls' = calls + 1
  /\ UNCHANGED <<disk, tree, hdr, os, owed, new, lost>>

RecoveryEnds ==
  /\ rcv.old # 0 /\ rcv.batch = {} /\ rcv.at >= rcv.upto
  /\ rcv' = Idle
  /\ UNCHANGED <<disk, tree, hdr, os, owed, new, lost, calls>>

-----------------------------------------------------------------------------
\* btinit: a filesystem of one block, the root.
Init ==
  /\ tree = [r \in Blk |-> IF r = 1 THEN << <<1>> >> ELSE <<>>]
  /\ disk = [b \in Blk |-> IF b = 1 THEN [Empty EXCEPT !.root = 1] ELSE Empty]
  /\ \E s \in Sized :
       /\ hdr = [free |-> 0, droot |-> 0, eod |-> 1, eof |-> IF s THEN Capacity ELSE 0,
              space |-> IF s THEN Capacity - 1 ELSE 0, newspace |-> 0]
       /\ os = IF s THEN 1..Capacity ELSE {1}
  /\ new = 0 /\ lost = {} /\ owed = 0 /\ rcv = Idle /\ calls = 0

Next ==
  \/ \E n \in 0..2 : Ask(n)
  \/ Answer \/ NewFromEnd \/ NewFromFree
  \/ Backup
  \/ \E r \in Files : Kill(r) \/ \E l \in 2..MaxTree : \E i \in DOMAIN disk : FreeBlock(r, l, i)
  \/ Rebuild
  \/ \E n \in Files : (\E r \in Files : Disconnect(r, n)) \/ \E r \in Blk : DisconnectDeleted(r, n)
  \/ Fill \/ Copy \/ FreeCopied \/ Again \/ RecoveryEnds

Spec == Init /\ [][Next]_vars

-----------------------------------------------------------------------------
\* The free list as btnew will take it, at most one more than there are blocks.
After(b) == IF disk[b].root = 0 THEN disk[b].son ELSE disk[b].lbro
Listed ==
  LET at[n \in 0..MaxBlk] == IF n = 0 THEN hdr.free ELSE IF at[n - 1] = 0 THEN 0 ELSE After(at[n - 1])
  IN [i \in 1..Cardinality({n \in 0..MaxBlk : at[n] # 0}) |-> at[i - 1]]

(* BlockCache::btnew, btfree; fix/btfree: every block up to eod is in one   *)
(* file, or left of the one under recovery, or once on the free list; and   *)
(* space is what is listed and what the extent may still grow by.           *)
FreeExact ==
  LET list == Listed
      live == UNION {Blocks(tree[r]) : r \in Files}
  IN /\ Len(list) = Cardinality(ToSet(list))
     /\ ToSet(list) \union live \union rcv.left = 1..hdr.eod
     /\ ToSet(list) \intersect (live \union rcv.left) = {}
     /\ hdr.space = Len(list) + IF hdr.eof # 0 THEN hdr.eof - hdr.eod ELSE 0

(* BlockCache::btnew: a block deleted with its file is taken before its     *)
(* root is, so the root is always found deleted, and btnew does not give    *)
(* up the free list (BTERFREE).                                             *)
RootsTakenLast == hdr.free # 0 => ~Taken.bad

(* rcvr: until they are in the new file, the records of a file under        *)
(* recovery stay in blocks with the old root, where another run finds them. *)
RecordsStay == \A b \in rcv.need : disk[b].root = rcv.old

(* DEV::chkspace writes the blocks it grants past the end ("new space has   *)
(* been preallocated"), so that a request under way never takes one that    *)
(* the device may have no room for.                                        *)
GrantsBacked ==
  [][SafeEof /\ owed > 0 /\ hdr'.eod > hdr.eod => hdr'.eod \in os]_vars

(* btas.c, BTCREATE: "unlink if can't add record".                         *)
NoLostFile == lost = {}
=============================================================================

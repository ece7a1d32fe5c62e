-------------------------------- MODULE BTree --------------------------------
(***************************************************************************)
(* The B-tree of one file: btree.c (bttrace::trace, add, del, insert and   *)
(* getkey) under the requests of btkey.c that change it (addrec, delrec,   *)
(* replace), on the node operations of node.c, insert.c and find.c.        *)
(*                                                                         *)
(* Records are kept in descending order; the first of a node is slot 1.    *)
(* A stem record holds a separator and the block of the keys below it;     *)
(* slot 0 of a stem is its son, the keys not below the first separator.    *)
(* The root never moves.  One step is one turn of the loop of add or del:  *)
(* a change of the tree climbs from the leaf along the path that trace     *)
(* left on the level stack, and add calls itself when a separator that     *)
(* grew does not fit where it was.                                         *)
(*                                                                         *)
(* A string is a tuple of digits, each of which stands for a run of bytes  *)
(* that is one unit of length and differs from another in its last byte.   *)
(* What a record takes in a node is what it takes there: its length, less  *)
(* what it shares with the next lower record, plus Over.                   *)
(***************************************************************************)
EXTENDS Integers, Sequences, SequencesExt, FiniteSetsExt

CONSTANTS
  Recs,        \* bound: the records of a file, as a key and the length of the rest;
               \* the keys are tuples of the same length
  NodeCap,     \* units of data in a node,
  RootCap,     \* and in the root, which also holds the btstat of the file
  Over,        \* a record's entry in the offset table and its dup byte
  PtrLen,      \* the block number at the end of a stem record
  NBlocks,     \* bound: blocks of the filesystem
  MaxLev       \* MAXLEV: levels on the stack

\* No request is longer than BLOCK::maxrec, half a node.
ASSUME BTreeAssumption ==
  /\ {NodeCap, RootCap, NBlocks, MaxLev} \subseteq Nat \ {0} /\ RootCap <= NodeCap
  /\ {Over, PtrLen} \subseteq Nat
  /\ \A r \in Recs : r[2] \in Nat /\ 2 * (Len(r[1]) + r[2] + Over) <= NodeCap

VARIABLES
  node,        \* the blocks: root is 0 in one that is free
  stack, sp,   \* the level stack of bttrace, node and slot per level, and the level
  pc,          \* where the server is: idle, in add, in del, returned from them,
               \* or out by longjmp: an assert failed, or BTERFULL
  urec,        \* the record add is to insert
  frames,      \* for each split under way, what is left to do when add returns
  op,          \* the request: its name, and what it adds to the record count
  stat,        \* rcnt and bcnt of the btstat in the root
  newcnt,      \* BlockCache::newcnt: blocks the request has taken, less those it freed
  room,        \* free blocks of the filesystem when the request began
  file         \* history: what the file holds, Absent or the length of the rest

vars == <<node, stack, sp, pc, urec, frames, op, stat, newcnt, room, file>>

Root == 1
Nil == 0
Absent == -1
Block == Root..NBlocks
Keys == {r[1] : r \in Recs}
Exts(k) == {r[2] : r \in {x \in Recs : x[1] = k}}

-----------------------------------------------------------------------------
(* Strings and records *)

Record(s, e, b) == [str |-> s, ext |-> e, ptr |-> b]
None == Record(<<>>, 0, Nil)

\* Leading digits two strings share: blkcmp.
Common(s, t) ==
  LET same[n \in 0..Len(s)] ==
        IF n < Len(s) /\ n < Len(t) /\ s[n + 1] = t[n + 1] THEN same[n + 1] ELSE n
  IN  same[0]

Less(s, t) == LET n == Common(s, t)
              IN  n < Len(t) /\ (n < Len(s) => s[n + 1] < t[n + 1])

Size(r) == Len(r.str) + r.ext + (IF r.ptr = Nil THEN 0 ELSE PtrLen)

-----------------------------------------------------------------------------
(* Nodes: sequences of records *)

Cap(b) == IF b = Root THEN RootCap ELSE NodeCap

\* Units the first n records take, each less what it shares with the next.
Used(recs, n) ==
  LET shared(i) == IF i < Len(recs) THEN Common(recs[i].str, recs[i + 1].str) ELSE 0
      sum[i \in 0..n] == IF i = 0 THEN 0 ELSE sum[i - 1] + Size(recs[i]) + Over - shared(i)
  IN  sum[n]

Free(b, recs, n) == Cap(b) - Used(recs, n)
Fits(b, recs) == Used(recs, Len(recs)) <= Cap(b)
HalfFree(b, recs) == Free(b, recs, Len(recs)) >= Cap(b) \div 2

Put(recs, idx, more) == SubSeq(recs, 1, idx) \o more \o SubSeq(recs, idx + 1, Len(recs))
Drop(recs, n) == SubSeq(recs, n + 1, Len(recs))
Keep(recs, n) == SubSeq(recs, 1, n)

\* How many of the first n records of src BLOCK::move gets into node b after idx.
Movable(b, recs, idx, src, n) ==
  Max({m \in 0..n : Fits(b, Put(recs, idx, Keep(src, m)))})

\* The records before slot: those BLOCK::find passes over, in direction dir
\* (1: a partial key is below the records it begins, -1: above them).
Find(recs, stem, key, dir) ==
  Cardinality({i \in DOMAIN recs :
                 IF IsPrefix(key, recs[i].str)
                 THEN dir > 0 /\ ~(stem /\ recs[i].str = key)
                 ELSE Less(key, recs[i].str)})

-----------------------------------------------------------------------------
(* The tree *)

\* The block slot i of stem b leads to.
Child(nd, b, i) == IF i = 0 THEN nd[b].son ELSE nd[b].recs[i].ptr

\* The level stack bttrace::trace leaves for a key.
Trace(nd, key, dir) ==
  LET Step(b) == [node |-> b, slot |-> Find(nd[b].recs, nd[b].stem, key, dir)]
      path[i \in 1..MaxLev] ==
        IF i = 1 THEN <<Step(Root)>>
        ELSE LET up == path[i - 1]
             IN  IF nd[Last(up).node].stem
                 THEN Append(up, Step(Child(nd, Last(up).node, Last(up).slot)))
                 ELSE up
  IN  path[MaxLev]

\* Blocks btnew has left.
Left == room - newcnt
FreeBlocks(nd) == {b \in Block : ~nd[b].used}
FreeNode == [used |-> FALSE, stem |-> FALSE, son |-> Nil, lbro |-> Nil, recs |-> <<>>]
\* A node of btnew; son is also rbro, which a leaf has in its place.
NewNode(stem, son, lbro, recs) ==
  [used |-> TRUE, stem |-> stem, son |-> son, lbro |-> lbro, recs |-> recs]

\* bttrace::insert: r after position idx of node c, or at the end of its left
\* brother b when idx is not positive; up and dn are the records of b and c.
Placed(b, up, c, dn, idx, r) ==
  LET end == Put(up, idx + Len(up), <<r>>)
      mid == Put(dn, idx, <<r>>)
      left == idx <= 0 /\ Fits(b, end)
  IN  IF left \/ idx < 0
      THEN [ok |-> left, up |-> IF left THEN end ELSE up, dn |-> dn,
            at |-> IF idx < 0 THEN [node |-> b, slot |-> idx + Len(end)]
                              ELSE [node |-> c, slot |-> 0]]
      ELSE LET ok == Fits(c, mid)
           IN  [ok |-> ok, up |-> up, dn |-> IF ok THEN mid ELSE dn,
                at |-> [node |-> c, slot |-> IF ok THEN idx + 1 ELSE idx]]

\* bttrace::getkey: the shortest string that tells node b from c, the next lower
\* one; between stems the last record of b moves up and its block becomes c's son.
KeyFound(nd, b, c) == IF nd[c].stem THEN Len(nd[b].recs) > 1
                                    ELSE nd[b].recs # <<>> /\ nd[c].recs # <<>>
KeyOf(nd, b, c) ==
  LET s == Last(nd[b].recs).str
  IN  IF nd[c].stem THEN s ELSE Keep(s, Common(s, nd[c].recs[1].str) + 1)
Divided(nd, b, c) ==
  IF nd[c].stem THEN [nd EXCEPT ![b].recs = Front(@), ![c].son = Last(nd[b].recs).ptr]
                ELSE nd

\* BLOCK::replace of record i of node b by r: deleted, then inserted if it fits.
Deleted(nd, b, i) == [nd EXCEPT ![b].recs = RemoveAt(@, i)]
Inserted(nd, b, i, r) == [nd EXCEPT ![b].recs = Put(@, i, <<r>>)]
Replaced(nd, b, i, r) ==
  LET in == Inserted(Deleted(nd, b, i), b, i - 1, r)
      fits == Fits(b, in[b].recs)
  IN  [fits |-> fits, nd |-> IF fits THEN in ELSE Deleted(nd, b, i)]

-----------------------------------------------------------------------------
(* bttrace::add *)

Np == stack[sp].node
Adding == pc = "add"
\* The level of the ancestor whose separator is between this node and its left brother.
DadLevel == Max({l \in 1..sp - 1 : stack[l].slot > 0})

\* Seeded fault: the record that goes beyond the half stays on the left with the new one.
RootMore(recs, idx) ==
  IF Len(recs) <= 2 THEN 1
  ELSE Min({j \in 0..Len(recs) : j = Len(recs) \/ Free(Np, recs, j) <= Cap(Np) \div 2})

\* The root is split below itself.  How many of its records go left:
RootHalf(recs, idx) ==
  LET n == Len(recs)
      i == CASE n = 1 -> idx
             [] n = 2 -> 1
             [] OTHER -> Min({j \in 0..n : j = n \/ Free(Np, recs, j) <= Cap(Np) \div 2})
  IN  IF i > idx THEN i - 1 ELSE i

SplitRoot ==
  /\ Adding /\ sp = 1 /\ Left >= 2
  /\ LET b == Min(FreeBlocks(node))
         a == Min(FreeBlocks(node) \ {b})
         n == node[Np]
         i == RootHalf(n.recs, stack[1].slot)
         pl == Placed(b, Keep(n.recs, i), a, Drop(n.recs, i), stack[1].slot - i, urec)
         split == [node EXCEPT ![b] = NewNode(n.stem, IF n.stem THEN n.son ELSE a, Nil, pl.up),
                               ![a] = NewNode(n.stem, Nil, b, pl.dn)]
         fine == pl.ok /\ KeyFound(split, b, a)
     IN  /\ node' = IF ~fine THEN split
                    ELSE [Divided(split, b, a) EXCEPT
                            ![Np] = [n EXCEPT !.stem = TRUE, !.son = b,
                                              !.recs = <<Record(KeyOf(split, b, a), 0, a)>>]]
         /\ stack' = [stack EXCEPT ![1] = pl.at]
         /\ pc' = IF fine THEN "return" ELSE "assert"
         /\ newcnt' = newcnt + 2
  /\ UNCHANGED <<sp, urec, frames, op, stat, room, file>>

\* The node and its left brother after as much as fits has moved left: the
\* separator of their dad, if they are stems, and the records before the new one.
Bp == node[Np].lbro
Leaned ==
  LET n == node[Np]
      dadrec == Record(node[stack[DadLevel].node].recs[stack[DadLevel].slot].str, 0, n.son)
      with == Append(node[Bp].recs, dadrec)
      dad == ~n.stem \/ Fits(Bp, with)
      up == IF n.stem /\ dad THEN with ELSE node[Bp].recs
      m == IF dad THEN Movable(Bp, up, Len(up), n.recs, stack[sp].slot) ELSE 0
  IN  [dad |-> dad, dadrec |-> dadrec, up |-> up \o Keep(n.recs, m), dn |-> Drop(n.recs, m),
       idx |-> stack[sp].slot - m]
LeanedPlaced(ln) == Placed(Bp, ln.up, Np, ln.dn, ln.idx, urec)
HasLeft == Adding /\ sp > 1 /\ Bp # Nil
\* What add asserts of them: leaves that are brothers are linked both ways.
Linked == ~node[Np].stem => node[Bp].son = Np

\* The record fits when the two brothers have been evened out.
Rotate ==
  /\ HasLeft
  /\ LET ln == Leaned
         pl == LeanedPlaced(ln)
         d == DadLevel
         dp == stack[d].node
         i == stack[d].slot
         two == [node EXCEPT ![Bp].recs = pl.up, ![Np].recs = pl.dn]
         key == Record(KeyOf(two, Bp, Np), 0, stack[d + 1].node)
         sep == Replaced(Divided(two, Bp, Np), dp, i, key)
     IN  /\ ln.dad /\ pl.ok
         /\ IF Linked /\ KeyFound(two, Bp, Np)
            THEN /\ node' = sep.nd
                 /\ urec' = IF sep.fits THEN urec ELSE key
                 /\ pc' = IF sep.fits THEN "return" ELSE "add"
                 /\ stack' = [stack EXCEPT ![sp] = pl.at, ![d].slot = IF sep.fits THEN i ELSE i - 1]
                 /\ sp' = d
            ELSE pc' = "assert" /\ node' = two /\ UNCHANGED <<stack, sp, urec>>
  /\ UNCHANGED <<frames, op, stat, newcnt, room, file>>

\* Records of the left brother that stay there when a node comes between.
LeftKept(up) ==
  LET limit == Cap(Bp) \div 2 - Size(urec) + Free(Bp, up, Len(up))
      i == Max({j \in 0..Len(up) : j = 0 \/ Free(Bp, up, j) >= limit})
  IN  IF i + 1 < Len(up) THEN i + 1 ELSE Len(up)

\* What a node a between the two takes of both, and the new record's place.
Between(ln, a) ==
  LET keep == LeftKept(ln.up)
      taken == Drop(ln.up, keep) \o (IF ln.dad THEN <<>> ELSE <<ln.dadrec>>)
      m == Movable(a, taken, Len(taken), ln.dn, ln.idx)
      pl == Placed(a, taken \o Keep(ln.dn, m), Np, Drop(ln.dn, m), ln.idx - m, urec)
  IN  [left |-> Keep(ln.up, keep), mid |-> pl.up, right |-> pl.dn, at |-> pl.at,
       ok |-> Fits(a, taken) /\ pl.ok]

\* It does not: a node comes between them.  The separator of the left one is
\* replaced, by another add if need be; Resume enters that of the new node.
SplitTwo ==
  /\ HasLeft
  /\ ~(Leaned.dad /\ LeanedPlaced(Leaned).ok)
  /\ Left > 0
  /\ \E a \in {Min(FreeBlocks(node))} : \E bt \in {Between(Leaned, a)} :
     LET stem == node[Np].stem
         d == DadLevel
         i == stack[d].slot
         three == [node EXCEPT ![a] = NewNode(stem, IF stem THEN Nil ELSE Np, Bp, bt.mid),
                               ![Bp].recs = bt.left, ![Bp].son = IF stem THEN @ ELSE a,
                               ![Np].recs = bt.right, ![Np].lbro = a]
         key == Record(KeyOf(three, Bp, a), 0,
                       IF stack[sp - 1].slot > 0 THEN a ELSE stack[d + 1].node)
         sep == Replaced(Divided(three, Bp, a), stack[d].node, i, key)
         fine == /\ Linked /\ bt.ok /\ KeyFound(three, Bp, a)
                 /\ stack[sp - 1].slot = 0 => Child(node, stack[d].node, i) = stack[d + 1].node
     IN  /\ node' = IF fine THEN sep.nd ELSE three
         /\ frames' = Append(frames, [lev |-> sp - 1, ap |-> a, np |-> Np, nested |-> ~sep.fits])
         /\ stack' = [stack EXCEPT ![sp] = bt.at, ![d].slot = IF sep.fits THEN i ELSE i - 1]
         /\ sp' = IF sep.fits THEN sp - 1 ELSE d
         /\ urec' = IF sep.fits THEN urec ELSE key
         /\ pc' = IF ~fine THEN "assert" ELSE IF sep.fits THEN "return" ELSE "add"
         /\ newcnt' = newcnt + 1
  /\ UNCHANGED <<op, stat, room, file>>

\* There is no left brother: a node to the left takes the records before the new one.
SplitFirst ==
  /\ Adding /\ sp > 1 /\ Bp = Nil /\ Left > 0
  /\ LET a == Min(FreeBlocks(node))
         n == node[Np]
         idx == stack[sp].slot
         least == IF n.stem THEN 1 ELSE 0
         i == Min({j \in least..Max({least, idx}) : j >= idx \/ Free(Np, n.recs, j) <= NodeCap \div 2})
         pl == Placed(a, Keep(n.recs, i), Np, Drop(n.recs, i), idx - i, urec)
     IN  /\ node' = [node EXCEPT ![a] = NewNode(n.stem, IF n.stem THEN n.son ELSE Np, Nil, pl.up),
                                 ![Np].recs = pl.dn, ![Np].lbro = a]
         /\ frames' = Append(frames, [lev |-> sp - 1, ap |-> a, np |-> Np, nested |-> FALSE])
         /\ stack' = [stack EXCEPT ![sp] = pl.at]
         /\ pc' = IF pl.ok /\ stack[sp - 1].slot = 0 THEN "return" ELSE "assert"
         /\ newcnt' = newcnt + 1
  /\ sp' = sp - 1
  /\ UNCHANGED <<urec, op, stat, room, file>>

\* The rest of the turn that made a new node: its dad gets the separator between
\* it and the node it was split from, or has itself to be split for it.
Resume ==
  /\ pc = "return" /\ frames # <<>>
  /\ LET f == Last(frames)
         dp == stack[f.lev].node
         i == stack[f.lev].slot
         key == Record(KeyOf(node, f.ap, f.np), 0, f.np)
         nd == [Divided(node, f.ap, f.np) EXCEPT ![dp].son = IF i = 0 THEN f.ap ELSE @]
         fits == Fits(dp, Put(nd[dp].recs, i, <<key>>))
         fine == /\ f.nested => stack[f.lev + 1].node = f.np
                 /\ i <= Len(nd[dp].recs)
     IN  IF KeyFound(node, f.ap, f.np) /\ fine
         THEN /\ node' = IF fits THEN Inserted(nd, dp, i, key) ELSE nd
              /\ stack' = IF fits THEN [stack EXCEPT ![f.lev].slot = i + 1] ELSE stack
              /\ urec' = IF fits THEN urec ELSE key
              /\ pc' = IF fits THEN "return" ELSE "add"
              /\ sp' = f.lev
         ELSE pc' = "assert" /\ UNCHANGED <<node, stack, urec, sp>>
  /\ frames' = Front(frames)
  /\ UNCHANGED <<op, stat, newcnt, room, file>>

\* btnew finds no block: the request ends with what it has done so far.
Full ==
  /\ Adding
  /\ Left < (IF sp = 1 THEN 2 ELSE 1)
  /\ HasLeft => ~(Leaned.dad /\ LeanedPlaced(Leaned).ok)
  /\ node' = IF HasLeft THEN [node EXCEPT ![Bp].recs = Leaned.up, ![Np].recs = Leaned.dn]
             ELSE IF Left = 1 THEN [node EXCEPT ![Min(FreeBlocks(node))] = NewNode(node[Np].stem, Nil, Nil, <<>>)]
             ELSE node
  /\ pc' = "full"
  /\ UNCHANGED <<stack, sp, urec, frames, op, stat, newcnt, room, file>>

-----------------------------------------------------------------------------
(* bttrace::del *)

\* The node that is half empty and a brother under the same dad, the right one
\* if there is one: up is the left of the two, dn the right, i the separator
\* in dp between them.  If they are stems it comes down into one of them.
Brothers ==
  LET dp == stack[sp - 1].node
      right == stack[sp - 1].slot < Len(node[dp].recs)
      i == IF right THEN stack[sp - 1].slot + 1 ELSE stack[sp - 1].slot
      b == IF right THEN Np ELSE node[Np].lbro
      c == IF right THEN node[dp].recs[i].ptr ELSE Np
      dadrec == Record(node[dp].recs[i].str, 0, node[c].son)
      left == Append(node[b].recs, dadrec)
      first == <<dadrec>> \o node[c].recs
      stem == node[b].stem
      down == stem /\ ~Fits(b, left)
  IN  [dp |-> dp, i |-> i, b |-> b, c |-> c, stem |-> stem,
       bfree |-> Free(b, node[b].recs, Len(node[b].recs)),
       up |-> IF stem /\ ~down THEN left ELSE node[b].recs,
       dn |-> IF ~down THEN node[c].recs
              ELSE IF Fits(c, first) THEN first
              ELSE [node[c].recs EXCEPT ![1].ptr = node[c].son]]

\* What the two take together fits in one node, or in the dad if it is the root.
Joins(br) == Used(br.up, Len(br.up)) + Used(br.dn, Len(br.dn)) <= Cap(br.dp)
\* Seeded fault: it is done again.
Stay == sp

\* del's loop has done with a level.
Up == sp - 1
Deleting == pc = "del" /\ sp > 1

\* del goes on with the dad if that is half empty now.
Climb(nd, dp) == IF HalfFree(dp, nd[dp].recs) THEN "del" ELSE "return"

\* Seeded fault: that leaf goes on to the freed block.
RelinkedNot(nd, n, c) == nd

\* The leaf before the left one is linked to the block that is left of the two.
Relinked(nd, n, c) ==
  IF ~n.stem /\ n.lbro # Nil THEN [nd EXCEPT ![n.lbro].son = c] ELSE nd

\* The two become one, in the block of the right one: stems have no link by
\* which the node to its right could be told of another.
Merge ==
  /\ Deleting /\ Joins(Brothers)
  /\ LET br == Brothers
         n == node[br.b]
         out == Deleted(node, br.dp, br.i)
         joined == IF n.stem THEN [n EXCEPT !.recs = br.up \o br.dn]
                   ELSE [n EXCEPT !.recs = br.up \o br.dn, !.son = node[br.c].son]
         linked == [out EXCEPT ![br.c] = joined, ![br.b] = FreeNode]
         left == Relinked(linked, n, br.c)
         nd == IF br.i > 1 THEN [left EXCEPT ![br.dp].recs[br.i - 1].ptr = br.c]
                           ELSE [left EXCEPT ![br.dp].son = br.c]
     IN  /\ ~(br.dp = Root /\ out[Root].recs = <<>>)
         /\ node' = nd
         /\ stack' = [stack EXCEPT ![sp - 1].slot = br.i - 1]
         /\ pc' = Climb(nd, br.dp)
  /\ sp' = Up
  /\ newcnt' = newcnt - 1
  /\ UNCHANGED <<urec, frames, op, stat, room, file>>

\* They were all the root had: it takes their records itself.
Collapse ==
  /\ Deleting /\ Joins(Brothers)
  /\ LET br == Brothers
     IN  /\ br.dp = Root /\ Len(node[Root].recs) = 1
         /\ node' = [node EXCEPT ![Root] = [@ EXCEPT !.recs = br.up \o br.dn,
                                                     !.son = IF br.stem THEN node[br.b].son ELSE Nil,
                                                     !.stem = br.stem],
                                 ![br.b] = FreeNode, ![br.c] = FreeNode]
         /\ stack' = [stack EXCEPT ![sp - 1].slot = br.i]
  /\ pc' = "return"
  /\ sp' = Up
  /\ newcnt' = newcnt - 2
  /\ UNCHANGED <<urec, frames, op, stat, room, file>>

\* Or they are evened out: the shares of the left and of the right one.
Shares(br) ==
  LET nfree == Free(br.c, br.dn, Len(br.dn))
      half == (nfree + br.bfree) \div 2
      some == Min({j \in 0..Len(br.dn) : Free(br.c, br.dn, j) <= half + NodeCap - br.bfree})
      m == Movable(br.b, br.up, Len(br.up), br.dn, some)
      keep == 1 + Max({j \in 0..Len(br.up) - 1 : Free(br.b, br.up, j) >= half})
  IN  IF nfree < br.bfree \/ Len(br.up) < 2
      THEN <<br.up \o Keep(br.dn, m), Drop(br.dn, m)>>
      ELSE <<Keep(br.up, keep), Drop(br.up, keep) \o br.dn>>

\* The separator between them is replaced, by add if it is too long for the dad.
EvenOut ==
  /\ Deleting /\ ~Joins(Brothers)
  /\ LET br == Brothers
         two == [node EXCEPT ![br.b].recs = Shares(br)[1], ![br.c].recs = Shares(br)[2]]
         key == Record(KeyOf(two, br.b, br.c), 0, br.c)
         sep == Replaced(Divided(two, br.b, br.c), br.dp, br.i, key)
         fine == /\ two[br.b].recs # <<>> /\ two[br.c].recs # <<>>
                 /\ Fits(br.c, two[br.c].recs) /\ KeyFound(two, br.b, br.c)
     IN  /\ node' = IF fine THEN sep.nd ELSE two
         /\ stack' = [stack EXCEPT ![sp - 1].slot = IF sep.fits THEN br.i ELSE br.i - 1]
         /\ urec' = IF sep.fits THEN urec ELSE key
         /\ pc' = IF ~fine THEN "assert" ELSE IF sep.fits THEN Climb(sep.nd, br.dp) ELSE "add"
  /\ sp' = Up
  /\ UNCHANGED <<frames, op, stat, newcnt, room, file>>

\* A root may be short.
DelRoot ==
  /\ pc = "del" /\ sp = 1
  /\ pc' = "return"
  /\ UNCHANGED <<node, stack, sp, urec, frames, op, stat, newcnt, room, file>>

-----------------------------------------------------------------------------
(* The requests *)

\* Seeded fault: the root is split into one new node.
NeededOne(path) == Len(path) - 1 + 1

\* bttrace::needed: what chkspace, asked before a change, wants free for it.
Needed(path) == Len(path) - 1 + 2

LeafOf(path) == Last(path).node
SlotOf(path) == Last(path).slot
\* The trace of a whole key ends at its record, if the file has one.
Matches(nd, path, k) ==
  SlotOf(path) > 0 /\ nd[LeafOf(path)].recs[SlotOf(path)].str = k

\* Every request starts from an idle server and is over, or leaves add or del to do.
Begin(path, nd, next, r, delta, free) ==
  /\ node' = nd
  /\ stack' = path /\ sp' = Len(path)
  /\ pc' = next
  /\ urec' = r
  /\ op' = delta
  /\ room' = IF next = "return" THEN 0 ELSE free
  /\ UNCHANGED <<frames, stat, newcnt>>

\* btfile::addrec.
AddRec(k, e, path, free) ==
  /\ LET leaf == LeafOf(path)
         r == Record(k, e, Nil)
         nd == Inserted(node, leaf, SlotOf(path), r)
         fits == Fits(leaf, nd[leaf].recs)
     IN  /\ ~Matches(node, path, k)
         /\ fits \/ Needed(path) <= free
         /\ Begin(path, IF fits THEN nd ELSE node, IF fits THEN "return" ELSE "add", r, 1, free)
  /\ file' = [file EXCEPT ![k] = e]

\* btfile::delrec of the record btfile::uniquekey finds.
DelRec(k, path, free) ==
  /\ LET leaf == LeafOf(path)
         nd == Deleted(node, leaf, SlotOf(path))
     IN  /\ Matches(node, path, k)
         /\ Begin(path, nd, IF HalfFree(leaf, nd[leaf].recs) THEN "del" ELSE "return", None, -1, free)
  /\ file' = [file EXCEPT ![k] = Absent]

\* btfile::replace.
Replace(k, e, path, free) ==
  /\ LET leaf == LeafOf(path)
         i == SlotOf(path)
         re == Replaced(node, leaf, i, Record(k, e, Nil))
     IN  /\ Matches(node, path, k)
         /\ Needed(path) <= free
         /\ IF re.fits
            THEN Begin(path, re.nd, IF HalfFree(leaf, re.nd[leaf].recs) THEN "del" ELSE "return", None, 0, free)
            ELSE Begin([path EXCEPT ![Len(path)].slot = i - 1], re.nd, "add", Record(k, e, Nil), 0, free)
  /\ file' = [file EXCEPT ![k] = e]

\* Seeded fault: the blocks a delete has freed are not counted.
FinishAdds ==
  /\ pc = "return" /\ frames = <<>>
  /\ stat' = [rcnt |-> stat.rcnt + op, bcnt |-> IF op < 0 THEN stat.bcnt ELSE stat.bcnt + newcnt]
  /\ newcnt' = 0 /\ room' = 0 /\ op' = 0
  /\ stack' = <<>> /\ sp' = 0 /\ urec' = None
  /\ pc' = "idle"
  /\ UNCHANGED <<node, frames, file>>

\* The end of each of them: the btstat in the root.
Finish ==
  /\ pc = "return" /\ frames = <<>>
  /\ stat' = [rcnt |-> stat.rcnt + op, bcnt |-> stat.bcnt + newcnt]
  /\ newcnt' = 0 /\ room' = 0 /\ op' = 0
  /\ stack' = <<>> /\ sp' = 0 /\ urec' = None
  /\ pc' = "idle"
  /\ UNCHANGED <<node, frames, file>>

Init ==
  /\ node = [b \in Block |-> IF b = Root THEN NewNode(FALSE, Nil, Nil, <<>>) ELSE FreeNode]
  /\ stack = <<>> /\ sp = 0
  /\ pc = "idle" /\ urec = None /\ frames = <<>> /\ op = 0
  /\ stat = [rcnt |-> 0, bcnt |-> 1] /\ newcnt = 0 /\ room = 0
  /\ file = [k \in Keys |-> Absent]

Add == SplitRoot \/ Rotate \/ SplitTwo \/ SplitFirst \/ Resume \/ Full
Del == Merge \/ Collapse \/ EvenOut \/ DelRoot
\* Each of the requests begins with a trace of its key, on a filesystem where
\* other files have left just enough blocks for chkspace to let it go on, or none.
Request ==
  /\ pc = "idle"
  /\ \E k \in Keys :
       LET path == Trace(node, k, 1)
       IN  \E free \in {0, Needed(path)} :
             /\ free <= Cardinality(FreeBlocks(node))
             /\ \/ \E e \in Exts(k) : AddRec(k, e, path, free) \/ Replace(k, e, path, free)
                \/ DelRec(k, path, free)

\* The server takes no more of a file that a request left half changed.
Stopped == pc \in {"assert", "full"} /\ UNCHANGED vars

Next == Request \/ Add \/ Del \/ Finish \/ Stopped

Spec == Init /\ [][Next]_vars

-----------------------------------------------------------------------------
(* Reads, of an idle server: they change nothing *)

\* The record before or after slot i of a leaf: on the next leaf if need be.
At(recs, i) == IF i \in DOMAIN recs THEN recs[i] ELSE None
LeftOf(b, i) ==
  IF i > 1 THEN node[b].recs[i - 1]
  ELSE IF b = Root \/ node[b].lbro = Nil THEN None
  ELSE At(node[node[b].lbro].recs, Len(node[node[b].lbro].recs))
RightOf(b, i) ==
  IF i < Len(node[b].recs) THEN node[b].recs[i + 1]
  ELSE IF b = Root \/ node[b].son = Nil THEN None ELSE At(node[node[b].son].recs, 1)

\* BTREADGE and BTREADLE.
ReadGE(k) == LET path == Trace(node, k, 1) IN LeftOf(LeafOf(path), SlotOf(path) + 1)
ReadLE(k) == LET path == Trace(node, k, -1) IN RightOf(LeafOf(path), SlotOf(path))

-----------------------------------------------------------------------------
(* Properties *)

Idle == pc = "idle"
Held == {k \in Keys : file[k] # Absent}
Above(k) == {x \in Held : Less(k, x)}
Below(k) == {x \in Held : Less(x, k)}
Lowest(S) == IF S = {} THEN <<>> ELSE CHOOSE x \in S : \A y \in S \ {x} : Less(x, y)
Highest(S) == IF S = {} THEN <<>> ELSE CHOOSE x \in S : \A y \in S \ {x} : Less(y, x)

\* No node holds more than its block can, a free block is in no node's place,
\* and the level stack has room for the tree.
TypeOK ==
  /\ pc \in {"idle", "add", "del", "return", "assert", "full"}
  /\ \A b \in Block : IF node[b].used THEN Fits(b, node[b].recs) ELSE node[b] = FreeNode
  /\ sp \in 0..Len(stack) /\ Len(stack) <= MaxLev

\* Whatever splits, rotations and merges a history of requests has gone through,
\* between two requests a record is found by its key if the file holds it, with
\* the contents last written, and not if it does not.
EveryKeyFound ==
  Idle => \A k \in Keys :
            LET path == Trace(node, k, 1)
            IN  IF file[k] = Absent THEN ~Matches(node, path, k)
                ELSE /\ Matches(node, path, k)
                     /\ node[LeafOf(path)].recs[SlotOf(path)].ext = file[k]

\* A read by order answers the nearest record: BTREADGE and BTREADLE from any
\* key, and BTREADGT and BTREADLT from the slot a client's BTCB has cached,
\* wherever requests of others have moved that record since.
ReadsInOrder ==
  Idle => /\ \A k \in Keys :
               /\ ReadGE(k).str = Lowest(Held \ Below(k))
               /\ ReadLE(k).str = Highest(Held \ Above(k))
          /\ \A b \in Block : node[b].used /\ ~node[b].stem =>
               \A i \in DOMAIN node[b].recs :
                 /\ LeftOf(b, i).str = Lowest(Above(node[b].recs[i].str))
                 /\ RightOf(b, i).str = Highest(Below(node[b].recs[i].str))

\* KeysRead: reads find every key of the file and no other, in order, whatever
\* splits, evenings out and deletes came before them.
KeysRead == EveryKeyFound /\ ReadsInOrder

\* The blocks of a level of the tree, from left to right.
Level(n) ==
  LET sons(b) == IF ~node[b].stem THEN <<>>
                 ELSE [i \in 1..Len(node[b].recs) + 1 |-> Child(node, b, i - 1)]
      level[m \in 1..MaxLev] ==
        IF m = 1 THEN <<Root>>
        ELSE LET up == level[m - 1] IN FoldLeft(LAMBDA bs, b : bs \o sons(b), <<>>, up)
  IN  level[n]

\* Between two requests every block in use has one place in the tree, no node
\* but the root is empty, every node knows its left brother, and the btstat of
\* the file counts its blocks and its records.
TreeWhole ==
  Idle => LET levels == [n \in 1..MaxLev |-> Level(n)]
              all == FoldLeft(LAMBDA bs, l : bs \o l, <<>>, levels)
          IN  /\ IsInjective(all) /\ ToSet(all) = {b \in Block : node[b].used}
              /\ \A b \in ToSet(all) \ {Root} : node[b].recs # <<>>
              /\ \A n \in 1..MaxLev : \A i \in DOMAIN levels[n] :
                   node[levels[n][i]].lbro = IF i = 1 THEN Nil ELSE levels[n][i - 1]
              /\ stat = [rcnt |-> Cardinality(Held), bcnt |-> Len(all)]

\* No assert of add, del, getkey or insert fails: node.c and btree.c state what
\* they rely on, and a failure leaves by longjmp with the tree half changed.
NoAssert == pc # "assert"

\* A write or a rewrite that chkspace has let through never runs out of blocks
\* on its way up, add's calls of itself included: needed() is the worst case.
\* A delete asks nobody, and may.
SpaceSuffices == pc = "full" => op = -1

\* Every request comes to its end, however far a change climbs and however often
\* add calls itself: each turn leaves less work, a split at a level being at
\* most one at the level above it for each of its two separators.
Work ==
  LET toAdd[l \in 0..MaxLev] == IF l = 0 THEN 0 ELSE 2 * toAdd[l - 1] + 2
      due == FoldLeft(LAMBDA w, f : w + toAdd[f.lev] + 1, 0, frames)
  IN  due + CASE pc \in {"add", "del"} -> toAdd[sp] + 1
              [] pc = "return" -> 1
              [] OTHER -> 0
EachTurnLess == [][pc # "idle" => Work' < Work]_vars
===============================================================================

-------------------------------- MODULE Node --------------------------------
(***************************************************************************)
(* A node of the B-tree in memory: records in descending order, each       *)
(* stored without the bytes it shares with the next lower one (node.c,     *)
(* insert.c, find.c).  Two nodes, because records move from one to the     *)
(* other.  NodeWhole says that what a node holds is an ordered set;        *)
(* module BTree takes nodes as such sets.                                  *)
(*                                                                         *)
(* A stored record is [dup, data]: the number of shared leading bytes and  *)
(* the others.  In memory its data is followed by the next higher record,  *)
(* dup first, and the highest by whatever is behind the block: find and    *)
(* insert compare a key longer than a record with those bytes too.  The    *)
(* last Ptr bytes of a stem's record are the pointer to its son.           *)
(***************************************************************************)
EXTENDS Integers, Sequences, SequencesExt

CONSTANTS
  Byte,      \* the bytes records are made of, numbers
  MaxLen,    \* bytes of the longest key of a stem, or of a leaf's longest record
  MaxKey,    \* MAXKEY, bytes of the longest key of a leaf
  Ptr,       \* bytes of a pointer, 0 in a leaf
  Size       \* bytes of a node, its table of two-byte offsets included

VARIABLES
  node,      \* node[n]: the stored records of node n, from index 1
  held,      \* history: the records it should hold
  failed     \* history: an "assert" has failed, or an insert went "astray"; else "no"

vars == <<node, held, failed>>

Nodes   == {"a", "b"}
Keys    == UNION {[1..k -> Byte] : k \in 1..MaxLen}
Pointer == [i \in 1..Ptr |-> 1]
Beyond  == {[i \in 1..MaxLen |-> c] : c \in Byte}     \* bound: the bytes behind a block
Records == {k \o Pointer : k \in Keys}

Least(x, y) == IF x < y THEN x ELSE y
From(s, i)  == SubSeq(s, i, Len(s))

\* blkcmp: the number of equal leading bytes.
Blkcmp(s, t) ==
  LET n == Least(Len(s), Len(t))
  IN  CHOOSE i \in 0..n : /\ i < n => s[i + 1] # t[i + 1]
                          /\ SubSeq(s, 1, i) = SubSeq(t, 1, i)

\* BLOCK::size.
RecSize(nd, i) == Len(nd[i].data) + nd[i].dup

\* union node::free, for a node of n records.
FreeBytes(nd) ==
  Size - FoldLeft(LAMBDA t, r : t + 1 + Len(r.data), 0, nd) - 2 * (Len(nd) + 1)

\* BLOCK::copy: the first len bytes of record idx over what rec holds; the
\* first sdup bytes are there already.  Bytes are taken from lower records
\* as far as each one has them.
Copied(nd, idx, rec, len, sdup) ==
  LET Over(c, r) ==
        IF c.done THEN c
        ELSE [rec  |-> IF r.dup < c.len
                       THEN SubSeq(c.rec, 1, r.dup) \o SubSeq(r.data, 1, c.len - r.dup)
                              \o From(c.rec, c.len + 1)
                       ELSE c.rec,
              len  |-> Least(r.dup, c.len),
              done |-> r.dup <= sdup]
  IN  FoldLeft(Over, [rec |-> rec, len |-> len, done |-> FALSE], From(nd, idx)).rec

Blank(n) == [i \in 1..n |-> 255]     \* a buffer with nothing in it yet

\* Copied into a new buffer, and the first len bytes of it.
Copy(nd, idx, rec, len, sdup) ==
  SubSeq(Copied(nd, idx, rec \o Blank(len), len, sdup), 1, len)

Record(nd, idx) == Copy(nd, idx, << >>, RecSize(nd, idx), 0)

\* Seeded fault: the shared bytes are taken to be equal.
CompOwn(nd, idx, rec) == nd[idx].dup + Blkcmp(nd[idx].data, From(rec, nd[idx].dup + 1))

\* BLOCK::comp: how many leading bytes of rec record idx has.
Comp(nd, idx, rec) ==
  LET i   == nd[idx].dup
      len == Len(rec)
      res == Blkcmp(Copy(nd, idx, << >>, Least(i, len), 0), rec)
  IN  IF i > len \/ (i > 0 /\ res < i) THEN res
      ELSE i + Blkcmp(nd[idx].data, From(rec, i + 1))

\* What is in memory from the data of record idx on.
Memory(nd, idx, beyond) ==
  nd[idx].data \o FoldLeft(LAMBDA m, r : <<r.dup>> \o r.data \o m, beyond, SubSeq(nd, 1, idx - 1))

\* BLOCK::find from the last record down the table, to the first one that is
\* not below the key; dup is the bytes of the key found so far.  A record that
\* shares more than those with the one before compares as that did.
Find(nd, key, dir, beyond) ==
  LET Down(f, i) ==
        LET r     == nd[i]
            same  == r.dup + Blkcmp(From(key, r.dup + 1), Memory(nd, i, beyond))
            rlen  == r.dup + Len(r.data) - Ptr
            equal == same >= Len(key)
            stop  == IF equal THEN ~(same >= rlen /\ Ptr > 0) /\ dir > 0
                     ELSE same < rlen /\ r.data[same - r.dup + 1] > key[same + 1]
        IN  IF f.idx > 0 \/ r.dup > f.dup THEN f
            ELSE [idx |-> IF stop THEN i ELSE 0,
                  dup |-> IF equal /\ same >= rlen THEN rlen ELSE same]
  IN  FoldLeft(Down, [idx |-> 0, dup |-> 0], Reverse([i \in DOMAIN nd |-> i]))

\* The shared bytes of BLOCK::insert: of the record above, idx, with rec, and
\* of rec with the record below it, of which it looks at MaxKey bytes.
Compared(rec) == SubSeq(rec, 1, Len(rec) - Ptr)

SameNext(nd, idx, rec) ==
  nd[idx].dup + Blkcmp(nd[idx].data, From(Compared(rec), nd[idx].dup + 1))

Shared(nd, idx, rec) ==
  IF idx = Len(nd) THEN 0
  ELSE LET known == IF idx > 0 THEN nd[idx].dup ELSE 0
           size  == Least(RecSize(nd, idx + 1) - Ptr, MaxKey)
           below == Copy(nd, idx + 1, SubSeq(rec, 1, known), size, known)
       IN  known + Blkcmp(From(below, known + 1), From(rec, known + 1))

\* BLOCK::insert after idx: the record above gives up the bytes it now shares.
Inserted(nd, idx, rec) ==
  LET dup   == Shared(nd, idx, rec)
      mine  == [dup |-> dup, data |-> From(rec, dup + 1)]
      more  == SameNext(nd, idx, rec)
      above == [dup |-> more, data |-> From(nd[idx].data, more - nd[idx].dup + 1)]
  IN  (IF idx = 0 THEN << >> ELSE Append(SubSeq(nd, 1, idx - 1), above))
        \o <<mine>> \o From(nd, idx + 1)

Fits(nd, idx, rec) == FreeBytes(Inserted(nd, idx, rec)) >= 0

\* The assertions of insert: the record stands between its neighbours.
Between(nd, idx, rec) ==
  /\ idx > 0 => LET more == SameNext(nd, idx, rec) - nd[idx].dup
                    at   == nd[idx].dup + more + 1
                IN  at > Len(Compared(rec)) \/ nd[idx].data[more + 1] > rec[at]
  /\ idx < Len(nd) => LET dup == Shared(nd, idx, rec)
                          low == Record(nd, idx + 1)
                      IN  dup = Least(Len(low) - Ptr, MaxKey) \/ rec[dup + 1] > low[dup + 1]

\* BLOCK::del of cnt records from idx: the record above takes back, from
\* each deleted one in turn, the bytes it did not have of its own.
TakeBack(r, s) ==
  IF r.dup > s.dup
  THEN [dup |-> s.dup, data |-> SubSeq(s.data, 1, r.dup - s.dup) \o r.data]
  ELSE r

Deleted(nd, idx, cnt) ==
  IF cnt <= 0 THEN nd
  ELSE IF idx = 1 THEN From(nd, cnt + 1)
  ELSE Append(SubSeq(nd, 1, idx - 2), FoldLeft(TakeBack, nd[idx - 1], SubSeq(nd, idx, idx + cnt - 1)))
         \o From(nd, idx + cnt)

\* BLOCK::move: records from, from + 1, ... of src into dst after its record
\* to, until cnt are moved or one does not fit.  work is the buffer that
\* still holds the last one moved, dup the bytes the next one shares with it.
Move(src, dst, from, to, cnt) ==
  LET One(m, i) ==
        LET rec == Copy(src, i, m.work, RecSize(src, i), m.dup)
        IN  IF m.full \/ ~Fits(m.dst, to + m.done, rec) THEN [m EXCEPT !.full = TRUE]
            ELSE [dst |-> Inserted(m.dst, to + m.done, rec), done |-> m.done + 1,
                  work |-> rec, dup |-> src[i].dup, full |-> FALSE]
  IN  FoldLeft(One, [dst |-> dst, done |-> 0, work |-> << >>, dup |-> 0, full |-> FALSE],
               [k \in 1..Least(cnt, Len(src) - from + 1) |-> from + k - 1])

-----------------------------------------------------------------------------
Init == /\ node = [n \in Nodes |-> << >>]
        /\ held = [n \in Nodes |-> {}]
        /\ failed = "no"

Less(s, t) ==
  LET i == Blkcmp(s, t)
  IN  i < Len(t) /\ (IF i = Len(s) THEN TRUE ELSE s[i + 1] < t[i + 1])

\* Keys are unique: no record of either node but old begins with key.
Begins(k, key) == Blkcmp(k, key) = Len(key)
Unique(key, old) == \A r \in (held["a"] \cup held["b"]) \ old : ~Begins(Compared(r), key)

\* The records of a are above those of b.
Belongs(n, rec) ==
  \A o \in Nodes \ {n} : \A r \in held[o] :
    IF n = "a" THEN Less(Compared(r), Compared(rec)) ELSE Less(Compared(rec), Compared(r))

\* addrec and the engine: a record whose first klen bytes are its key goes
\* where find says; a key that is there is BTERDUP.  A key that goes on after
\* the end of a whole record can be found equal to that one, with what is behind
\* it, and is put below it.  The record above then counts as shared bytes it
\* does not have, and the offsets overlap; what a node is after that is not modelled.
Insert(n, rec, klen, beyond) ==
  LET key   == SubSeq(rec, 1, klen)
      found == Find(node[n], key, 1, beyond)
      idx   == found.idx
      wrong == idx > 0 /\ Less(Compared(Record(node[n], idx)), key)
  IN  /\ klen <= Len(Compared(rec)) /\ (Ptr > 0 => klen = Len(Compared(rec)))
      /\ Belongs(n, rec) /\ Unique(key, {})
      /\ found.dup < klen
      /\ failed' = CASE wrong -> "astray"
                     [] ~wrong /\ ~Between(node[n], idx, rec) -> "assert"
                     [] OTHER -> failed
      /\ IF ~wrong /\ Fits(node[n], idx, rec)
         THEN /\ node' = [node EXCEPT ![n] = Inserted(node[n], idx, rec)]
              /\ held' = [held EXCEPT ![n] = @ \cup {rec}]
         ELSE UNCHANGED <<node, held>>

Delete(n, idx, cnt) ==
  /\ node' = [node EXCEPT ![n] = Deleted(node[n], idx, cnt)]
  /\ held' = [held EXCEPT ![n] = @ \ {Record(node[n], i) : i \in idx..(idx + cnt - 1)}]
  /\ UNCHANGED failed

\* BLOCK::replace by a record with the same key, a unique one, and other data
\* behind it; if the new one does not fit, both are gone.
Replace(n, idx, rec) ==
  LET rest == Deleted(node[n], idx, 1)
      old  == Record(node[n], idx)
  IN  /\ Ptr = 0 /\ Blkcmp(old, rec) > 0
      /\ Unique(SubSeq(rec, 1, Least(Blkcmp(old, rec), MaxKey)), {old})
      /\ failed' = IF Between(rest, idx - 1, rec) THEN failed ELSE "assert"
      /\ IF Fits(rest, idx - 1, rec)
         THEN /\ node' = [node EXCEPT ![n] = Inserted(rest, idx - 1, rec)]
              /\ held' = [held EXCEPT ![n] = (@ \ {old}) \cup {rec}]
         ELSE /\ node' = [node EXCEPT ![n] = rest]
              /\ held' = [held EXCEPT ![n] = @ \ {old}]

\* The engine's use of move and del between neighbours, the keys of a above
\* those of b: the last records of a become the first of b, or the first of
\* b the last of a; those that fitted are deleted where they came from.
\* What goes to the front has been measured and is asserted to fit.
Shift(n, o, cnt) ==
  LET from == IF n = "b" THEN 1 ELSE Len(node[n]) - cnt + 1
      m    == Move(node[n], node[o], from, IF n = "b" THEN Len(node[o]) ELSE 0, cnt)
      gone == {Record(node[n], i) : i \in from..(from + m.done - 1)}
  IN  /\ cnt <= Len(node[n]) /\ (n = "b" \/ m.done = cnt)
      /\ node' = [node EXCEPT ![o] = m.dst, ![n] = Deleted(node[n], from, m.done)]
      /\ held' = [held EXCEPT ![o] = @ \cup gone, ![n] = @ \ gone]
      /\ UNCHANGED failed

Next == /\ failed # "astray"
        /\ \E n \in Nodes :
          \/ \E rec \in Records, klen \in 1..MaxKey, beyond \in Beyond : Insert(n, rec, klen, beyond)
          \/ \E idx \in DOMAIN node[n] :
               \/ \E cnt \in 1..(Len(node[n]) - idx + 1) : Delete(n, idx, cnt)
               \/ \E rec \in Records : Replace(n, idx, rec)
          \/ \E o \in Nodes \ {n}, cnt \in 1..2 : Shift(n, o, cnt)

Spec == Init /\ [][Next]_vars

-----------------------------------------------------------------------------
\* NodeWhole: decompressed, a node's records are exactly those put into it and
\* not deleted since, in descending order; every one is stored without the
\* bytes it shares with the next, all of them and no more; the node has room
\* for them; no assertion of insert ever failed.  An insert goes astray only
\* into a leaf, and only next to a record that is shorter than the new key.
NodeWhole ==
  /\ failed # "assert"
  /\ failed = "astray" => Ptr = 0 /\ \E n \in Nodes : \E r \in held[n] : Len(r) < MaxKey
  /\ \A n \in Nodes :
       LET nd == node[n] IN
       /\ {Record(nd, i) : i \in DOMAIN nd} = held[n]
       /\ \A i \in 1..(Len(nd) - 1) :
            /\ Less(Compared(Record(nd, i + 1)), Compared(Record(nd, i)))
            /\ nd[i].dup = Blkcmp(Compared(Record(nd, i)), Compared(Record(nd, i + 1)))
       /\ nd # << >> => nd[Len(nd)].dup = 0
       /\ FreeBytes(nd) >= 0

\* KeysLocated: find returns what its comment promises, "k[idx] >= key >
\* k[idx+1]", the greatest such idx or the least by dir, keys that begin with
\* the given one counting as equal, in a stem as below; dup tells how much of
\* the key the record has, and comp of any record agrees with it.  There is one
\* exception: to a key that goes on after the end of a whole record of a leaf,
\* find by dir > 0 may return that record instead of a higher one, as the bytes
\* behind it are; dup then still tells that it is not the key.
KeysLocated ==
  \A n \in Nodes :
    LET nd == node[n]
        k  == [i \in DOMAIN nd |-> Compared(Record(nd, i))]
    IN  \A key \in {x \in Keys : Len(x) <= MaxKey} :
          LET AtLeast(i, dir) ==
                IF dir < 0 THEN Less(key, k[i]) /\ ~Begins(k[i], key)
                ELSE Less(key, k[i]) \/ (Ptr = 0 /\ k[i] = key)
              GoesOn(i) == Ptr = 0 /\ Begins(key, k[i]) /\ k[i] # key
          IN  /\ \A i \in DOMAIN nd : Comp(nd, i, key) = Blkcmp(Record(nd, i), key)
              /\ \A dir \in {-1, 1}, beyond \in Beyond :
                   LET f == Find(nd, key, dir, beyond) IN
                   /\ \A i \in DOMAIN nd :
                        /\ AtLeast(i, dir) => i <= f.idx
                        /\ i <= f.idx => AtLeast(i, dir) \/ (dir > 0 /\ GoesOn(f.idx))
                   /\ f.idx > 0 => f.dup = Blkcmp(k[f.idx], key)
=============================================================================

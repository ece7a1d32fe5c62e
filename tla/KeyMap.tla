------------------------------- MODULE KeyMap -------------------------------
(***************************************************************************)
(* How the bytes of a C-ISAM record lie in the records of its BTAS files   *)
(* (cisam/isconv.c, rotate.c, isparm.c, isbuild.c).  BTAS compares bytes   *)
(* from the first; so the parts of a key are moved to the front of the     *)
(* record, in the order of the key, and the field table of each open file  *)
(* says for every field where it is in the user's record.                  *)
(*                                                                         *)
(* A field table is the sequence of fields in the order of the record,     *)
(* each with its position, length and type, and the number of those that   *)
(* are the key.  A keydesc is the sequence of parts of a key.              *)
(***************************************************************************)
EXTENDS Integers, Sequences, FiniteSets, SequencesExt, Functions

CONSTANTS
  Tmp,       \* the buffer rotate moves bytes through
  MaxKey     \* MAXKEY

Sum(f, n) == FoldFunction(LAMBDA x, y : x + y, 0, [i \in 1..n |-> f[i].len])
End(fields) == Sum(fields, Len(fields))

-----------------------------------------------------------------------------
(* rotate: the last cnt bytes of the first len go to the front.  It turns   *)
(* left or right, whichever moves less; what does not fit its buffer is     *)
(* swapped with the bytes at the other end and the remainder is rotated.    *)
Swapped(s, i, j, n) ==
  [k \in DOMAIN s |-> IF k \in (i + 1)..(i + n) THEN s[k - i + j]
                      ELSE IF k \in (j + 1)..(j + n) THEN s[k - j + i] ELSE s[k]]
Turned(s, at, len, cnt) ==
  [k \in DOMAIN s |-> IF k \notin (at + 1)..(at + len) THEN s[k]
                      ELSE IF k <= at + cnt THEN s[k + len - cnt] ELSE s[k - cnt]]

RECURSIVE RotateFrom(_, _, _, _)
RotateFrom(s, at, len, cnt) ==
  LET nlen == len - cnt
  IN  IF len <= cnt THEN s
      ELSE IF cnt > len \div 2
        THEN IF nlen <= Tmp THEN Turned(s, at, len, cnt)
             ELSE RotateFrom(Swapped(s, at, at + cnt, nlen), at, cnt, cnt - nlen)
        ELSE IF cnt <= Tmp THEN Turned(s, at, len, cnt)
             ELSE RotateFrom(Swapped(s, at, at + nlen, cnt), at + cnt, nlen, cnt)
Rotate(s, at, len, cnt) == RotateFrom(s, at, len, cnt)

-----------------------------------------------------------------------------
(* The parts of a key one after the other to the front, each to where those *)
(* before it end; what is in front of it moves up by its length.            *)
Moved(kd, i) ==
  [j \in DOMAIN kd |-> IF j > i /\ kd[j].pos < kd[i].pos
                       THEN [kd[j] EXCEPT !.pos = @ + kd[i].len] ELSE kd[j]]

\* Seeded fault: the parts that moved are looked for where they were.
RECURSIVE PermuteStale(_, _, _, _)
PermuteStale(kd, s, i, klen) ==
  IF i > Len(kd) THEN s
  ELSE PermuteStale(kd, IF kd[i].pos > klen
                        THEN Rotate(s, klen, kd[i].pos - klen + kd[i].len, kd[i].len) ELSE s,
                    i + 1, klen + kd[i].len)

RECURSIVE Permute(_, _, _, _)
Permute(kd, s, i, klen) ==
  IF i > Len(kd) THEN s
  ELSE Permute(Moved(kd, i), IF kd[i].pos > klen
                             THEN Rotate(s, klen, kd[i].pos - klen + kd[i].len, kd[i].len) ELSE s,
               i + 1, klen + kd[i].len)
Kdpermute(kd, s) == Permute(kd, s, 1, 0)

\* And back, the last part first.
AllMoved(kd) == FoldLeft(Moved, kd, [i \in DOMAIN kd |-> i])
Kdinvperm(kd, s) ==
  LET back(t, i) == LET p == AllMoved(kd)[i]
                        klen == Sum(kd, i - 1)
                    IN  IF p.pos > klen THEN Rotate(t, klen, p.pos - klen + p.len, p.pos - klen) ELSE t
  IN  FoldLeft(back, s, [i \in DOMAIN kd |-> Len(kd) + 1 - i])

-----------------------------------------------------------------------------
(* isconvkey: the field table of the records of a key, given the one of the *)
(* master file: of each byte its field and its place in it, moved, and put  *)
(* together to fields again.  Behind the key come the other bytes of the    *)
(* fields that are the master's key.                                        *)
Isrlen(fields) == End(SelectSeq(fields, LAMBDA f : f.type # "recno"))
RecNum(m) == <<[pos |-> Isrlen(m.fields), len |-> 4, type |-> "char"]>>

FieldMap(fields) ==
  [p \in 1..End(fields) |->
     LET n == SelectInSeq(fields, LAMBDA f : f.pos < p /\ p <= f.pos + f.len) IN <<n, p - 1 - fields[n].pos>>]

Starts(fmap, kept) == {i \in kept : i = 1 \/ fmap[i - 1] # <<fmap[i][1], fmap[i][2] - 1>>}
Joined(m, fmap, kept, starts) ==
  LET Length(i) == Cardinality({j \in kept : j >= i /\ (i + 1)..j \cap starts = {}})
      joined(i) == [pos |-> m.fields[fmap[i][1]].pos + fmap[i][2], len |-> Length(i),
                    type |-> m.fields[fmap[i][1]].type]
  IN  FoldLeft(LAMBDA s, i : IF i \in starts THEN Append(s, joined(i)) ELSE s,
               <<>>, [i \in DOMAIN fmap |-> i])
Table(m, fmap, kept, klen, dups) ==
  [fields |-> Joined(m, fmap, kept, Starts(fmap, kept)),
   klen   |-> Cardinality({i \in Starts(fmap, kept) : dups \/ i <= klen})]
Mapped(m, fmap, klen, dups) ==
  Table(m, fmap, {i \in DOMAIN fmap : i <= klen \/ fmap[i][1] <= m.klen}, klen, dups)

Isconvkey(m, kd, dups, back) ==
  LET key == IF kd = <<>> THEN RecNum(m) ELSE kd
  IN  Mapped(m, IF back THEN Kdinvperm(key, FieldMap(m.fields)) ELSE Kdpermute(key, FieldMap(m.fields)),
             Sum(key, Len(key)), dups)

\* iskeynorm: parts that lie together are one.
Iskeynorm(kd) ==
  LET add(s, p) == IF s # <<>> /\ Last(s).pos + Last(s).len = p.pos /\ Last(s).type = p.type
                   THEN [s EXCEPT ![Len(s)].len = @ + p.len] ELSE Append(s, p)
  IN  FoldLeft(add, <<>>, kd)

\* makeflds: a field for each part of the key and for what is between them.
RECURSIVE FieldsFrom(_, _, _)
FieldsFrom(kd, rlen, pos) ==
  LET rest == IF rlen - pos >= MaxKey THEN MaxKey - 1 ELSE rlen - pos
      cut(len, p) == IF p.pos = pos THEN len ELSE IF pos < p.pos /\ p.pos < pos + len THEN p.pos - pos ELSE len
      here == SelectInSeq(kd, LAMBDA p : p.pos = pos)
      len == IF here > 0 THEN kd[here].len ELSE FoldLeft(cut, rest, kd)
  IN  IF pos >= rlen THEN <<>>
      ELSE <<[pos |-> pos, len |-> len, type |-> "bin"]>> \o FieldsFrom(kd, rlen, pos + len)
Makeflds(kd, rlen, num) ==
  FieldsFrom(kd, rlen, 0) \o (IF num THEN <<[pos |-> rlen, len |-> 4, type |-> "recno"]>> ELSE <<>>)

-----------------------------------------------------------------------------
(* isbuildx makes the master file's records from the user's field table;    *)
(* isopenx has only theirs, finds the user's positions and maps them again. *)
All(fields) == [fields |-> fields, klen |-> Len(fields)]
Placed(fields) == [i \in DOMAIN fields |-> [fields[i] EXCEPT !.pos = Sum(fields, i - 1)]]
Built(fields, kd) == Isconvkey(All(fields), Iskeynorm(kd), FALSE, FALSE)
Isopenx(stored, kd) ==
  LET user == Isconvkey(All(Placed(stored)), Iskeynorm(kd), FALSE, TRUE)
  IN  Isconvkey(All(Placed(user.fields)), Iskeynorm(kd), FALSE, FALSE)

(* isaddflds: more fields behind those of the file, or in place of them     *)
(* when they have no bytes; a file by record number gets that at the end.   *)
Isaddflds(m, kd, more) ==
  LET old   == IF Isrlen(m.fields) = 0 THEN <<>> ELSE m.fields
      added == old \o [i \in DOMAIN more |-> [more[i] EXCEPT !.pos = End(old) + Sum(more, i - 1)]]
      all   == added \o IF kd = <<>> THEN <<[pos |-> End(added), len |-> 4, type |-> "recno"]>> ELSE <<>>
  IN  IF old = <<>> THEN Isconvkey(All(all), kd, FALSE, FALSE) ELSE [m EXCEPT !.fields = all]

\* Where in the user's record each byte of a record is from.
Bytes(fields) == FlattenSeq([i \in DOMAIN fields |-> [j \in 1..fields[i].len |-> fields[i].pos + j - 1]])
=============================================================================

------------------------------ MODULE Sorting ------------------------------
(***************************************************************************)
(* ORDER BY, DISTINCT and GROUP BY: Order in src/sql/order.c copies the    *)
(* rows of a source cursor into a work file whose key makes the order, and *)
(* reads them back.  Rows the source already delivers in the order of the  *)
(* leading columns (common) are copied and returned run by run.            *)
(*                                                                         *)
(* A source has rows in the order of its key, the columns 1..klen of the   *)
(* rows.  Values are 0..M, none NULL.  A field of the work file is         *)
(*   [kind |-> "col", c]       a column of the source,                     *)
(*   [kind |-> "rowno"]        the number that keeps equal rows apart,     *)
(*   [kind |-> "sum" | "cnt" | "max" | "min", c]   an aggregate.           *)
(***************************************************************************)
EXTENDS Lex, SequencesExt

CONSTANT M           \* the greatest value of a column

Col(c)   == [kind |-> "col", c |-> c]
RowNo    == [kind |-> "rowno"]
IsAgg(f) == f.kind \in {"sum", "cnt", "max", "min"}

(* The fields of list that fs has not yet, added at its end (sql_same). *)
Added(fs, list) ==
  FoldLeft(LAMBDA r, f : IF Contains(r, f) THEN r ELSE Append(r, f), fs, list)

(* Order_init: the key fields of the order list o, then what must be added *)
(* to keep, or to remove, duplicates, then the selected fields s.  An      *)
(* order entry is [c, desc]; distinct is "keep", "distinct" or "group".  noop:   *)
(* the source is used as it is.                                            *)
OrderInit(klen, o, s, distinct) ==
  LET Key(p, e) ==
        IF Contains(p.f, Col(e.c)) THEN p
        ELSE [f      |-> Append(p.f, Col(e.c)),
              common |-> IF Len(p.f) <= p.common /\ Len(p.f) < klen /\ e.c = Len(p.f) + 1
                         THEN p.common + 1 ELSE p.common,
              desc   |-> IF e.desc THEN p.desc \cup {Len(p.f) + 1} ELSE p.desc]
      keys == FoldLeft(Key, [f |-> << >>, common |-> 0, desc |-> {}], o)
      k    == IF distinct = "keep" /\ keys.common < klen THEN Append(keys.f, RowNo) ELSE keys.f
      all  == Added(k, s)
  IN  [noop   |-> distinct = "keep" /\ keys.common = Len(keys.f),
       f      |-> all,
       klen   |-> IF distinct = "distinct" /\ keys.common < klen THEN Len(all) ELSE Len(k),
       common |-> keys.common,
       desc   |-> keys.desc,
       agg    |-> distinct = "group"]

(* Seeded fault: a descending field is not inverted. *)
StoredUpright(plan, i, row, n) == IF plan.f[i].kind = "rowno" THEN n ELSE row[plan.f[i].c]

(* One field of the work record of a row; n is its running number.  A      *)
(* descending field is stored inverted.                                    *)
Stored(plan, i, row, n) ==
  LET v == IF plan.f[i].kind = "rowno" THEN n ELSE row[plan.f[i].c]
  IN  IF i \in plan.desc THEN M - v ELSE v

(* Sum_store, Cnt_store, MinMax_store: what v makes of an aggregate that   *)
(* has seen values or, first, none.  A plain column keeps the last row's.  *)
Aggregate(kind, first, old, v) ==
  CASE kind = "cnt" -> IF first THEN 1 ELSE old + 1
    [] kind = "sum" -> IF first THEN v ELSE old + v
    [] kind = "max" -> IF first \/ v >= old THEN v ELSE old
    [] kind = "min" -> IF first \/ v <= old THEN v ELSE old
    [] OTHER        -> v

KeyOf(plan, rec) == SubSeq(rec, 1, plan.klen)

(* One row into the work file, a set of records no two of which have the   *)
(* same key: a duplicate is ignored, in a group the aggregates of the      *)
(* record with that key go on.                                             *)
Write(plan, file, row, n) ==
  LET rec  == [i \in 1..Len(plan.f) |-> Stored(plan, i, row, n)]
      same == {r \in file : KeyOf(plan, r) = KeyOf(plan, rec)}
      old  == IF same = {} THEN rec ELSE CHOOSE r \in same : TRUE
      next == [i \in 1..Len(plan.f) |->
                 IF i <= plan.klen THEN rec[i]
                 ELSE Aggregate(plan.f[i].kind, same = {}, old[i], rec[i])]
  IN  IF plan.agg THEN (file \ same) \cup {next}
      ELSE IF same = {} THEN file \cup {rec} ELSE file

Alike(plan, x, y) == \A i \in 1..plan.common : x[plan.f[i].c] = y[plan.f[i].c]

(* Order_read: the rows from number cur on, as far as they agree with the  *)
(* first in the common columns.  cnt is the number of records written,     *)
(* upon which both the running number and the way back depend.             *)
RECURSIVE OrderRead(_, _, _, _)
OrderRead(plan, rows, w, returned) ==
  IF w.cur > Len(rows) \/ (w.cur > w.start /\ ~Alike(plan, rows[w.start], rows[w.cur])) THEN w
  ELSE LET file == Write(plan, w.file, rows[w.cur], returned + w.cnt)
       IN  OrderRead(plan, rows,
                     [w EXCEPT !.cur = @ + 1, !.file = file,
                               !.cnt = IF file = w.file \/ plan.klen = 0 THEN @ ELSE @ + 1],
                     returned)

(* Order_first and Order_next until they fail: the records after last,     *)
(* then the next run of the source, from the first record with its common  *)
(* columns.                                                                *)
RECURSIVE Serve(_, _, _, _, _)
Serve(plan, rows, w, last, out) ==
  LET after == {r \in w.file : Before(last, r)}
      read  == OrderRead(plan, rows, [w EXCEPT !.start = w.cur, !.cnt = 0], Len(out))
      lead  == SubSeq([i \in 1..Len(plan.f) |-> Stored(plan, i, rows[w.cur], 0)], 1, plan.common)
      from  == {r \in read.file : ~Before(r, lead)}
  IN  IF after # {} THEN Serve(plan, rows, w, First(after), Append(out, First(after)))
      ELSE IF w.cur > Len(rows) \/ (plan.klen = 0 /\ out # << >>) THEN out
      ELSE IF from = {} THEN out
      ELSE Serve(plan, rows, read, First(from), Append(out, First(from)))

(* The value of field i of a returned record: descending ones turned back. *)
Shown(plan, rec) == [i \in 1..Len(rec) |-> IF i \in plan.desc THEN M - rec[i] ELSE rec[i]]

(* The records of the ordered cursor, as records of the fields of s. *)
Ordered(klen, rows, o, s, distinct) ==
  LET plan == OrderInit(klen, o, s, distinct)
      At(f) == CHOOSE i \in 1..Len(plan.f) : plan.f[i] = f
      recs == Serve(plan, rows, [cur |-> 1, start |-> 1, file |-> {}, cnt |-> 0], << >>, << >>)
  IN  IF plan.noop THEN [n \in 1..Len(rows) |-> [i \in DOMAIN s |-> rows[n][s[i].c]]]
      ELSE [n \in 1..Len(recs) |-> [i \in DOMAIN s |-> Shown(plan, recs[n])[At(s[i])]]]

(***************************************************************************)
(* What the statement asks for.                                            *)
(***************************************************************************)
OrderKey(o, row) == [i \in DOMAIN o |-> IF o[i].desc THEN M - row[o[i].c] ELSE row[o[i].c]]

Picked(s, row) == [i \in DOMAIN s |-> row[s[i].c]]

(* Rows by the order list, rows equal in it as the source has them. *)
StableSort(rows, o) ==
  LET tagged == Ascending({OrderKey(o, rows[n]) \o <<n>> : n \in DOMAIN rows})
  IN  [n \in DOMAIN rows |-> rows[tagged[n][Len(o) + 1]]]

Total(kind, S, v) ==
  CASE kind = "cnt" -> Len(S)
    [] kind = "sum" -> FoldLeft(LAMBDA x, r : x + v[r], 0, S)
    [] kind = "max" -> CHOOSE x \in {v[r] : r \in ToSet(S)} : \A r \in ToSet(S) : x >= v[r]
    [] kind = "min" -> CHOOSE x \in {v[r] : r \in ToSet(S)} : \A r \in ToSet(S) : x <= v[r]
=============================================================================

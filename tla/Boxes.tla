------------------------------- MODULE Boxes -------------------------------
(***************************************************************************)
(* The choice of records by key ranges: vwopt.c turns a condition into a   *)
(* list of boxes over the key columns, Where (vwsel.c) walks a table that  *)
(* is sorted by its key through that list, jumping over what no box holds. *)
(*                                                                         *)
(* A key column is one byte here, its values 0..M, and inc and dec wrap as *)
(* they do.  A box has the least and the greatest value of every key       *)
(* column, and in place of an expression the set of the records of which   *)
(* the expression is true (every record where the code has no expression). *)
(***************************************************************************)
EXTENDS Lex, SequencesExt

CONSTANTS K,         \* key columns
          M,         \* the greatest value a column's bytes can hold
          Records    \* the records that may exist: sequences whose first K are the key

Cols == 1..K
Inc(v) == (v + 1) % (M + 1)
(* Seeded fault: the box below a split still holds the split's first key. *)
DecNothing(v) == v

Dec(v) == (v + M) % (M + 1)

Box(min, max, exp) == [min |-> min, max |-> max, exp |-> exp]
WholeBox == Box([c \in Cols |-> 0], [c \in Cols |-> M], Records)

(* The box p with the range lo..hi in column c. *)
Ranged(p, c, lo, hi) == Box([i \in Cols |-> IF i = c THEN lo ELSE p.min[i]],
                            [i \in Cols |-> IF i = c THEN hi ELSE p.max[i]], p.exp)
Range1(c, lo, hi)    == Ranged(WholeBox, c, lo, hi)

(* Vwsel_and_1: the boxes of a cut down to b, the empty ones dropped. *)
And1(a, b) ==
  LET Least(x, y) == IF x < y THEN x ELSE y
      Most(x, y)  == IF x > y THEN x ELSE y
      cut == [n \in DOMAIN a |-> Box([c \in Cols |-> Most(a[n].min[c], b.min[c])],
                                     [c \in Cols |-> Least(a[n].max[c], b.max[c])],
                                     a[n].exp \cap b.exp)]
  IN  SelectSeq(cut, LAMBDA p : \A c \in Cols : p.min[c] <= p.max[c])

(* Vwsel_or_set_1: q into the list a.  The first box that meets q in every *)
(* column, or comes after it, decides: q goes before it, is merged with an *)
(* identical one, or both are split along the first column in which they   *)
(* differ and the pieces are inserted in turn.                             *)
RECURSIVE Or1(_, _)
Or1(a, q) ==
  IF a = << >> THEN <<q>>
  ELSE LET p    == Head(a)
           Stop(c) == p.max[c] < q.min[c] \/ q.max[c] < p.min[c] \/
                      p.min[c] # q.min[c] \/ p.max[c] # q.max[c]
           same == \A c \in Cols : ~Stop(c)
           c    == CHOOSE i \in Cols : Stop(i) /\ \A j \in 1..(i - 1) : ~Stop(j)
           low  == IF p.min[c] < q.min[c] THEN q.min[c] ELSE p.min[c]
           high == IF p.max[c] < q.max[c] THEN p.max[c] ELSE q.max[c]
           top  == IF p.min[c] < q.min[c] THEN Ranged(p, c, p.min[c], Dec(low))
                   ELSE Ranged(q, c, q.min[c], Dec(low))
           bot  == IF p.max[c] < q.max[c] THEN Ranged(q, c, Inc(high), q.max[c])
                   ELSE Ranged(p, c, Inc(high), p.max[c])
           tops == IF p.min[c] = q.min[c] THEN Tail(a) ELSE Or1(Tail(a), top)
           bots == IF p.max[c] = q.max[c] THEN tops ELSE Or1(tops, bot)
       IN  CASE same -> <<[p EXCEPT !.exp = @ \cup q.exp]>> \o Tail(a)
             [] ~same /\ p.max[c] < q.min[c] -> <<p>> \o Or1(Tail(a), q)
             [] ~same /\ q.max[c] < p.min[c] -> <<q>> \o a
             [] OTHER ->
                  Or1(Or1(bots, Ranged(p, c, low, high)), Ranged(q, c, low, high))

OrSet(a, b) == FoldLeft(Or1, a, b)

AndSet(a, b) ==
  IF a = << >> \/ b = << >> THEN << >>
  ELSE FoldLeft(LAMBDA x, r : OrSet(x, And1(a, r)), And1(a, b[1]), Tail(b))

(* Vwsel_init: a comparison of a key column with a constant becomes a box, *)
(* any other condition the expression of the box that holds everything.    *)
Compared(x) ==
  CASE x.op = "gt" -> IF x.v >= M THEN << >> ELSE <<Range1(x.c, Inc(x.v), M)>>
    [] x.op = "ge" -> <<Range1(x.c, x.v, M)>>
    [] x.op = "lt" -> IF x.v <= 0 THEN << >> ELSE <<Range1(x.c, 0, Dec(x.v))>>
    [] x.op = "le" -> <<Range1(x.c, 0, x.v)>>
    [] x.op = "eq" -> <<Range1(x.c, x.v, x.v)>>
    [] x.op = "ne" ->
         LET above == IF x.v < M THEN <<Range1(x.c, Inc(x.v), M)>> ELSE << >>
         IN  IF x.v <= 0 THEN above ELSE OrSet(above, <<Range1(x.c, 0, Dec(x.v))>>)

RECURSIVE VwselInit(_)
VwselInit(x) ==
  CASE x.op = "and"  -> AndSet(VwselInit(x.x), VwselInit(x.y))
    [] x.op = "or"   -> OrSet(VwselInit(x.x), VwselInit(x.y))
    [] x.op = "test" -> <<[WholeBox EXCEPT !.exp = x.set]>>
    [] OTHER         -> Compared(x)

Key(r) == SubSeq(r, 1, K)

(* The cursor's find: the first record whose key is not below k, or none. *)
Find(table, k) ==
  SelectInSeq(table, LAMBDA r : ~Before(Key(r), k))

(* The key above every key that starts like r does before column i: the    *)
(* column before i goes up by one, and carries where it wraps.             *)
RECURSIVE Increment(_, _)
Increment(k, i) ==
  IF i = 0 THEN k
  ELSE IF Inc(k[i]) # 0 THEN [k EXCEPT ![i] = @ + 1]
  ELSE Increment([k EXCEPT ![i] = 0], i - 1)

(* Where_first, Where_next and Where_read, as one walk.  The state s: the  *)
(* position r in the table, the box p, the box at[i] each column last      *)
(* started from, the column i now tested, and whether the boxes were       *)
(* already rescanned for this record.  The result is the records handed    *)
(* out; a walk that is still going after fuel tests is cut off.            *)
RECURSIVE Walk(_, _, _, _)
Walk(table, boxes, s, fuel) ==
  LET row == table[s.r]
      box == boxes[s.p]
      i   == s.i
      to(r, t) == IF r = 0 \/ r > Len(table) THEN << >>
                  ELSE Walk(table, boxes, [t EXCEPT !.r = r, !.i = 1], fuel - 1)
      lastAlike == \/ s.p = Len(boxes)
                   \/ \E c \in 1..(i - 1) : box.min[c] # boxes[s.p + 1].min[c]
      from(rest) == SubSeq(row, 1, i - 1) \o SubSeq(rest, i, K)
      beyond == Increment(from([c \in Cols |-> 0]), i - 1)
  IN  CASE s.r = 0 \/ fuel = 0 -> << >>
        [] fuel > 0 /\ i > K ->
             IF row \in box.exp THEN <<row>> \o to(s.r + 1, [s EXCEPT !.scan = FALSE])
             ELSE to(s.r + 1, s)
        [] fuel > 0 /\ i <= K /\ box.max[i] < row[i] ->
             IF lastAlike
             THEN IF i = 1 THEN << >> ELSE to(Find(table, beyond), s)
             ELSE Walk(table, boxes,
                       [s EXCEPT !.p = @ + 1,
                                 !.at = [c \in Cols |-> IF c > i THEN s.p + 1 ELSE s.at[c]]],
                       fuel - 1)
        [] fuel > 0 /\ i <= K /\ box.min[i] > row[i] ->
             IF s.p # s.at[i] /\ ~s.scan
             THEN to(s.r, [s EXCEPT !.scan = TRUE, !.p = s.at[i]])
             ELSE to(Find(table, from(box.min)),
                     [s EXCEPT !.scan = FALSE, !.p = s.at[i]])
        [] OTHER -> Walk(table, boxes, [s EXCEPT !.i = @ + 1], fuel - 1)

WhereRows(table, boxes, fuel) ==
  IF boxes = << >> THEN << >>
  ELSE Walk(table, boxes,
            [r |-> Find(table, boxes[1].min), p |-> 1, at |-> [c \in Cols |-> 1],
             i |-> 1, scan |-> FALSE], fuel)

(***************************************************************************)
(* What the condition says of one record.                                  *)
(***************************************************************************)
RECURSIVE Holds(_, _)
Holds(x, r) ==
  CASE x.op = "and"  -> Holds(x.x, r) /\ Holds(x.y, r)
    [] x.op = "or"   -> Holds(x.x, r) \/ Holds(x.y, r)
    [] x.op = "test" -> r \in x.set
    [] x.op = "gt"   -> r[x.c] > x.v
    [] x.op = "ge"   -> r[x.c] >= x.v
    [] x.op = "lt"   -> r[x.c] < x.v
    [] x.op = "le"   -> r[x.c] <= x.v
    [] x.op = "eq"   -> r[x.c] = x.v
    [] x.op = "ne"   -> r[x.c] # x.v

Inside(b, r) == \A c \in Cols : b.min[c] <= r[c] /\ r[c] <= b.max[c]
=============================================================================

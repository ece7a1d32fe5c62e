------------------------------- MODULE Joins -------------------------------
(***************************************************************************)
(* The plan of a SELECT over several tables: Select_init and its helpers   *)
(* in src/sql/exec.c drop tables no expression names, replace columns by   *)
(* equal ones of earlier tables, and split the WHERE condition among the   *)
(* tables so that each is read under a condition on it and the tables      *)
(* before it; Join (join.c) then runs the tables like an odometer.         *)
(*                                                                         *)
(* Tables are numbered from 1; level 0 is the outer query (base).  A table *)
(* is a sequence of rows, a row a sequence of values of module Expr.       *)
(***************************************************************************)
EXTENDS Expr, SequencesExt, Functions

RECURSIVE Columns(_)
Columns(x) ==
  CASE x.op = "col"                    -> {x}
    [] x.op \in {"not", "isnul", "neg"} -> Columns(x.x)
    [] x.op \in Binary                 -> Columns(x.x) \cup Columns(x.y)
    [] OTHER                           -> {}

(* maxlevel *)
MaxLevel(x) ==
  LET levels == {c.tab : c \in Columns(x)} \cup {0}
  IN  CHOOSE l \in levels : \A m \in levels : m <= l

RECURSIVE Replaced(_, _)
Replaced(x, by) ==      \* every column c of x replaced by by[c]
  CASE x.op = "col"                    -> IF x \in DOMAIN by THEN by[x] ELSE x
    [] x.op \in {"not", "isnul", "neg"} -> [x EXCEPT !.x = Replaced(x.x, by)]
    [] x.op \in Binary                 -> Node(x.op, Replaced(x.x, by), Replaced(x.y, by))
    [] OTHER                           -> x

(* build_equiv and add_equiv: for the columns that a conjunct of w equates *)
(* the column of the earlier table each stands for.                        *)
AddEquiv(e, p, q) ==
  LET x == IF p.tab < q.tab THEN q ELSE p
      y == IF p.tab < q.tab THEN p ELSE q
  IN  IF x \notin DOMAIN e THEN [c \in DOMAIN e \cup {x} |-> IF c = x THEN y ELSE e[c]]
      ELSE IF e[x].tab > y.tab THEN [c \in DOMAIN e |-> IF e[c] = e[x] THEN y ELSE e[c]]
      ELSE e

ColumnsEqual(x) == x.op = "eq" /\ x.x.op = "col" /\ x.y.op = "col"

RECURSIVE BuildEquiv(_, _)
BuildEquiv(e, w) ==
  IF w.op = "and" THEN BuildEquiv(BuildEquiv(e, w.x), w.y)
  ELSE IF ColumnsEqual(w) THEN AddEquiv(e, w.x, w.y) ELSE e

(* Seeded fault: the equation itself is replaced too. *)
OptEquivAll(e, w) == Replaced(w, e)

(* opt_equiv: an equation of two columns stays as it is. *)
RECURSIVE OptEquiv(_, _)
OptEquiv(e, w) ==
  CASE w.op = "col"                    -> Replaced(w, e)
    [] ColumnsEqual(w)                 -> w
    [] w.op \in {"not", "isnul", "neg"} -> [w EXCEPT !.x = OptEquiv(e, w.x)]
    [] w.op \in Binary                 -> Node(w.op, OptEquiv(e, w.x), OptEquiv(e, w.y))
    [] OTHER                           -> w

(* distrib: a OR (b1 AND b2) as (a OR b1) AND (a OR b2). *)
RECURSIVE Distrib(_, _)
Distrib(a, b) ==
  IF b.op = "and" THEN Mkbinop(Distrib(a, b.x), "and", Distrib(a, b.y))
  ELSE Mkbinop(a, "or", b)

Always == Mkbool(TRUE)     \* a table without a condition

(* split: the conjuncts of w added to the conditions of the tables, each   *)
(* to the last table it names; one that names none to the last table.      *)
RECURSIVE Split(_, _)
Split(cond, w) ==
  LET early == IF w.op = "or" /\ MaxLevel(w.x) < MaxLevel(w.y) THEN w.x ELSE w.y
      late  == IF w.op = "or" /\ MaxLevel(w.x) < MaxLevel(w.y) THEN w.y ELSE w.x
      lev   == IF MaxLevel(w) = 0 THEN Len(cond) ELSE MaxLevel(w)
  IN  IF w.op = "and" THEN Split(Split(cond, w.x), w.y)
      ELSE IF w.op = "or" /\ late.op = "and" THEN Split(cond, Distrib(early, late))
      ELSE [cond EXCEPT ![lev] = IF @ = Always THEN w ELSE Mkbinop(@, "and", w)]

(* renumber and the steps of Select_init around it: the tables some column *)
(* names, their numbers closed up, and the condition under which each is   *)
(* read.  sel is the list of selected columns.                             *)
Plan(ntab, sel, w) ==
  LET used(n) == \E c \in Columns(w) \cup ToSet(sel) : c.tab = n
      kept    == SelectSeq([n \in 1..ntab |-> n], used)
      moved   == [c \in Columns(w) \cup ToSet(sel) |->
                    [c EXCEPT !.tab = CHOOSE m \in DOMAIN kept : kept[m] = c.tab]]
      where   == Replaced(w, moved)
      opt     == OptEquiv(BuildEquiv([c \in {} |-> c], where), where)
  IN  [tab  |-> kept,
       sel  |-> [i \in DOMAIN sel |-> moved[sel[i]]],
       cond |-> Split([n \in DOMAIN kept |-> Always], opt)]

(***************************************************************************)
(* Running it.  pos[n] is the row of table n now read, 0 the record of     *)
(* NULLs supplied for an outer table, and << >> the end.                   *)
(***************************************************************************)
RowAt(table, n) == IF n = 0 THEN [c \in DOMAIN table[1] |-> Null] ELSE table[n]

Passes(tabs, cond, pos, n, r) ==
  Istrue(Eval(cond[n], Len(tabs) + 1,
              [m \in 1..n |-> RowAt(tabs[m], IF m = n THEN r ELSE pos[m])]))

(* Where_read from row r on: the first that passes, or none. *)
Seek(tabs, cond, pos, n, r) ==
  {i \in r..Len(tabs[n]) : /\ Passes(tabs, cond, pos, n, i)
                           /\ \A j \in r..(i - 1) : ~Passes(tabs, cond, pos, n, j)}

(* Join_first and Join_next: Fill starts table n and those after it, and   *)
(* steps the table before on when it finds no row; Step steps table n on.  *)
(* Where_first_outer supplies NULLs, once, where a first finds no row.     *)
RECURSIVE Fill(_, _, _, _, _), Step(_, _, _, _, _)
Fill(tabs, cond, outer, pos, n) ==
  LET found == Seek(tabs, cond, pos, n, 1)
  IN  IF n > Len(tabs) THEN pos
      ELSE IF found # {} THEN Fill(tabs, cond, outer, Append(SubSeq(pos, 1, n - 1), CHOOSE i \in found : TRUE), n + 1)
      ELSE IF n \in outer /\ cond[n] # Always
           THEN Fill(tabs, cond, outer, Append(SubSeq(pos, 1, n - 1), 0), n + 1)
      ELSE Step(tabs, cond, outer, pos, n - 1)
Step(tabs, cond, outer, pos, n) ==
  IF n = 0 THEN << >>
  ELSE LET found == IF pos[n] = 0 THEN {} ELSE Seek(tabs, cond, pos, n, pos[n] + 1)
       IN  IF found = {} THEN Step(tabs, cond, outer, pos, n - 1)
           ELSE Fill(tabs, cond, outer, Append(SubSeq(pos, 1, n - 1), CHOOSE i \in found : TRUE), n + 1)

RECURSIVE Rest(_, _, _, _)
Rest(tabs, cond, outer, pos) ==
  IF pos = << >> THEN << >>
  ELSE <<pos>> \o Rest(tabs, cond, outer, Step(tabs, cond, outer, pos, Len(tabs)))

(* The rows the SELECT returns. *)
Selected(tables, outer, sel, w) ==
  LET plan == Plan(Len(tables), sel, w)
      tabs == [n \in DOMAIN plan.tab |-> tables[plan.tab[n]]]
      out  == {n \in DOMAIN plan.tab : plan.tab[n] \in outer}
      all  == Rest(tabs, plan.cond, out, Fill(tabs, plan.cond, out, << >>, 1))
  IN  [i \in DOMAIN all |->
         [k \in DOMAIN sel |-> RowAt(tabs[plan.sel[k].tab], all[i][plan.sel[k].tab])[sel[k].c]]]

(***************************************************************************)
(* What it should return: the rows of the product, in its order, of which  *)
(* the condition is TRUE; with an outer table, the conditions that name it *)
(* say which of its rows go with a row of the tables before.               *)
(***************************************************************************)
RECURSIVE Conjuncts(_)
Conjuncts(w) == IF w.op = "and" THEN Conjuncts(w.x) \o Conjuncts(w.y) ELSE <<w>>

RECURSIVE Product(_, _, _, _, _)
Product(tables, outer, w, rows, n) ==
  IF n > Len(tables) THEN <<rows>>
  ELSE LET here == SelectSeq(Conjuncts(w), LAMBDA x : MaxLevel(x) = n \/ (MaxLevel(x) = 0 /\ n = Len(tables)))
           good == SelectSeq(tables[n], LAMBDA r :
                     \A i \in DOMAIN here : Kleene(here[i], Append(rows, r)) = "T")
           mine == IF good = << >> /\ n \in outer /\ here # << >>
                   THEN <<RowAt(tables[n], 0)>> ELSE good
       IN  FlattenSeq([i \in DOMAIN mine |-> Product(tables, outer, w, Append(rows, mine[i]), n + 1)])
=============================================================================

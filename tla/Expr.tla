-------------------------------- MODULE Expr --------------------------------
(***************************************************************************)
(* SQL expressions of the client in src/sql: how sql.c builds, reduces and *)
(* evaluates them (mkunop, mkbinop, sql_eval), three functions of func.c   *)
(* and the pattern match of like.c, beside the meaning SQL gives them.     *)
(*                                                                         *)
(* An expression is a record whose "op" is the enum sqlop without its EX:  *)
(*   null                        the unknown value                         *)
(*   bool    b                   a logical constant                        *)
(*   const   v, fix              the number v / 10^fix (date: a day)       *)
(*   dbl     t                   a double, counted here in tenths          *)
(*   string  s                   a string, as a sequence of characters     *)
(*   col     tab, c              column c of the table read at level tab   *)
(*   not, isnul       x          one operand                               *)
(*   and ... sub, cat, like x, y two operands                              *)
(*   if, isnull, substr   args   a function call                           *)
(* Literals are numbers of at most one decimal.  The shared node of the    *)
(* literal 0 (SQLFIXED) is not among them: the code adds into that node in *)
(* place, README section 5.                                                *)
(***************************************************************************)
EXTENDS Lex

Null       == [op |-> "null"]
Mkbool(f)  == [op |-> "bool", b |-> f]
Const(v, fix) == [op |-> "const", v |-> v, fix |-> fix]
Dbl(t)     == [op |-> "dbl", t |-> t]
Str(s)     == [op |-> "string", s |-> s]

Istrue(x)  == x.op = "bool" /\ x.b
Isfalse(x) == x.op = "bool" /\ ~x.b
IsValue(x) == x.op \in {"const", "date", "dbl", "bool", "string"}

Comparisons == {"eq", "ne", "gt", "ge", "lt", "le"}
Binary      == Comparisons \cup {"and", "or", "add", "sub", "cat", "like"}
Functions1  == {"if", "isnull", "substr"}

Node(op, x, y) == [op |-> op, x |-> x, y |-> y]

(* Seeded fault: the reverse of a comparison for its negation. *)
OppositeReversed == [gt |-> "lt", ge |-> "le", eq |-> "ne",
                     ne |-> "eq", lt |-> "gt", le |-> "ge"]

(* The negation of a comparison, as mkunop turns it round. *)
Opposite == [gt |-> "le", ge |-> "lt", eq |-> "ne",
             ne |-> "eq", lt |-> "ge", le |-> "gt"]

(* mkunop: NOT is pushed inwards, IS NULL decided where the operand is     *)
(* known, and any other operator on NULL is NULL.                          *)
RECURSIVE Mkunop(_, _)
Mkunop(op, x) ==
  CASE op = "isnul" /\ x.op = "null" -> Mkbool(TRUE)
    [] op = "isnul" /\ IsValue(x)    -> Mkbool(FALSE)
    [] op = "not" /\ x.op = "bool"   -> Mkbool(~x.b)
    [] op = "not" /\ x.op = "and"    -> Node("or", Mkunop("not", x.x), Mkunop("not", x.y))
    [] op = "not" /\ x.op = "or"     -> Node("and", Mkunop("not", x.x), Mkunop("not", x.y))
    [] op = "not" /\ x.op \in Comparisons -> [x EXCEPT !.op = Opposite[x.op]]
    [] op = "not" /\ x.op = "not"    -> x.x
    [] op = "neg" /\ x.op = "dbl"    -> Dbl(-x.t)
    [] op = "neg" /\ x.op \in {"const", "date"} -> Const(-x.v, IF x.op = "date" THEN 0 ELSE x.fix)
    [] op = "neg" /\ x.op = "sub"    -> Node("sub", x.y, x.x)
    [] x.op = "null"                 -> x
    [] OTHER                         -> [op |-> op, x |-> x]

Fix(x) == IF x.op = "date" THEN 0 ELSE x.fix

(* toconst: the value of x with fix decimals, half a unit added to what is *)
(* cut off.                                                                *)
Toconst(x, fix) ==
  CASE x.op = "dbl"    -> IF fix = 1 THEN x.t ELSE (x.t + 5) \div 10
    [] Fix(x) = fix    -> x.v
    [] Fix(x) < fix    -> x.v * 10
    [] OTHER           -> (x.v + 5) \div 10

(* const2dbl, and mkbinop's change of a constant into a double. *)
Double(x) ==
  IF x.op \in {"const", "date"} THEN Dbl(IF Fix(x) = 1 THEN x.v ELSE 10 * x.v) ELSE x

Compare(op, less, same) ==
  CASE op = "eq" -> same
    [] op = "ne" -> ~same
    [] op = "lt" -> less
    [] op = "le" -> less \/ same
    [] op = "gt" -> ~less /\ ~same
    [] op = "ge" -> ~less

One  == -1        \* the pattern character _
Many == -2        \* the pattern character %

(* like(p, pat): the string is followed by its NUL and then by whatever    *)
(* bytes memory holds, beyond.  After a % the code tries the rest of the   *)
(* pattern at p and then steps p on before it looks: at the end of the      *)
(* string that step has passed the NUL and reads on.                       *)
RECURSIVE Like(_, _, _)
Like(p, pat, beyond) ==
  IF pat = << >> THEN p = << >>
  ELSE IF Head(pat) = Many
       THEN \/ Len(pat) = 1
            \/ Like(p, Tail(pat), beyond)
            \/ IF p = << >>
               THEN beyond # << >> /\ Like(beyond, pat, << >>)
               ELSE Len(p) > 1 /\ Like(Tail(p), pat, beyond)
       ELSE /\ p # << >>
            /\ Head(pat) \in {One, Head(p)}
            /\ Like(Tail(p), Tail(pat), beyond)

(* mkbinop.  One operand NULL makes the result NULL, but for AND and OR,   *)
(* which are decided by the other operand or stay unreduced: the operand   *)
(* that is NULL is then the second.                                        *)
MkNull(a, op, b) ==
  LET x == IF a.op = "null" THEN b ELSE a
  IN  IF op \notin {"and", "or"} THEN Null
      ELSE IF IF op = "and" THEN Isfalse(x) ELSE Istrue(x) THEN x
      ELSE Node(op, x, Null)

MkSum(a, op, b) ==
  LET x == IF b.op = "date" /\ op = "add" THEN b ELSE a
      y == IF b.op = "date" /\ op = "add" THEN a ELSE b
  IN  IF /\ x.op \in {"const", "date"}
         /\ y.op \in (IF x.op = "date" THEN {"const", "dbl"} ELSE {"const"})
      THEN LET d == Toconst(y, Fix(x))
           IN  [x EXCEPT !.v = IF op = "sub" THEN x.v - d ELSE x.v + d]
      ELSE LET p == Double(x) q == Double(y)
           IN  IF p.op = "dbl" /\ q.op = "dbl"
               THEN Dbl(IF op = "sub" THEN p.t - q.t ELSE p.t + q.t)
               ELSE Node(op, p, q)

MkLogic(x, op, y) ==
  CASE x.op = "bool"                -> IF x.b = (op = "and") THEN y ELSE x
    [] y.op = "bool" /\ op = "and"  -> IF y.b THEN x ELSE y
    [] OTHER                        -> Node(op, x, y)

Mkbinop(x, op, y) ==
  CASE x.op = "null" \/ y.op = "null" -> MkNull(x, op, y)
    [] op \in {"add", "sub"}          -> MkSum(x, op, y)
    [] op \in {"and", "or"}           -> MkLogic(x, op, y)
    [] x.op = "string" /\ y.op = "string" ->
         CASE op = "cat"  -> Str(x.s \o y.s)
           [] op = "like" -> Mkbool(Like(x.s, y.s, << >>))
           [] OTHER       -> Mkbool(Compare(op, Before(x.s, y.s), x.s = y.s))
    [] OTHER ->
         LET p == Double(x) q == Double(y)
         IN  IF p.op = "dbl" /\ q.op = "dbl" /\ op \in Comparisons
             THEN Mkbool(Compare(op, p.t < q.t, p.t = q.t))
             ELSE Node(op, p, q)

Call(f, args) == [op |-> f, args |-> args]

(* sql_if(cond, value, cond, value, ..., value): pairs whose condition is  *)
(* FALSE are dropped, a TRUE one gives its value, an unknown one gives     *)
(* NULL whatever follows; anything else waits.                             *)
RECURSIVE SqlIf(_)
SqlIf(a) ==
  CASE Len(a) = 0        -> Null
    [] Len(a) = 1        -> a[1]
    [] a[1].op = "null"  -> Null
    [] Istrue(a[1])      -> a[2]
    [] Isfalse(a[1])     -> SqlIf(SubSeq(a, 3, Len(a)))
    [] OTHER             -> Call("if", a)

SqlIsnull(a) ==
  CASE a[1].op = "null" -> a[2]
    [] IsValue(a[1])    -> a[1]
    [] OTHER            -> Call("isnull", a)

(* sql_substr(string, from, for): positions count from 1; characters       *)
(* before the first are counted off the length.                            *)
SqlSubstr(a) ==
  IF a[1].op \notin {"string", "null"} THEN Call("substr", a)
  ELSE IF a[1].op = "null" \/ a[2].op = "null" THEN Null
  ELSE IF ~(a[2].op \in {"const", "dbl", "date"}) THEN Call("substr", a)
  ELSE IF Len(a) = 3 /\ a[3].op = "null" THEN Null
  ELSE IF Len(a) = 3 /\ ~(a[3].op \in {"const", "dbl", "date"}) THEN Call("substr", a)
  ELSE LET s    == a[1].s
           at   == Toconst(a[2], 0) - 1
           pos  == IF at < 0 THEN 0 ELSE at
           want == IF Len(a) = 3 THEN Toconst(a[3], 0) + (IF at < 0 THEN at ELSE 0)
                   ELSE Len(s) - pos
           len  == IF pos + want > Len(s) THEN Len(s) - pos ELSE want
       IN  Str(IF len <= 0 THEN << >> ELSE SubSeq(s, pos + 1, pos + len))

Apply(f, args) ==
  CASE f = "if" -> SqlIf(args) [] f = "isnull" -> SqlIsnull(args) [] OTHER -> SqlSubstr(args)

(* sql_eval(x, idx): the columns of the tables below level idx are read,   *)
(* and what their values decide is reduced.  With idx 0 this is also how   *)
(* the parser builds the expression, bottom up.                            *)
RECURSIVE Eval(_, _, _)
Eval(x, idx, row) ==
  CASE x.op = "col"            -> IF x.tab < idx THEN row[x.tab][x.c] ELSE x
    [] x.op \in {"not", "isnul", "neg"} -> Mkunop(x.op, Eval(x.x, idx, row))
    [] x.op \in Binary         -> Mkbinop(Eval(x.x, idx, row), x.op, Eval(x.y, idx, row))
    [] x.op \in Functions1     -> Apply(x.op, [i \in DOMAIN x.args |-> Eval(x.args[i], idx, row)])
    [] OTHER                   -> x

(***************************************************************************)
(* The meaning of an expression: three-valued logic over exact values.     *)
(***************************************************************************)
Not3(a)    == CASE a = "T" -> "F" [] a = "F" -> "T" [] OTHER -> "U"
And3(a, b) == IF "F" \in {a, b} THEN "F" ELSE IF "U" \in {a, b} THEN "U" ELSE "T"
Truth(f)   == IF f THEN "T" ELSE "F"

(* A pattern matches a string if the string is the pattern with every %    *)
(* replaced by some string and every _ by some character.                  *)
RECURSIVE Matches(_, _)
Matches(p, pat) ==
  IF pat = << >> THEN p = << >>
  ELSE IF Head(pat) = Many
       THEN \E i \in 0..Len(p) : Matches(SubSeq(p, i + 1, Len(p)), Tail(pat))
       ELSE p # << >> /\ Head(pat) \in {One, Head(p)} /\ Matches(Tail(p), Tail(pat))

RECURSIVE Value(_, _), Kleene(_, _)
Value(x, row) ==
  CASE x.op = "col" -> Double(row[x.tab][x.c])
    [] x.op \in {"add", "sub"} ->
         LET p == Value(x.x, row) q == Value(x.y, row)
         IN  IF Null \in {p, q} THEN Null
             ELSE Dbl(IF x.op = "add" THEN p.t + q.t ELSE p.t - q.t)
    [] x.op = "cat" ->
         LET p == Value(x.x, row) q == Value(x.y, row)
         IN  IF Null \in {p, q} THEN Null ELSE Str(p.s \o q.s)
    [] x.op = "isnull" ->
         IF Value(x.args[1], row) = Null THEN Value(x.args[2], row) ELSE Value(x.args[1], row)
    [] x.op = "if" -> IF Kleene(x.args[1], row) = "T" THEN Value(x.args[2], row)
                      ELSE Value(x.args[3], row)
    [] x.op = "substr" ->
         LET p  == Value(x.args[1], row)
             f  == Toconst(x.args[2], 0)
             to == IF Len(x.args) = 3 THEN f + Toconst(x.args[3], 0) - 1 ELSE Len(p.s)
         IN  IF p = Null THEN Null
             ELSE Str(SubSeq(p.s, IF f < 1 THEN 1 ELSE f, IF to > Len(p.s) THEN Len(p.s) ELSE to))
    [] OTHER -> Double(x)

Kleene(x, row) ==
  CASE x.op = "not"   -> Not3(Kleene(x.x, row))
    [] x.op = "and"   -> And3(Kleene(x.x, row), Kleene(x.y, row))
    [] x.op = "or"    -> Not3(And3(Not3(Kleene(x.x, row)), Not3(Kleene(x.y, row))))
    [] x.op = "isnul" -> Truth(Value(x.x, row) = Null)
    [] x.op = "bool"  -> Truth(x.b)
    [] x.op \in Comparisons \cup {"like"} ->
         LET p == Value(x.x, row) q == Value(x.y, row)
         IN  IF Null \in {p, q} THEN "U"
             ELSE IF x.op = "like" THEN Truth(Matches(p.s, q.s))
             ELSE IF p.op = "string" THEN Truth(Compare(x.op, Before(p.s, q.s), p.s = q.s))
             ELSE Truth(Compare(x.op, p.t < q.t, p.t = q.t))
    [] OTHER -> "U"
=============================================================================

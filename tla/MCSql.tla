------------------------------- MODULE MCSql -------------------------------
(***************************************************************************)
(* The algorithms of the SQL client over bounded inputs, and those that    *)
(* lay out the records it reads (C-ISAM's key maps, packing, conversion).  *)
(* Each behaviour takes one case of one part, and its single step computes *)
(* what the code answers; the invariants compare the answer with what it   *)
(* should be.                                                              *)
(***************************************************************************)
EXTENDS Expr, SequencesExt, FiniteSets, TLC

VARIABLES part,      \* the algorithm this behaviour is about
          q,         \* the case put to it
          a,         \* its answer, <<>> before the step
          table, sfile, stmt, cursor, phase, before, done  \* those of Statements

stmtVars == <<table, sfile, stmt, cursor, phase, before, done>>
vars == <<part, q, a, stmtVars>>

(***************************************************************************)
(* Conditions of a join of two tables: column 1 of each is a number with   *)
(* one decimal, column 2 a string.                                         *)
(***************************************************************************)
Col(t, c) == [op |-> "col", tab |-> t, c |-> c]
Num == {Null, Const(10, 1), Const(15, 1)}
Text == {Null, Str(<<1>>), Str(<<1, 2>>)}

Not(x) == [op |-> "not", x |-> x]
IsNul(x) == [op |-> "isnul", x |-> x]

Atoms ==
  { Node("lt", Col(0, 1), Const(15, 1)),
    Node("eq", Col(0, 1), Col(1, 1)),
    Node("ge", Const(2, 0), Node("add", Col(1, 1), Const(1, 0))),
    Node("gt", Node("sub", Col(0, 1), Col(1, 1)), Dbl(0)),
    Node("like", Col(0, 2), Str(<<Many, 2>>)),
    Node("le", Node("cat", Col(0, 2), Col(1, 2)), Str(<<1, 2, 1>>)),
    IsNul(Col(1, 1)),
    Node("gt", Call("if", <<Node("ge", Col(0, 1), Const(15, 1)), Const(3, 0), Col(1, 1)>>),
               Const(1, 0)),
    Node("eq", Call("substr", <<Col(0, 2), Const(2, 0)>>), Str(<<2>>)),
    Node("lt", Call("substr", <<Col(1, 2), Const(0, 0), Const(2, 0)>>), Col(0, 2)),
    Node("ne", Call("isnull", <<Col(0, 1), Const(3, 0)>>), Const(1, 0)) }

Literals == Atoms \cup {Not(x) : x \in Atoms} \cup {Mkbool(TRUE)}
Pairs    == {Node(op, x, y) : op \in {"and", "or"}, x \in Literals, y \in Literals}
Deep     == {Node("or", Node("and", x, Not(y)), Mkbool(TRUE)) : x \in Atoms, y \in Atoms}
              \cup {Node("and", Not(Node(op, x, y)), Node("or", y, Not(x))) :
                      op \in {"and", "or"}, x \in Atoms, y \in Atoms}
Conditions == Literals \cup Pairs \cup {Not(p) : p \in Pairs} \cup Deep

Rows == {[t \in 0..1 |-> IF t = 0 THEN <<x, s>> ELSE <<y, u>>] :
           x \in Num, y \in Num, s \in Text, u \in {Null, Str(<<1>>)}}

InitExpr == part = "expr" /\ q \in [exp : Conditions, row : Rows]

(* The condition as the parser leaves it, with the outer table's columns   *)
(* read, with both tables' columns read in a second stage, and all at once.*)
AnswerExpr ==
  /\ part = "expr"
  /\ \E built \in {Eval(q.exp, 0, q.row)} :
       \E outer \in {Eval(built, 1, q.row)} :
         a' = [staged |-> Eval(outer, 2, q.row), once |-> Eval(built, 2, q.row)]

(* A row that passes the test (istrue of the evaluated      *)
(* condition, in Where_read) is one of which SQL's logic says TRUE.        *)
KeepsOnlyTrue ==
  (Istrue(a.once) \/ Istrue(a.staged)) =>
    Kleene(q.exp, q.row) = "T"

(* A row of which the condition is TRUE passes, but for the two            *)
(* forms the code leaves unknown: an OR whose left side mkbinop kept as an *)
(* unknown AND or OR node and whose right side is TRUE, and an IF whose    *)
(* condition is unknown, where SQL takes the ELSE.                         *)
RECURSIVE LeftUnknown(_, _)
LeftUnknown(x, row) ==
  \/ x.op = "not" /\ LeftUnknown(x.x, row)
  \/ /\ x.op \in {"and", "or"}
     /\ \/ LeftUnknown(x.x, row) \/ LeftUnknown(x.y, row)
        \/ Kleene(x.x, row) = "U" /\ x.x.op \in {"and", "or", "not"}
  \/ /\ x.op \in Comparisons /\ x.x.op = "if"
     /\ Kleene(x.x.args[1], row) = "U"
LosesNone ==
  Kleene(q.exp, q.row) = "T" =>
    (Istrue(a.once) /\ Istrue(a.staged)) \/ LeftUnknown(q.exp, q.row)

(***************************************************************************)
(* LIKE: strings and patterns of two characters, and what follows the      *)
(* string in memory.                                                       *)
(***************************************************************************)
Strings(cs, n) == UNION {[1..k -> cs] : k \in 0..n}

InitLike ==
  /\ part = "like"
  /\ q \in [p : Strings({1, 2}, 3), pat : Strings({1, 2, One, Many}, 3), beyond : Strings({2}, 1)]

AnswerLike == part = "like" /\ a' = <<Like(q.p, q.pat, q.beyond)>>

(* LIKE accepts what the pattern describes and nothing else, *)
(* whatever follows the string in memory, but for a % that is followed by  *)
(* more of the pattern and reached when the string is used up.             *)
EndsInside(p, pat) ==
  \E i \in DOMAIN pat : pat[i] = Many /\ i < Len(pat) /\ Matches(p, SubSeq(pat, 1, i - 1))
LikeMatches ==
  \/ a[1] = Matches(q.p, q.pat)
  \/ q.beyond # << >> /\ EndsInside(q.p, q.pat)

(* ConditionRight: the reduced and evaluated condition of a WHERE lets a   *)
(* row pass if and only if SQL's logic says TRUE of it, however many       *)
(* stages it is evaluated in; LIKE matches what the pattern describes; but *)
(* for the forms excepted above.                                           *)
ConditionRight ==
  a # << >> => /\ part = "expr" => KeepsOnlyTrue /\ LosesNone
               /\ part = "like" => LikeMatches

(***************************************************************************)
(* Key ranges: two key columns of four values and a third column that is   *)
(* no key; tables with and without the greatest value of the first column. *)
(***************************************************************************)
KeyRecords == {<<i, j, x>> : i \in 0..3, j \in 0..3, x \in 0..1}
Select == INSTANCE Boxes WITH K <- 2, M <- 3, Records <- KeyRecords

Tables == { Ascending({r \in KeyRecords : r[1] < 3}),
            Ascending({r \in KeyRecords : r[3] = (r[1] + r[2]) % 2}),
            <<<<0, 3, 1>>, <<1, 0, 0>>, <<1, 2, 1>>, <<2, 2, 0>>>>,
            <<<<0, 1, 1>>, <<2, 2, 0>>, <<3, 0, 1>>, <<3, 1, 0>>, <<3, 3, 1>>>> }

Cmp(op, c, v) == [op |-> op, c |-> c, v |-> v]
Both(x, y)    == Node("and", x, y)
Either(x, y)  == Node("or", x, y)

Rectangles(los, his) ==
  {Both(Both(Cmp("ge", 1, i), Cmp("le", 1, j)), Both(Cmp("ge", 2, k), Cmp("le", 2, l))) :
     i \in los, j \in his, k \in los, l \in his}
KeyAtoms == {Cmp(op, c, v) : op \in {"gt", "lt", "eq", "ne"}, c \in 1..2, v \in {0, 2, 3}}
              \cup {[op |-> "test", set |-> {r \in KeyRecords : r[3] = 1}]}
KeyConditions ==
  {Either(x, y) : x \in Rectangles({0, 1, 2}, {1, 2, 3}), y \in Rectangles({0, 1}, {0, 1, 2})}
    \cup {Either(Either(x, y), z) : x \in Rectangles({0, 2}, {2, 3}),
                                    y \in Rectangles({1}, {1, 3}), z \in Rectangles({0, 1}, {1})}
    \cup {Both(Either(x, y), z) : x \in KeyAtoms, y \in KeyAtoms, z \in KeyAtoms}

InitSelect == part = "select" /\ q \in [exp : KeyConditions, table : Tables]

AnswerSelect ==
  /\ part = "select"
  /\ \E boxes \in {Select!VwselInit(q.exp)} :
       a' = [boxes |-> boxes, rows |-> Select!WhereRows(q.table, boxes, 8 * Len(q.table))]

(* "The list is kept sorted and the boxes disjoint" (vwopt.c): no key lies *)
(* in two boxes.                                                           *)
BoxesDisjoint ==
  \A r \in KeyRecords, m, n \in DOMAIN a.boxes :
    Select!Inside(a.boxes[m], r) /\ Select!Inside(a.boxes[n], r) => m = n

(* RowsOnce: the walk through the boxes, which are disjoint, hands out     *)
(* every record of which the condition is true, once, in the order of the  *)
(* key, and no other; but it does not end where it meets a record whose    *)
(* first key column has its greatest value and whose second is above what  *)
(* the boxes of that value hold.  The key it goes on from wraps to zero,   *)
(* and it begins again once it has handed out the records before that one: *)
(* all of them, as far as the last box goes, and no other.                 *)
Wraps ==
  \E r \in Range(q.table), b \in Range(a.boxes) : r[1] = 3 /\ b.max[1] = 3 /\ b.max[2] < r[2]
RowsOnce ==
  part = "select" /\ a # << >> =>
    LET asked == SelectSeq(q.table, LAMBDA r : Select!Holds(q.exp, r))
    IN  /\ BoxesDisjoint
        /\ ~Wraps => a.rows = asked
        /\ Wraps  => IsPrefix(asked, a.rows) /\ Range(a.rows) \subseteq Range(asked)

(***************************************************************************)
(* Sorting: sources of three columns with a key of one or two, every order *)
(* list of at most two columns, and what is selected.                      *)
(***************************************************************************)
Sort == INSTANCE Sorting WITH M <- 2

Tuples(key, rest) ==      \* the sorted tables whose key columns range over key
  {Ascending({k \o f[k] : k \in DOMAIN f}) : f \in UNION {[ks -> rest] : ks \in SUBSET key}}

Sources ==
  [klen : {2}, rows : Tuples({<<i, j>> : i, j \in 0..1}, {<<0>>, <<2>>})]
    \cup [klen : {1}, rows : Tuples({<<0>>, <<1>>, <<2>>}, {<<i, j>> : i, j \in {0, 1}})]

Entry(c, desc) == [c |-> c, desc |-> desc]
Lists(E) == {<<e>> : e \in E} \cup {<<e, f>> : e, f \in E}
OrderLists == {<< >>} \cup Lists({Entry(c, d) : c \in 1..3, d \in BOOLEAN})
Fields(cs) == [i \in DOMAIN cs |-> Sort!Col(cs[i])]
Agg(kind) == [kind |-> kind, c |-> 3]

InitSort ==
  /\ part = "sort"
  /\ \E src \in Sources, d \in {"keep", "distinct"}, o \in OrderLists,
        s \in {Fields(<<3>>), Fields(<<1, 2>>), Fields(<<2, 3>>), Fields(<<3, 2, 1>>)} :
       /\ d = "distinct" => \A i \in DOMAIN o : \E j \in DOMAIN s : s[j] = Sort!Col(o[i].c)
       /\ q = [src |-> src, o |-> o, s |-> s, d |-> d]

InitGroup ==
  /\ part = "group"
  /\ \E src \in Sources, g \in {<< >>} \cup Lists({Entry(c, FALSE) : c \in 1..2}) :
       q = [src |-> src, o |-> g, s |-> [i \in DOMAIN g |-> Sort!Col(g[i].c)]
                                        \o <<Agg("sum"), Agg("cnt"), Agg("max"), Agg("min")>>,
            d |-> "group"]

AnswerSort ==
  /\ part \in {"sort", "group"}
  /\ a' = <<Sort!Ordered(q.src.klen, q.src.rows, q.o, q.s, q.d)>>

(* ORDER BY returns every row of the source, in the order asked for, rows  *)
(* equal in it as they came; with DISTINCT every different row once.  But  *)
(* the first columns of the list, as far as they are those of the source's *)
(* key, come in the order of the source: it is read run by run, rows alike *)
(* in those columns making a run.  Where one of them is to descend and     *)
(* more columns follow, a run comes with all rows of earlier ones that are *)
(* to follow it: rows are returned again and again.                        *)
SortedRight ==
  LET rows  == q.src.rows
      lead  == Max({n \in 0..Min({q.src.klen, Len(q.o)}) : \A i \in 1..n : q.o[i].c = i})
      Lead(r) == SubSeq(Sort!OrderKey(q.o, r), 1, lead)
      asis  == q.d = "keep" /\ \A i \in DOMAIN q.o : q.o[i].c <= lead
      ends  == SelectSeq([n \in DOMAIN rows |-> n],
                         LAMBDA n : n = Len(rows) \/ Lead(rows[n]) # Lead(rows[n + 1]))
      Run(n) == SelectSeq(SubSeq(rows, 1, n), LAMBDA r : ~Before(Lead(r), Lead(rows[n])))
      Each(S) == Ascending({Sort!OrderKey(q.o, r) \o Sort!Picked(q.s, r) : r \in Range(S)})
      all   == IF asis THEN rows ELSE FlattenSeq([i \in DOMAIN ends |-> Sort!StableSort(Run(ends[i]), q.o)])
      each  == FlattenSeq([i \in DOMAIN ends |-> Each(Run(ends[i]))])
  IN  IF q.d = "keep" THEN a[1] = [n \in DOMAIN all |-> Sort!Picked(q.s, all[n])]
      ELSE a[1] = [n \in DOMAIN each |-> SubSeq(each[n], Len(q.o) + 1, Len(each[n]))]

(* GROUP BY returns each group once, in order, with the sum,  *)
(* count, greatest and least value of its rows, whether or not the source  *)
(* delivers the group in one run.  Aggregates without GROUP BY are of one  *)
(* group that is all rows, but none where there are no rows: no row, where *)
(* SQL has one with a COUNT of 0.                                          *)
GroupsRight ==
    LET rows == q.src.rows
        keys == Ascending({Sort!OrderKey(q.o, rows[n]) : n \in DOMAIN rows})
        Of(k) == SelectSeq(rows, LAMBDA r : Sort!OrderKey(q.o, r) = k)
        v    == [r \in {rows[n] : n \in DOMAIN rows} |-> r[3]]
    IN  a[1] = [n \in DOMAIN keys |->
                  keys[n] \o <<Sort!Total("sum", Of(keys[n]), v), Sort!Total("cnt", Of(keys[n]), v),
                               Sort!Total("max", Of(keys[n]), v), Sort!Total("min", Of(keys[n]), v)>>]

(* An ordered, distinct or grouped cursor returns the rows, or the groups, *)
(* that were asked for, each once and in order.                            *)
OrderRight ==
  a # << >> => /\ part = "sort" => SortedRight
               /\ part = "group" => GroupsRight

(***************************************************************************)
(* Joins of two and three tables of one or two columns; with outer tables  *)
(* a condition that equates two columns and one that may name them again.  *)
(***************************************************************************)
Plans == INSTANCE Joins

V(n) == Const(n, 0)
T1 == <<<<V(1), V(1)>>, <<V(1), V(2)>>, <<V(2), V(1)>>>>
T2 == <<<<V(1), V(2)>>, <<V(2), V(2)>>, <<V(3), V(1)>>>>
T3 == <<<<V(2), V(1)>>, <<V(2), V(3)>>>>

Eq(x, y) == Node("eq", x, y)
Joined == {Eq(Col(1, 1), Col(2, 1)), Eq(Col(2, 2), Col(1, 2)), Eq(Col(3, 1), Col(2, 1)),
           Eq(Col(1, 1), Col(1, 2)), Eq(Col(3, 1), Col(1, 2))}
Tests  == {Node("gt", Col(2, 1), V(1)), Node("le", Col(1, 2), V(1)), Node("ne", Col(3, 2), Col(2, 2)),
           Not(Eq(Col(2, 2), V(2))), Eq(V(2), Col(3, 1))}
Wheres ==
  {Both(x, y) : x \in Joined, y \in Joined \cup Tests}
    \cup {Both(x, Both(y, z)) : x \in Joined, y \in Joined, z \in Tests}
    \cup {Either(Both(x, y), z) : x \in Tests, y \in Tests, z \in Joined}
    \cup {Both(z, Either(x, Both(y, z))) : x \in Tests, y \in Tests, z \in Joined}

TablesOf(n) == SubSeq(<<T1, T2, T3>>, 1, n)
Star(n) == [i \in 1..(2 * n) |-> Col((i + 1) \div 2, 2 - (i % 2))]
Names(w) == {c.tab : c \in Plans!Columns(w)}

InitJoin ==
  /\ part = "join"
  /\ \E n \in 2..3, w \in Wheres :
       /\ Names(w) \subseteq 1..n
       /\ q = [n |-> n, outer |-> {}, where |-> w]
InitOuter ==
  /\ part = "join"
  /\ \E n \in 2..3, j \in Joined, t \in Tests, o \in SUBSET {2, 3} :
       /\ Names(Both(j, t)) \subseteq 1..n
       /\ q = [n |-> n, outer |-> o, where |-> Both(j, t)]

AnswerJoin ==
  /\ part = "join"
  /\ a' = <<Plans!Selected(TablesOf(q.n), q.outer, Star(q.n), q.where)>>

(* The plan, with its conditions split, distributed and moved to equal     *)
(* columns, returns the rows the statement asks for, each as often as the  *)
(* product of the tables has it and in the product's order.  But with an   *)
(* outer table a condition on a column that is equated with one of an      *)
(* earlier table is taken for one on the latter: rows of the earlier table *)
(* of which it is false are left out, where a row of NULLs was to go with  *)
(* them, and it may be true beside a row of NULLs.                         *)
Earlier(eq, x) ==
  LET late  == IF eq.x.tab < eq.y.tab THEN eq.y ELSE eq.x
      early == IF eq.x.tab < eq.y.tab THEN eq.x ELSE eq.y
  IN  Plans!Replaced(x, late :> early)
TakenFor(w) == IF q.outer = {} THEN w ELSE Both(w.x, Earlier(w.x, w.y))
JoinRows ==
  part = "join" /\ a # << >> =>
    LET product == Plans!Product(TablesOf(q.n), q.outer, TakenFor(q.where), << >>, 1)
        star    == Star(q.n)
    IN  a[1] = [i \in DOMAIN product |->
                  [k \in DOMAIN star |-> product[i][star[k].tab][star[k].c]]]

(* RowsAsked: a SELECT with an ORDER BY, DISTINCT or GROUP BY, or of joined *)
(* tables, returns the rows asked for, and each as often and where it       *)
(* should; but for descending columns the source is ascending by, the count *)
(* of no rows, and conditions moved away from an outer table, as said above.*)
RowsAsked == OrderRight /\ JoinRows

(***************************************************************************)
(* Key maps: records of four bytes whose field table cuts them anywhere or *)
(* is made by makeflds (cut = {0}), primary keys of one to three parts     *)
(* anywhere in it, with or without a record number, and a second index     *)
(* (none: the index by record number).                                     *)
(***************************************************************************)
Maps == INSTANCE KeyMap WITH Tmp <- 1, MaxKey <- 4

Size == 4
Part(p, n) == [pos |-> p, len |-> n, type |-> IF p = 2 THEN "num" ELSE "char"]
Parts == {x \in {Part(p, n) : p \in 0..(Size - 1), n \in 1..Size} : x.pos + x.len <= Size}
Apart(kd) == \A i, j \in DOMAIN kd : i < j => \/ kd[i].pos + kd[i].len <= kd[j].pos
                                              \/ kd[j].pos + kd[j].len <= kd[i].pos
Keydescs == {kd \in {<<x>> : x \in Parts} \cup (Parts \X Parts) \cup (Parts \X Parts \X Parts) : Apart(kd)}
Cut(cuts) ==
  LET s == SetToSortSeq(cuts \cup {0}, <)
  IN  [i \in DOMAIN s |-> [pos |-> s[i], len |-> (IF i = Len(s) THEN Size ELSE s[i + 1]) - s[i],
                           type |-> IF i = 2 THEN "num" ELSE "char"]]

InitKeys ==
  /\ part = "keys"
  /\ q \in [kd : Keydescs, cut : SUBSET (1..(Size - 1)) \cup {{0}}, num : BOOLEAN,
            idx : {<<>>, <<Part(1, 2)>>, <<Part(2, 2), Part(0, 1)>>}, dups : BOOLEAN]
  /\ q.idx = <<>> => q.num
  /\ q.dups => Len(q.idx) = 2

UserFields == IF q.cut = {0} THEN Maps!Makeflds(q.kd, Size, q.num)
              ELSE Cut(q.cut) \o IF q.num THEN <<[pos |-> Size, len |-> 4, type |-> "recno"]>> ELSE <<>>
Further == <<[pos |-> 0, len |-> 2, type |-> "char"], [pos |-> 0, len |-> 1, type |-> "num"]>>
AnswerKeys ==
  /\ part = "keys"
  /\ \E b \in {Maps!Built(UserFields, q.kd)} : \E o \in {Maps!Isopenx(b.fields, q.kd)} :
       a' = [built |-> b, opened |-> o, index |-> Maps!Isconvkey(o, Maps!Iskeynorm(q.idx), q.dups, FALSE),
             added |-> Maps!Isaddflds(b, q.kd, Further), filled |-> Maps!Isaddflds(Maps!All(<<>>), q.kd, UserFields)]

(* The records of a file, and of its indexes, begin with the bytes of the  *)
(* key in its order; isopenx finds the map that isbuildx used; an index    *)
(* record has the bytes of both keys once, and its key is exactly the key  *)
(* (all of it, with duplicates) when no part ends inside a field; fields   *)
(* added later are found behind the others, if these have no record number,*)
(* and an empty file filled with fields is the file built with them.       *)
KeyBytes(kd) == Maps!Bytes(kd)
KeyOf(f)     == Maps!Bytes(SubSeq(f.fields, 1, f.klen))
Aligned(kd)  ==
  \A p \in Range(kd), f \in Range(UserFields) :
    \/ f.pos + f.len <= p.pos \/ f.pos >= p.pos + p.len
    \/ p.pos <= f.pos /\ f.pos + f.len <= p.pos + p.len
KeysLead ==
  LET all   == [i \in 1..(Size + IF q.num THEN 4 ELSE 0) |-> i - 1]
      key   == KeyBytes(q.kd)
      ikey  == IF q.idx = <<>> THEN <<4, 5, 6, 7>> ELSE KeyBytes(q.idx)
      index == Maps!Bytes(a.index.fields)
  IN  /\ Maps!Bytes(a.built.fields) = key \o SelectSeq(all, LAMBDA x : x \notin Range(key))
      /\ a.opened = a.built
      /\ IsPrefix(key, KeyOf(a.opened))
      /\ IsPrefix(ikey, KeyOf(a.index)) /\ Range(key) \subseteq Range(index) /\ IsInjective(index)
      /\ ~q.num => a.added = Maps!Isopenx(a.added.fields, q.kd)
      /\ Maps!Bytes(a.filled.fields) = Maps!Bytes(a.built.fields)
      /\ q.dups => KeyOf(a.index) = index
      /\ Aligned(q.kd) => KeyOf(a.opened) = key
      /\ Aligned(q.kd) /\ Aligned(q.idx) /\ ~q.dups => KeyOf(a.index) = ikey

(***************************************************************************)
(* Packing: records of four bytes under five field tables, every length of *)
(* key, and all characters the coding has a place for.                     *)
(***************************************************************************)
Conv == INSTANCE Convert WITH Base <- 6, Blank <- 2, Highest <- 4, DayCent <- 7

Field(pos, len, type) == [pos |-> pos, len |-> len, type |-> type]
Layouts ==
  { <<Field(0, 4, "char")>>,
    <<Field(0, 2, "char"), Field(2, 1, "bin"), Field(3, 1, "char")>>,
    <<Field(0, 2, "bin"), Field(2, 2, "char")>>,
    <<Field(0, 1, "desc"), Field(1, 2, "char"), Field(3, 1, "bin")>>,
    <<Field(1, 3, "char"), Field(4, 4, "recno"), Field(0, 1, "bin")>> }
Holding(fields) ==
  LET Of(type) == UNION {(f.pos + 1)..(f.pos + f.len) : f \in {g \in Range(fields) : g.type = type}}
  IN  [rec : {r \in [1..4 -> {0, 2, 3, 4, 5}] :
                \A i \in 1..4 : r[i] \in (IF i \in Of("char") THEN {2, 3, 4} ELSE {0, 5})},
       num : IF Of("recno") = {} THEN {0} ELSE {0, 7}]

InitPack == part = "pack" /\ q \in [fields : Layouts, klen : 0..4]

AnswerPack ==
  /\ part = "pack"
  /\ a' = [r \in Holding(q.fields) |->
             LET p == Conv!U2brec(q.fields, r.rec, r.num, q.klen)
             IN  [buf |-> p.buf, klen |-> p.klen, back |-> Conv!B2urec(q.fields, 4, p.buf)]]

(* The packed record is no longer than the record, unpacks to it (but for  *)
(* a descending field of which nothing is left), and is in the same        *)
(* order; equal keys are equal packed keys, and a packed key   *)
(* is the beginning of just the records with that key, but for the part of *)
(* a character field that ends in a blank.                                 *)
Laid(r) ==
  FlattenSeq([i \in DOMAIN q.fields |->
    LET f == q.fields[i]
        u == SubSeq(r.rec, f.pos + 1, f.pos + f.len)
    IN  CASE f.type = "recno" -> Conv!Digits(r.num, 4) [] f.type = "desc" -> Conv!Complement(u) [] OTHER -> u])
Whole == \E n \in 0..Len(q.fields) : q.klen = Maps!Sum(q.fields, n)
PackedRight ==
  LET laid == [r \in DOMAIN a |-> Laid(r)]
      key  == [r \in DOMAIN a |-> SubSeq(laid[r], 1, q.klen)]
      pkey == [r \in DOMAIN a |-> SubSeq(a[r].buf, 1, a[r].klen)]
  IN  /\ \A r \in DOMAIN a : /\ a[r].back = [urec |-> r.rec, recnum |-> r.num, buf |-> <<>>] \/ a[r].buf = <<>>
                             /\ Len(a[r].buf) <= Len(laid[r])
      /\ \A r, s \in DOMAIN a :
           /\ Before(laid[r], laid[s]) <=> Before(a[r].buf, a[s].buf)
           /\ Whole \/ key[r][q.klen] # 2 => (key[r] = key[s] <=> IsPrefix(pkey[r], a[s].buf))

(***************************************************************************)
(* Values in columns of every kind and of one to seven bytes.              *)
(***************************************************************************)
ColumnsOf ==
  {Conv!Column(f) : f \in
     [type : {"num"}, len : 1..7, fix : 0..1] \cup {Field(0, 2, "char"), Field(0, 2, "date"), Field(0, 4, "date"),
      Field(0, 4, "time"), Field(0, 8, "flt"), Field(0, 3, "bin"), Field(0, 8, "recno")}}
Values ==
  {Null} \cup {Const(v, 0) : v \in {-649, -648, -647, -18, -3, -1, 0, 1, 2, 3, 8, 17, 18, 43, 647, 648, 3888}}
    \cup {Const(v, 1) : v \in {-10, -5, 0, 4, 5, 14, 30}} \cup {Dbl(t) : t \in {-25, -10, 0, 5, 80, 85}}
    \cup {Str(s) : s \in {<<>>, <<3>>, <<3, 2, 4>>, <<2, 3>>, <<3, 2>>, <<0, 3>>}}

InitStore == part = "store" /\ q \in [col : ColumnsOf, money : {"O", "N"}]

AnswerStore ==
  /\ part = "store"
  /\ a' = [x \in Values |->
             LET s == Conv!Store(q.col, x, q.money)
             IN  [bytes |-> s, back |-> IF s = Conv!Refused THEN s ELSE Conv!Load(q.col, s, q.money)]]

(* A stored value is loaded as it was, to the decimals of its column; but  *)
(* zero is the NULL of dates and doubles, and NULL is loaded as 0 from     *)
(* numbers of five or six bytes, or of any under MONEY=N; a julian day that *)
(* needs more than four bytes is cut.  With            *)
(* the sign inverted the bytes are in the order of the values, in numbers  *)
(* of four bytes or less only of those of one sign.                        *)
Tenths(x) == Double(x).t
Kept(x) ==
  LET back == a[x].back
      col  == q.col
  IN  CASE col.kind = "num" /\ x = Null ->
             back = IF q.money = "N" \/ col.len \in 5..6 THEN Const(0, col.fix) ELSE Null
        [] col.kind = "num" -> back = Const(Toconst(x, col.fix), col.fix)
        [] col.kind = "dbl" -> back = IF x = Null \/ Tenths(x) = 0 THEN Null ELSE Dbl(Tenths(x))
        [] col.kind \in {"date", "julian"} ->
             x = Null \/ Conv!Trunc(Tenths(x)) \in -647..647 =>
             back = IF x = Null \/ Conv!Trunc(Tenths(x)) = 0 THEN Null
                    ELSE [op |-> "date", v |-> Conv!Trunc(Tenths(x))]
        [] col.kind = "char" -> x.op = "string" => IsPrefix(back.s, x.s) /\ (Len(x.s) <= 2 /\ 0 \notin Range(x.s) => Conv!Trimmed(x.s, 2) = back.s)
        [] OTHER -> TRUE
ValuesRight ==
  LET stored == {x \in DOMAIN a : a[x].bytes # Conv!Refused}
      within == {x \in stored : a[x].back.op \in {"const", "date", "dbl"}}
      sorted == \/ q.col.kind \in {"dbl", "date"}
                \/ q.col.kind = "num" /\ q.col.len > 4 /\ q.money = "O"
  IN  /\ \A x \in stored : Kept(x)
      /\ q.col.kind \in {"num", "dbl", "date", "julian"} =>
         \A x, y \in within :
           /\ Tenths(a[x].back) < Tenths(a[y].back)
           /\ sorted \/ (Tenths(a[x].back) < 0 <=> Tenths(a[y].back) < 0)
           => Before(a[x].bytes, a[y].bytes)

(***************************************************************************)
(* Tables of three columns, with and without a primary key.  A dictionary  *)
(* written by another program has the columns in the order declared, may   *)
(* cut one in two and have one more that lies over two of them.            *)
(***************************************************************************)
Dict == INSTANCE Dictionary WITH Tmp <- 8, MaxKey <- 255, NParts <- 2,
                                 Base <- 6, Blank <- 2, Highest <- 4, DayCent <- 7

Decl(name, sql, len, prec) == [name |-> name, sql |-> sql, len |-> len, prec |-> prec]
Declared ==
  {Decl("a", "CHAR", 2, 0), Decl("a", "NUMERIC", 4, 2), Decl("a", "DATE", 0, 0)}
    \X {Decl("b", "NUMERIC", 2, 0), Decl("b", "DOUBLE", 0, 0), Decl("b", "CHAR", 3, 0)}
    \X {Decl("c", "TIMESTAMP", 0, 0), Decl("c", "NUMERIC", 12, 1), Decl("c", "BIT", 9, 0), Decl("c", "SMALLINT", 0, 0)}
Primary == {<<>>} \cup {k \in UNION {[1..n -> {"a", "b", "c"}] : n \in 1..3} : IsInjective(k)}

InitTable ==
  /\ part = "table"
  /\ q \in [cols : Declared, prim : Primary, by : {"sql", "other"}, cut : {0, 1, 2}, over : BOOLEAN,
            beyond : {<<>>, <<"Z">>}]
  /\ q.by = "sql" => q.cut = 0 /\ ~q.over
  /\ q.by = "other" => q.prim # <<>> /\ q.beyond = <<>> /\ Len(q.prim) <= 2

FieldsOf(cols) == Dict!InARow([i \in DOMAIN cols |-> Dict!Sqltype(cols[i])])
Halves(x) == <<[x EXCEPT !.len = 1], [x EXCEPT !.pos = @ + 1, !.len = @ - 1, !.name = @ \o "2"]>>
Given(cols) ==
  LET all == Dict!Isdictadd([i \in DOMAIN cols |-> cols[i].name], FieldsOf(cols), <<>>)
  IN  FlattenSeq([i \in DOMAIN all |-> IF i = q.cut THEN Halves(all[i]) ELSE <<all[i]>>])
        \o IF q.over THEN <<[name |-> "u", pos |-> 0, len |-> all[1].len + all[2].len, type |-> "C", fmt |-> <<>>]>>
           ELSE <<>>

AnswerTable ==
  /\ part = "table"
  /\ \E made \in {Dict!CreateTable(q.cols, q.prim, q.beyond)} :
       \E dict \in {IF q.by = "sql" THEN made.dict ELSE Given(q.cols)} :
         \E t \in {Dict!Getdict(made.file, dict)} :
           a' = [file |-> made.file, dict |-> dict, table |-> t,
                 index |-> IF q.cut = 0 THEN Dict!CreateIndex(t, made.file, <<"c", "b">>) ELSE <<>>,
                 copy |-> Dict!InsertTable(t)]

(* ColumnsRight: a table opened again has the columns of its dictionary,   *)
(* those of the key first, in its order, and each with the bytes and the   *)
(* kind declared; an index lies on the bytes of the columns it names; and  *)
(* a table INSERT makes has columns of the same kinds, so that their bytes *)
(* are copied.  It does not hold for the names of a table whose key does   *)
(* not lead, for which isdictadd takes those of other columns, nor for the *)
(* number of decimals, of which its masks have one less than declared, nor *)
(* for doubles, which its dictionary does not know; and an index takes the *)
(* wrong fields where the dictionary cuts one in two.                      *)
Leads == \A i \in DOMAIN q.prim : i <= 2 => q.prim[i] = q.cols[i].name
ColumnsRight ==
  part = "table" /\ a # << >> =>
    LET fields  == FieldsOf(q.cols)
        named(n) == fields[SelectInSeq(q.cols, LAMBDA c : c.name = n)]
        numbered == a.dict = <<>>
        key     == FlattenSeq([i \in 1..Min({Len(q.prim), 2}) |->
                     [j \in 1..named(q.prim[i]).len |-> named(q.prim[i]).pos + j - 1]])
        cols    == a.table.cols
        found(n) == {c \in Range(cols) : c.name = n}
        same(f, c) ==
          /\ c.pos = f.pos /\ c.len = f.len
          /\ c.kind = CASE f.type.kind = "date" -> "julian"
                         [] f.type.kind = "flt" -> IF numbered THEN "dbl" ELSE "bin"
                         [] OTHER -> f.type.kind
          /\ f.type.kind = "num" => c.fix = IF numbered \/ f.type.fix = 0 THEN f.type.fix
                                            ELSE f.type.fix - 1 + Len(q.beyond) * (IF f.type.fix = 1 THEN 1 ELSE 0)
    IN  /\ numbered <=> q.prim = <<>>
        /\ numbered => a.table.klen = Len(cols) /\ \A i \in DOMAIN cols : same(fields[i], cols[i])
        /\ ~numbered =>
             /\ {<<c.name, c.pos, c.len>> : c \in Range(cols)} = {<<x.name, x.pos, x.len>> : x \in Range(a.dict)}
             /\ Len(cols) = Len(a.dict)
             /\ Maps!Bytes(SubSeq(cols, 1, a.table.klen)) = key
        /\ ~numbered /\ (Leads \/ q.by = "other") =>
             \A i \in DOMAIN q.cols \ {q.cut} : \E c \in found(q.cols[i].name) : same(fields[i], c)
        /\ ~numbered /\ q.cut = 0 /\ (Leads \/ q.by = "other") =>
             Maps!Bytes(a.index) = Maps!Bytes(<<named("c"), named("b")>>)
        /\ Len(a.copy.cols) = Len(cols) /\ a.copy.klen = a.table.klen
        /\ \A i \in DOMAIN cols :
             /\ a.copy.cols[i].len = cols[i].len /\ a.copy.cols[i].fix = cols[i].fix
             /\ a.copy.cols[i].kind = IF cols[i].kind = "ebcdic" THEN "char" ELSE cols[i].kind

(* StoredOrder: BTAS sees the records of a file in the order of its key:   *)
(* the bytes of the key lead, packing keeps their order and loses nothing, *)
(* and so do the values of columns, but for the exceptions above.          *)
StoredOrder ==
  a # << >> => /\ part = "keys"  => KeysLead
               /\ part = "pack"  => PackedRight
               /\ part = "store" => ValuesRight

(***************************************************************************)
(* DELETE, UPDATE and INSERT ... SELECT of three rows by either index, one *)
(* of the statements at a time, with another client beside them.  A sum is *)
(* <<column, column, number>>.  An UPDATE raises or lowers what it scans   *)
(* by, and meets duplicates there; INSERT's rows fall before the cursor or *)
(* behind it, in the condition or out of it.                               *)
(***************************************************************************)
Record(k, s, v, id) == [k |-> k, s |-> s, v |-> v, id |-> id]
ThreeRows == {{Record(2, s[1], v[1], 1), Record(3, s[2], v[2], 2), Record(5, s[3], v[3], 3)} :
                s \in [1..3 -> 2..4], v \in [1..3 -> 0..1]}
OtherRows == {Record(4, 3, 1, 11), Record(1, 2, 3, 12)}

Statement(c, cols, w, set, unique, other) ==
  [cmd |-> c, cols |-> cols, where |-> w, set |-> set, unique |-> unique, other |-> other]
ByK == <<"v">>
ByS == <<"s", "v">>
AllStatements ==
  {Statement("delete", cols, w, << >>, u, TRUE) : cols \in {ByK, ByS}, w \in {{1}, {0, 1}}, u \in BOOLEAN}
    \cup {Statement("clear", << >>, {0, 1, 3}, << >>, FALSE, FALSE)}
    \cup {Statement("update", ByK, {1}, set, u, TRUE) : u \in BOOLEAN,
            set \in {<<<<"s", "s", 1>>>>, <<<<"v", "v", 1>>, <<"s", "k", -1>>>>,
                     <<<<"s", "s", 4>>, <<"s", "k", 0>>>>}}
    \cup {Statement("update", ByK, {0, 1}, <<<<"k", "k", d>>>>, u, TRUE) : u \in BOOLEAN, d \in {-1, 1}}
    \cup {Statement("update", ByS, {1}, set, u, TRUE) : u \in BOOLEAN,
            set \in {<<<<"k", "k", -1>>>>, <<<<"v", "s", 0>>, <<"k", "v", 0>>>>, <<<<"s", "s", 1>>>>,
                     <<<<"s", "s", -1>>>>, <<<<"s", "s", -1>>, <<"k", "k", 1>>>>}}
    \cup {Statement("insert", cols, {1}, set, u, TRUE) :
            cols \in {ByK, ByS}, u \in BOOLEAN,
            set \in {<<<<"k", "k", d>>, <<"v", "v", -1>>>> : d \in {-1, 1, 3}}
                      \cup {<<<<"k", "k", d>>>> : d \in {-1, 1}}}

Stm == INSTANCE Statements WITH
  Tables <- ThreeRows, Commands <- AllStatements, Extra <- OtherRows, MaxValue <- 7, MaxTaken <- 1,
  rows <- table, keys <- sfile, cmd <- stmt, t <- cursor, step <- phase, start <- before, did <- done

InitStatements == part = "statement" /\ q = << >> /\ Stm!StInit
NoStatement ==
  /\ table = {} /\ sfile = {} /\ stmt = << >> /\ cursor = << >>
  /\ phase = "none" /\ before = {} /\ done = << >>

(* EachRowOnce: a statement changes each row its condition selects once,   *)
(* and when it ends it has changed them all, to what the assignments say,  *)
(* or has been refused a row for a duplicate or a value that does not fit; *)
(* whatever the rows changed before have become and another client does    *)
(* beside it.  Except that it changes a row again which it has moved ahead *)
(* in the index it reads by, copies its own copies where they fall ahead,  *)
(* and ends early, the rows it has not come to left as they were, where    *)
(* that index refused a duplicate and where the other client took a row    *)
(* away between its read and its change.                                   *)
EachRowOnce == part = "statement" => Stm!EachRowOnce

Init == a = << >> /\ \/ /\ NoStatement
                        /\ InitExpr \/ InitLike \/ InitSelect \/ InitSort \/ InitGroup
                             \/ InitJoin \/ InitOuter \/ InitKeys \/ InitPack \/ InitStore \/ InitTable
                     \/ InitStatements
Next == UNCHANGED <<part, q>> /\
        \/ /\ a = << >> /\ UNCHANGED stmtVars
           /\ AnswerExpr \/ AnswerLike \/ AnswerSelect \/ AnswerSort
                \/ AnswerJoin \/ AnswerKeys \/ AnswerPack \/ AnswerStore \/ AnswerTable
        \/ part = "statement" /\ UNCHANGED a /\ Stm!StNext
Spec == Init /\ [][Next]_vars
=============================================================================

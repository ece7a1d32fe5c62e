----------------------------- MODULE Dictionary -----------------------------
(***************************************************************************)
(* Tables of the SQL client: CREATE TABLE and CREATE INDEX, the table that *)
(* INSERT ... SELECT makes (sqlexec.c), the types of SQL (sqltype.c), the  *)
(* data dictionary DATA.DICT (isdict.c), and the columns a table has when  *)
(* it is opened (getdict of cursor.c, column.c).  How the fields of the    *)
(* file are laid out is in KeyMap, what Column_gen makes of one in Convert.*)
(*                                                                         *)
(* The type of a field is a record of its kind and, of a number, the       *)
(* decimals.  A dictionary is the sequence of the records of one table.    *)
(***************************************************************************)
EXTENDS KeyMap, Convert

CONSTANTS NParts     \* NPARTS: parts a key has at most

-----------------------------------------------------------------------------
(* sqltypefrec: the field of a type; the bytes of a number by its digits.   *)
Lentbl == <<1, 1, 1, 2, 2, 3, 3, 4, 4, 4, 5, 5>>
Typed(kind, fix, len) == [type |-> [kind |-> kind, fix |-> fix], len |-> len]
Sqltype(t) ==
  CASE t.sql = "NUMERIC"   -> Typed("num", t.prec, IF t.len >= Len(Lentbl) THEN 6 ELSE Lentbl[t.len + 1])
    [] t.sql = "BIT"       -> Typed("bin", 0, (t.len + 7) \div 8)
    [] t.sql = "CHAR"      -> Typed("char", 0, t.len)
    [] t.sql = "INTEGER"   -> Typed("num", 0, 4)
    [] t.sql = "SMALLINT"  -> Typed("num", 0, 2)
    [] t.sql = "FLOAT"     -> Typed("flt", 0, 4)
    [] t.sql = "DOUBLE"    -> Typed("flt", 0, 8)
    [] t.sql = "DATE"      -> Typed("date", 0, 4)
    [] t.sql = "TIMESTAMP" -> Typed("time", 0, 4)

\* The fields of a table, one after the other.
InARow(fs) == [i \in DOMAIN fs |-> [pos |-> Sum(fs, i - 1), len |-> fs[i].len, type |-> fs[i].type]]

(* mkkeydesc: of each column named the field with the number of the column. *)
Place(name, names) == SelectInSeq(names, LAMBDA n : n = name)
Mkkeydesc(key, names, fields) ==
  LET used == SubSeq(key, 1, Least2(Len(key), NParts))
  IN  IF \E i \in DOMAIN used : Place(used[i], names) = 0 THEN <<>>
      ELSE [i \in DOMAIN used |->
              LET f == fields[Place(used[i], names)] IN [pos |-> f.pos, len |-> f.len, type |-> "char"]]

-----------------------------------------------------------------------------
(* isdictadd.  The mask of a number is a minus sign and digits, one of them *)
(* replaced by the point; with one decimal the point takes the place of the *)
(* NUL behind them, and what the mask ends with was in memory before.       *)
Sztbl == <<0, 3, 5, 7, 10, 12>>
Mask(f, beyond) ==
  LET n == IF f.len < Len(Sztbl) THEN Sztbl[f.len + 1] ELSE 14
      digits == n + IF f.type.fix > 0 /\ n < 14 THEN 1 ELSE 0
      plain == <<"-">> \o Rep("Z", digits)
  IN  CASE f.type.fix = 0 -> plain
        [] f.type.fix = 1 -> plain \o <<".">> \o beyond
        [] OTHER -> [plain EXCEPT ![digits + 2 - f.type.fix] = "."]
Letter(kind) ==
  CASE kind = "char" -> "C" [] kind = "date" -> "J" [] kind = "time" -> "T" [] kind = "num" -> "N" [] OTHER -> "X"
DictRecord(name, f, beyond) ==
  [name |-> name, pos |-> f.pos, len |-> f.len, type |-> Letter(f.type.kind),
   fmt |-> IF f.type.kind = "num" THEN Mask(f, beyond) ELSE <<>>]
Isdictadd(names, fields, beyond) ==
  [i \in DOMAIN fields |-> DictRecord(names[i], fields[i], beyond)]

(* CREATE TABLE: the key of a table without a PRIMARY KEY is all of it, and *)
(* then it has no dictionary; the dictionary of one with a key replaces     *)
(* what there was of its name (isdictdel).                                  *)
NoTable == [fields |-> <<>>, klen |-> 0]
CreateTable(cols, prim, beyond) ==
  LET names  == [i \in DOMAIN cols |-> cols[i].name]
      fields == InARow([i \in DOMAIN cols |-> Sqltype(cols[i])])
      kd     == Mkkeydesc(prim, names, fields)
      file   == IF prim = <<>> THEN All(fields) ELSE IF kd = <<>> THEN NoTable ELSE Built(fields, kd)
  IN  [file |-> file, dict |-> IF prim = <<>> THEN <<>> ELSE Isdictadd(names, file.fields, beyond)]

-----------------------------------------------------------------------------
(* getdict.  Columns that make up the fields of the file go to the front,   *)
(* in the order of the fields, so that those of the key lead; others remain *)
(* where the exchanges leave them.                                          *)
Exchanged(d, i, j) == [d EXCEPT ![i] = d[j], ![j] = d[i]]

\* Seeded fault: the columns already placed are looked at again.
RECURSIVE FillAgain(_, _, _, _)
FillAgain(d, maxpos, pos, len) ==
  LET fits == {j \in 1..Len(d) : d[j].pos = pos /\ d[j].len <= len}
      j == CHOOSE x \in fits : \A y \in fits : x <= y
  IN  IF len = 0 \/ fits = {} \/ maxpos = Len(d) THEN [d |-> d, maxpos |-> maxpos]
      ELSE FillAgain(Exchanged(d, maxpos + 1, j), maxpos + 1, pos + d[j].len, len - d[j].len)

RECURSIVE Fill(_, _, _, _)
Fill(d, maxpos, pos, len) ==
  LET fits == {j \in (maxpos + 1)..Len(d) : d[j].pos = pos /\ d[j].len <= len}
      j == CHOOSE x \in fits : \A y \in fits : x <= y
  IN  IF len = 0 \/ fits = {} THEN [d |-> d, maxpos |-> maxpos]
      ELSE Fill(Exchanged(d, maxpos + 1, j), maxpos + 1, pos + d[j].len, len - d[j].len)

Matched(file, d) ==
  LET f[i \in 0..Len(file.fields)] ==
        IF i = 0 THEN [d |-> d, maxpos |-> 0]
        ELSE Fill(f[i - 1].d, f[i - 1].maxpos, file.fields[i].pos, file.fields[i].len)
  IN  [d |-> f[Len(file.fields)].d,
       klen |-> IF file.klen = Len(file.fields) THEN Len(d) ELSE f[file.klen].maxpos]

(* Number_init_mask: the decimals are the digits behind the point.          *)
Decimals(mask) ==
  LET point == SelectInSeq(mask, LAMBDA c : c = ".")
  IN  IF point = 0 THEN 0 ELSE Cardinality({i \in point..Len(mask) : mask[i] = "Z"})

\* Characters over a field that is not of characters are EBCDIC.
Overlaps(x, f) == f.type.kind # "char" /\ f.pos < x.pos + x.len /\ f.pos + f.len > x.pos
Kind(x, fields) ==
  CASE x.type = "C" -> IF \E i \in DOMAIN fields : Overlaps(x, fields[i]) THEN "ebcdic" ELSE "char"
    [] x.type = "T" -> IF x.len = 4 THEN "time" ELSE "num"
    [] x.type = "N" -> "num"
    [] x.type = "J" -> CASE x.len = 2 -> "date" [] x.len = 4 -> "julian" [] OTHER -> "bin"
    [] OTHER -> "bin"
Col(name, pos, kind, len, fix) == [name |-> name, pos |-> pos, kind |-> kind, len |-> len, fix |-> fix]
FromDict(x, fields) ==
  LET kind == Kind(x, fields)
  IN  Col(x.name, x.pos, kind, x.len, IF kind = "num" THEN Decimals(x.fmt) ELSE 0)
Numbered(i, f) ==
  LET c == Column([type |-> f.type.kind, len |-> f.len, fix |-> f.type.fix])
  IN  Col("#" \o ToString(i), f.pos, c.kind, f.len, IF c.kind = "num" THEN c.fix ELSE 0)

Getdict(file, dict) ==
  LET within == SelectSeq(dict, LAMBDA x : x.pos + x.len <= End(file.fields))
      found  == Matched(file, within)
  IN  IF dict = <<>> THEN [cols |-> [i \in DOMAIN file.fields |-> Numbered(i, file.fields[i])], klen |-> file.klen]
      ELSE [cols |-> [i \in DOMAIN found.d |-> FromDict(found.d[i], file.fields)], klen |-> found.klen]

-----------------------------------------------------------------------------
(* CREATE INDEX: of the columns in the order of getdict the number is that  *)
(* of a field.                                                              *)
CreateIndex(table, file, key) ==
  Mkkeydesc(key, [i \in DOMAIN table.cols |-> table.cols[i].name], file.fields)

(* INSERT ... SELECT makes a table of the fields of the columns selected,   *)
(* without a dictionary.                                                    *)
FieldOf(c) ==
  Typed(CASE c.kind = "ebcdic" -> "char" [] c.kind = "julian" -> "date" [] c.kind = "dbl" -> "flt" [] OTHER -> c.kind,
        c.fix, c.len)
InsertTable(table) ==
  LET fields == InARow([i \in DOMAIN table.cols |-> FieldOf(table.cols[i])])
  IN  Getdict([fields |-> fields, klen |-> IF table.klen = 0 THEN Len(fields) ELSE table.klen], <<>>)
=============================================================================

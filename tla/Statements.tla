----------------------------- MODULE Statements -----------------------------
(***************************************************************************)
(* DELETE, UPDATE and INSERT ... SELECT of the SQL client (sqlexec.c) on a *)
(* C-ISAM table (istable.c, vwsel.c).  A statement reads its table row by  *)
(* row, by an index, and changes it as it goes; where the next read goes   *)
(* on depends on what the C-ISAM calls leave in the buffer of the index.   *)
(* An action is one C-ISAM call; what happens within one is in Isam.       *)
(*                                                                         *)
(* A row has the columns k (the master key), s (indexed) and v; id tells   *)
(* which row of the start it is, and is not in the code.                   *)
(***************************************************************************)
EXTENDS Integers, Sequences, FiniteSets, SequencesExt

CONSTANTS
  Tables,       \* the rows a table may have at the start
  Commands,     \* the statements
  Extra,        \* the rows the other client adds
  MaxValue,     \* the greatest value a column holds
  MaxTaken      \* bound: the rows of the start the other client deletes

VARIABLES
  rows,     \* the master file
  keys,     \* the file of the index of s: the entries <<s, k>>
  cmd,      \* the statement; unique: the index of s takes no duplicates
  t,        \* its cursor: the index it reads by, its position, the row read;
            \* ok: the last call for that index did not fail (b->op is 0)
  step,     \* "fetch", "row" or "end"
  start,    \* history: the rows at the start
  did       \* history: what was done to each row of the start and of Extra

stVars == <<rows, keys, cmd, t, step, start, did>>

-----------------------------------------------------------------------------
(* Isam_optim: the index with the highest score for the columns of the      *)
(* WHERE, in the order they are named there; the first of equals.           *)
Keydescs == << <<"k">>, <<"s">> >>
Common(parts, cols) ==
  CHOOSE n \in 0..Len(cols) : /\ n <= Len(parts) /\ SubSeq(cols, 1, n) = SubSeq(parts, 1, n)
                              /\ n < Len(cols) /\ n < Len(parts) => cols[n + 1] # parts[n + 1]
Used(parts, cols) ==
  LET n == Common(parts, cols)
  IN  n + Cardinality({<<i, j>> \in (n + 1..Len(cols)) \X (n + 1..Len(parts)) : cols[i] = parts[j]})
Score(parts, cols) ==
  10 * Used(parts, cols) + Common(parts, cols) + IF Used(parts, cols) = Len(cols) THEN 20 ELSE 0
IsamOptim(cols) ==
  LET best == CHOOSE i \in DOMAIN Keydescs :
                /\ \A j \in DOMAIN Keydescs : Score(Keydescs[j], cols) <= Score(Keydescs[i], cols)
                /\ \A j \in 1..(i - 1) : Score(Keydescs[j], cols) < Score(Keydescs[i], cols)
  IN  Head(Keydescs[best])

-----------------------------------------------------------------------------
(* Reading by an index: an entry is <<k, 0>> or <<s, k>>; a key record      *)
(* without its master record is passed over.                                *)
Entry(by, r) == IF by = "k" THEN <<r.k, 0>> ELSE <<r.s, r.k>>
Below(x, y)  == x[1] < y[1] \/ (x[1] = y[1] /\ x[2] < y[2])
Row(k)       == CHOOSE r \in rows : r.k = k
Entries(by)  == IF by = "k" THEN {Entry("k", r) : r \in rows}
                ELSE {e \in keys : \E r \in rows : r.k = e[2]}
Ahead(by, pos) == {e \in Entries(by) : Below(pos, e)}
Nearest(S)   == CHOOSE e \in S : \A f \in S : ~Below(f, e)

(* Isam_first and Isam_next with the loop of Where_read: the next row of    *)
(* which the condition is true.  After a call that failed there is no       *)
(* current record to go on from, and the statement ends.                    *)
Fetch ==
  /\ step = "fetch"
  /\ LET ahead == Ahead(t.by, t.pos)
         e == Nearest(ahead)
         r == IF t.by = "k" THEN Row(e[1]) ELSE Row(e[2])
     IN  IF ~t.ok \/ ahead = {}
         THEN step' = "end" /\ UNCHANGED t
         ELSE /\ t' = [t EXCEPT !.pos = e, !.row = r]
              /\ step' = IF r.v \in cmd.where THEN "row" ELSE "fetch"
  /\ UNCHANGED <<rows, keys, cmd, start, did>>

(* The assignments of an UPDATE are stored in the row one after the other,  *)
(* each computed from what is there by then; one that does not fit ends the *)
(* row's.  An assignment is <<column, column, number>>: the sum.            *)
Assigned(r, as) ==
  LET f[i \in 0..Len(as)] ==
        IF i = 0 THEN r
        ELSE IF f[i - 1].id = 0 THEN f[i - 1]
        ELSE LET x == f[i - 1][as[i][2]] + as[i][3]
             IN  IF x \in 0..MaxValue THEN [f[i - 1] EXCEPT ![as[i][1]] = x]
                 ELSE [f[i - 1] EXCEPT !.id = 0]
  IN  f[Len(as)]
Fits(r) == r.id # 0

Did(what) ==
  IF t.row.id \in DOMAIN did THEN [did EXCEPT ![t.row.id] = Append(@, what)] ELSE did
SKey(e)   == IF cmd.unique THEN <<e[1], 0>> ELSE e      \* the part that is unique
HasKey(e) == \E x \in keys : SKey(x) = SKey(e)
WithoutKey(e) == {x \in keys : SKey(x) # SKey(e)}

(* isupdate.  The new records are written first; on a duplicate in the      *)
(* master file, or in the index of s if that takes none, those written      *)
(* before are taken back.  Otherwise every buffer has the old record again. *)
DupMaster(r, n) == n.k # r.k /\ \E x \in rows : x.k = n.k
Rekeyed(r, n)   == SKey(Entry("s", n)) # SKey(Entry("s", r))
DupIndex(r, n)  == Rekeyed(r, n) /\ cmd.unique /\ HasKey(Entry("s", n))
Refusing(r, n)  == IF DupMaster(r, n) THEN "k" ELSE IF DupIndex(r, n) THEN "s" ELSE "none"

\* Seeded fault: isrewcurr, which leaves the new records in the buffers.
PositionAfterNew(r, n) == Entry(t.by, n)
PositionAfter(r, n) == Entry(t.by, r)

(* The old records are then deleted where the key changed, and it does not  *)
(* matter if they are gone; where it did not they are replaced, and one     *)
(* that is gone is a fatal error.                                           *)
Lost(by, r) == IF by = "k" THEN ~\E x \in rows : x.k = r.k ELSE ~HasKey(Entry("s", r))
Moved(by, r, n) == IF by = "k" THEN n.k # r.k ELSE Rekeyed(r, n)
Fatal(r, n) ==
  \/ n # r /\ ~Moved("k", r, n) /\ Lost("k", r)
  \/ n.k # r.k /\ ~Moved("s", r, n) /\ Lost("s", r)

RowsAfter(r, n) ==
  IF Moved("k", r, n) \/ ~Lost("k", r) THEN {x \in rows : x.k # r.k} \cup {n} ELSE rows
KeysAfter(r, n) ==
  IF ~Moved("k", r, n) /\ Lost("k", r)
  THEN keys \cup {e \in {Entry("s", n)} : Moved("s", r, n)}
  ELSE IF Moved("s", r, n) \/ ~Lost("s", r) THEN WithoutKey(Entry("s", r)) \cup {Entry("s", n)}
  ELSE keys

UpdateRow ==
  /\ step = "row" /\ cmd.cmd = "update"
  /\ LET r == t.row
         n == Assigned(r, cmd.set)
         fatal == Fits(n) /\ Refusing(r, n) = "none" /\ Fatal(r, n)
     IN  /\ IF ~Fits(n)
            THEN UNCHANGED <<rows, keys, t>> /\ did' = Did("convert")
            ELSE IF Refusing(r, n) # "none"
            THEN /\ UNCHANGED <<rows, keys>> /\ did' = Did("dup")
                 /\ t' = [t EXCEPT !.ok = Refusing(r, n) # t.by]
            ELSE /\ rows' = IF n = r THEN rows ELSE RowsAfter(r, n)
                 /\ keys' = IF n = r THEN keys ELSE KeysAfter(r, n)
                 /\ did' = Did(IF r \in rows THEN "update"
                               ELSE IF n # r /\ n \in rows' THEN "back" ELSE "missed")
                 /\ t' = [t EXCEPT !.pos = PositionAfter(r, n),
                                   !.ok = ~fatal /\ ~(Moved(t.by, r, n) /\ Lost(t.by, r))]
         /\ step' = IF fatal THEN "end" ELSE "fetch"
  /\ UNCHANGED <<cmd, start>>

(* isdelcurr: the buffers keep the keys of the deleted record.  That one of *)
(* them is gone is not an error, but the buffer that met it has no current  *)
(* record any more.                                                         *)
DeleteRow ==
  /\ step = "row" /\ cmd.cmd = "delete"
  /\ rows' = rows \ {t.row}
  /\ keys' = WithoutKey(Entry("s", t.row))
  /\ t' = [t EXCEPT !.ok = IF t.by = "k" THEN t.row \in rows ELSE HasKey(Entry("s", t.row))]
  /\ did' = Did(IF t.row \in rows THEN "delete" ELSE "missed")
  /\ step' = "fetch"
  /\ UNCHANGED <<cmd, start>>

(* INSERT ... SELECT from the table itself, by a cursor of its own: the row *)
(* selected is written by iswrcurr, which takes back what it wrote when it  *)
(* meets a duplicate.                                                       *)
Copy(r) == [Assigned(r, cmd.set) EXCEPT !.id = -1]
InsertRow ==
  /\ step = "row" /\ cmd.cmd = "insert"
  /\ LET new == Copy(t.row)
     IN  IF ~Fits(Assigned(t.row, cmd.set))
         THEN UNCHANGED <<rows, keys>> /\ did' = Did("convert")
         ELSE IF HasKey(Entry("s", new)) \/ \E x \in rows : x.k = new.k
         THEN UNCHANGED <<rows, keys>> /\ did' = Did("dup")
         ELSE rows' = rows \cup {new} /\ keys' = keys \cup {Entry("s", new)} /\ did' = Did("insert")
  /\ step' = "fetch"
  /\ UNCHANGED <<cmd, t, start>>

(* DELETE without a WHERE clears the master file, and that only.            *)
ClearTable ==
  /\ step = "clear"
  /\ rows' = {}
  /\ did' = [id \in DOMAIN did |-> IF \E r \in rows : r.id = id THEN <<"delete">> ELSE <<>>]
  /\ step' = "end"
  /\ UNCHANGED <<keys, cmd, t, start>>

(* Another client adds rows, and deletes them and MaxTaken of the start.    *)
OtherInsert(x) ==
  /\ ~\E r \in rows : r.k = x.k
  /\ ~HasKey(Entry("s", x))
  /\ rows' = rows \cup {x} /\ keys' = keys \cup {Entry("s", x)} /\ UNCHANGED did
OtherDelete(x) ==
  /\ rows' = rows \ {x} /\ keys' = WithoutKey(Entry("s", x))
  /\ x \in Extra => UNCHANGED did
  /\ x \notin Extra => /\ Cardinality({id \in DOMAIN did : "gone" \in Range(did[id])}) < MaxTaken
                      /\ did' = [did EXCEPT ![x.id] = Append(@, "gone")]
Other ==
  /\ step # "end" /\ cmd.other
  /\ \/ \E x \in Extra : OtherInsert(x)
     \/ \E x \in rows : x.id # -1 /\ OtherDelete(x)
  /\ UNCHANGED <<cmd, t, step, start>>

-----------------------------------------------------------------------------
StInit ==
  /\ cmd \in Commands
  /\ rows \in Tables
  /\ cmd.unique => \A r, x \in rows : r.s = x.s => r = x
  /\ keys = {Entry("s", r) : r \in rows}
  /\ t = [by |-> IsamOptim(cmd.cols), pos |-> <<-1, 0>>, row |-> <<>>, ok |-> TRUE]
  /\ step = IF cmd.cmd = "clear" THEN "clear" ELSE "fetch"
  /\ start = rows
  /\ did = [id \in {r.id : r \in rows \cup Extra} |-> <<>>]

StNext == Fetch \/ UpdateRow \/ DeleteRow \/ InsertRow \/ ClearTable \/ Other

-----------------------------------------------------------------------------
Acts(r) == SelectSeq(did[r.id], LAMBDA what : what # "gone")
Taken(r) == "gone" \in Range(did[r.id])
Selected(r) == r.v \in cmd.where

(* The exceptions.  An UPDATE that moves the row ahead in the index it is   *)
(* read by meets it again, and an INSERT whose new row is selected itself   *)
(* and falls ahead meets that too.                                          *)
Later(r, n) == Below(Entry(t.by, r), Entry(t.by, n))
Again(r) == cmd.cmd = "update" /\ Later(r, Assigned(r, cmd.set))
CopiesOf(r) ==
  {Copy(r)} \cup (IF Later(r, Copy(r)) /\ Selected(Copy(r)) THEN {x \in rows : x.id = -1} ELSE {})

(* A statement ends early where the index it reads by refused a duplicate,  *)
(* and where another client took a row away between its read and its change.*)
(* The latter is brought back by an UPDATE of k.                            *)
Early == ~t.ok /\ \E id \in DOMAIN did : Range(did[id]) \cap {"dup", "missed", "back"} # {}

(* EachRowOnce: a statement changes each row its condition selects once,    *)
(* and when it ends it has changed them all, to what the assignments say,   *)
(* or has been refused a row for a duplicate or a value that does not fit;  *)
(* whatever the rows changed before have become and another client does     *)
(* beside it.  Except that it changes a row again which it has moved ahead, *)
(* copies its own copies where they fall ahead, and leaves the rows it has  *)
(* not come to where it ends early.                                         *)
EachRowOnce ==
  /\ \A r \in start : Len(Acts(r)) <= 1 \/ Again(r)
  /\ ~t.ok => Early
  /\ \A x \in rows : x.id = -1 => \E r \in start \cup Extra : Selected(r) /\ x \in CopiesOf(r)
  /\ step = "end" => \A r \in start :
       LET mine == {x \in rows : x.id = r.id}
       IN  /\ Selected(r) /\ Acts(r) = <<>> => Taken(r) \/ Early
           /\ ~Selected(r) => Acts(r) = <<>>
           /\ did[r.id] # <<>> /\ Last(did[r.id]) = "gone" => mine = {}
           /\ ~Taken(r) => CASE Acts(r) = <<"update">> -> mine = {Assigned(r, cmd.set)}
                             [] Acts(r) = <<"delete">> -> mine = {}
                             [] Acts(r) = <<"insert">> -> mine = {r} /\ Copy(r) \in rows
                             [] Acts(r) \in {<<>>, <<"dup">>, <<"convert">>} -> mine = {r}
                             [] OTHER -> Again(r)
=============================================================================

-------------------------------- MODULE Scan --------------------------------
(***************************************************************************)
(* The offline tools' reading of a filesystem (fix/getblock.cc): get()     *)
(* gives every block of every extent in order through a buffer of nblks    *)
(* blocks, and get(blk), which finds the type of a root between two        *)
(* of them, borrows a slot of the same buffer.  A read may fail, end early *)
(* or find an extent shorter than the superblock says.                     *)
(***************************************************************************)
EXTENDS Integers, Sequences, FiniteSets, SequencesExt

CONSTANTS
  Nblks,      \* the blocks of the buffer, not 0
  Eod,        \* the blocks of each extent, by the superblock (dtbl[i].eod)
  Cut         \* the blocks that may be missing at the end of each extent

VARIABLES
  fst,        \* the fields of fstbl that change
  pos,        \* for each extent, the blocks before its file's offset
  bad,        \* the blocks that cannot be read
  have,       \* the blocks each extent really has
  given,      \* what get() has returned: [blk, got]
  found,      \* what get(blk) returned last: [blk, got]
  ended       \* get() has returned 0

scanVars == <<fst, pos, bad, have, given, found, ended>>

Extent == DOMAIN Eod
Place == {<<e, n>> : e \in Extent, n \in 1..9} \cap UNION {{e} \X (1..Eod[e]) : e \in Extent}
Nothing == <<0, 0>>     \* a null pointer, and a slot with no whole block in it
Marked == <<0, 1>>      \* a block whose root is 0x80000000

(***************************************************************************)
(* A read: the contents, none when it fails (EIO), and the file's offset.  *)
(***************************************************************************)
Content(e, n) == IF n \in 1..have[e] THEN <<e, n>> ELSE Nothing

Readable(e, p, cnt) == {n \in 1..cnt : p + n <= have[e]}
Unread(e, p, cnt) == {n \in Readable(e, p, cnt) : <<e, p + n>> \in bad}

Contents(e, p, n) == [i \in 1..n |-> Content(e, p + i)]
ReadOf(e, p, n) == [ok |-> TRUE, got |-> Contents(e, p, n), at |-> p + n]
Eio(p) == [ok |-> FALSE, got |-> <<>>, at |-> p]

\* A device fails the whole read, or gives what precedes the bad block; a
\* pipe gives any number of blocks.
Reads(e, p, cnt) ==
  IF Readable(e, p, cnt) = {} THEN {ReadOf(e, p, 0)}
  ELSE {ReadOf(e, p, n) : n \in {m \in Readable(e, p, cnt) : \A b \in Unread(e, p, cnt) : m < b}}
         \cup (IF Unread(e, p, cnt) = {} THEN {} ELSE {Eio(p)})

\* while (bcnt < cnt && rc): read on, until nothing more comes.
RECURSIVE ReadOn(_, _, _)
ReadOn(e, r, cnt) ==
  IF Len(r.got) = cnt \/ r.got = <<>> THEN {r}
  ELSE UNION {IF more.got = <<>> THEN {[r EXCEPT !.at = more.at]}
              ELSE ReadOn(e, [more EXCEPT !.got = r.got \o @], cnt)
              : more \in Reads(e, r.at, cnt - Len(r.got))}

\* The "mangled logic" after EIO: try half as many, a single block that
\* fails is marked.  Each answer has the number it asked for, as "cnt".
Asked(rs, cnt) == {[cnt |-> cnt, got |-> r.got, at |-> r.at] : r \in rs}
RECURSIVE Halved(_, _, _)
Halved(e, base, cnt) ==
  IF cnt = 1 THEN {[cnt |-> 1, got |-> <<Marked>>, at |-> base]}
  ELSE UNION {IF r.ok THEN Asked(ReadOn(e, r, cnt \div 2), cnt \div 2) ELSE Halved(e, base, cnt \div 2)
              : r \in Reads(e, base, cnt \div 2)}

\* What one buffer full may be, read at offset p, the proposed new base being base.
Fills(e, base, p, cnt) ==
  UNION {IF r.ok THEN Asked(ReadOn(e, r, cnt), cnt)
         ELSE IF cnt = 1 THEN {[cnt |-> 1, got |-> <<Marked>>, at |-> p]}
         ELSE Halved(e, base, cnt) : r \in Reads(e, p, cnt)}

(***************************************************************************)
(* fstbl                                                                   *)
(***************************************************************************)
Buffered(buf, got) == [i \in 1..Nblks |-> IF i <= Len(got) THEN got[i] ELSE buf[i]]

\* fstbl::fstbl and fsopen: the superblock has been read.  validate() asks
\* for a seek only where the superblock is not followed by block 1.
Opened(new) ==
  [buf |-> [i \in 1..Nblks |-> Nothing], bcnt |-> 0, base |-> 0, cur |-> 0, curext |-> 1, seek |-> new]

ScanInit ==
  \E new \in BOOLEAN :
    /\ fst = Opened(new)
    /\ pos = [e \in Extent |-> IF new THEN 0 - 1 ELSE 0]
    /\ bad \in {B \in SUBSET Place : Cardinality(B) <= 2}
    /\ have \in {h \in [Extent -> 0..9] : \A e \in Extent : Eod[e] - h[e] \in Cut[e]}
    /\ given = <<>>
    /\ found = [blk |-> Nothing, got |-> Nothing]
    /\ ended = FALSE

Shorter(m, n) == IF m < n THEN m ELSE n
Wanted(f, eod) == Shorter(Nblks, eod - f.base - f.cur)
Offset(f, offsets) == IF f.seek THEN f.base + f.cur ELSE offsets[f.curext]

Filled(f, r) ==
  [f EXCEPT !.buf = Buffered(@, r.got), !.bcnt = Len(r.got), !.base = @ + f.cur, !.cur = 0, !.seek = FALSE]
\* The local eod: what is really there, after "Premature EOF".
Ending(eod, f, r) == IF Len(r.got) < r.cnt THEN f.base + f.cur + Len(r.got) ELSE eod

NextExtent(f) == [f EXCEPT !.curext = @ + 1, !.cur = 0, !.base = 0, !.seek = TRUE, !.bcnt = 0]

\* get(): the fields and offsets, and whether there is a block.
RECURSIVE Advanced(_, _, _)
AfterFill(f, offsets, eod) ==
  IF f.base >= eod THEN Advanced(f, offsets, eod) ELSE {[fst |-> f, pos |-> offsets, more |-> TRUE]}
InExtent(f, offsets, eod) ==
  IF f.cur < f.bcnt THEN {[fst |-> f, pos |-> offsets, more |-> TRUE]}
  ELSE UNION {AfterFill(Filled(f, r), [offsets EXCEPT ![f.curext] = r.at], Ending(eod, f, r))
              : r \in Fills(f.curext, f.base + f.cur, Offset(f, offsets), Wanted(f, eod))}
Advanced(f, offsets, eod) ==
  IF f.base + f.cur < eod THEN InExtent(f, offsets, eod)
  ELSE IF f.curext + 1 \notin Extent THEN {[fst |-> f, pos |-> offsets, more |-> FALSE]}
  ELSE InExtent(NextExtent(f), offsets, Eod[f.curext + 1])

Get ==
  /\ ~ended
  /\ \E a \in Advanced(fst, pos, Eod[fst.curext]) :
       /\ pos' = a.pos
       /\ ended' = ~a.more
       /\ fst' = IF a.more THEN [a.fst EXCEPT !.cur = @ + 1] ELSE a.fst
       /\ given' = IF a.more
                   THEN Append(given, [blk |-> <<a.fst.curext, a.fst.base + a.fst.cur + 1>>,
                                       got |-> a.fst.buf[a.fst.cur + 1]])
                   ELSE given
  /\ UNCHANGED <<bad, have, found>>

\* get(blk): from the buffer, but for its first block, which an earlier
\* call may have overwritten; or into the first slot, or, while that holds
\* the block the caller has, into the last.
\* Seeded fault: the first block of the buffer counts as still there.
FirstToo(f, e, n) == e = f.curext /\ n > f.base /\ n <= f.base + f.bcnt
InBuffer(f, e, n) == e = f.curext /\ n > f.base + 1 /\ n <= f.base + f.bcnt
Steals(f) == f.cur = 1 /\ f.bcnt = Nblks
Slot(f) == IF f.cur # 1 THEN 1 ELSE IF f.bcnt = Nblks THEN Nblks ELSE f.bcnt + 1
\* Seeded fault: the block lent to get(blk) is not read again.
Forgetful(f, e, r) ==
  [f EXCEPT !.buf[Slot(f)] = IF r.ok /\ r.got # <<>> THEN r.got[1] ELSE Nothing,
            !.bcnt = IF Steals(f) THEN @ - 1 ELSE @,
            !.seek = @ \/ e = f.curext]

Borrowed(f, e, r) ==
  [f EXCEPT !.buf[Slot(f)] = IF r.ok /\ r.got # <<>> THEN r.got[1] ELSE Nothing,
            !.bcnt = IF Steals(f) THEN @ - 1 ELSE @,
            !.seek = @ \/ Steals(f) \/ e = f.curext]

Find(e, n) ==
  /\ ~ended
  /\ IF InBuffer(fst, e, n)
     THEN /\ found' = [blk |-> <<e, n>>, got |-> fst.buf[n - fst.base]]
          /\ UNCHANGED <<fst, pos>>
     ELSE \E r \in Reads(e, n - 1, 1) :
            /\ fst' = Borrowed(fst, e, r)
            /\ pos' = [pos EXCEPT ![e] = r.at]
            /\ found' = [blk |-> <<e, n>>, got |-> IF r.ok /\ r.got # <<>> THEN r.got[1] ELSE Nothing]
  /\ UNCHANGED <<bad, have, given, ended>>

ScanNext == Get \/ \E b \in Place : Find(b[1], b[2])

(***************************************************************************)
(* Properties.                                                             *)
(***************************************************************************)
\* get() starts to read the last block of an extent without a seek and is
\* still at the bad block before it: it marks the good block for the bad one.
Mistaken(b) == b \in bad \/ (b[2] = Eod[b[1]] /\ <<b[1], b[2] - 1>> \in bad)

RECURSIVE AllFrom(_)
AllFrom(e) == IF e \notin Extent THEN <<>> ELSE [n \in 1..have[e] |-> <<e, n>>] \o AllFrom(e + 1)
Wholesome(blocks) == SelectSeq(blocks, LAMBDA b : ~Mistaken(b))
Named(answers) == [i \in DOMAIN answers |-> answers[i].blk]

(* Whatever get(blk) comes between and whatever reads fail, get() gives the *)
(* blocks of all extents in order, each once and with its own contents, and *)
(* in the end all there are; a block it cannot read is given marked.        *)
BlocksInOrder ==
  /\ \A i \in DOMAIN given :
       given[i].got = given[i].blk \/ (given[i].got = Marked /\ Mistaken(given[i].blk))
  /\ IsPrefix(Wholesome(Named(given)), Wholesome(AllFrom(1)))
  /\ ended => Len(Wholesome(Named(given))) = Len(Wholesome(AllFrom(1)))

(* get(blk) gives the block asked for or nothing, and leaves the block that *)
(* get() gave last, which the caller still uses (btddir.cc and btsave.cc    *)
(* ask for the type of its root), as it was.                                *)
BorrowsOnly ==
  /\ found.got \in {found.blk, Nothing}
  /\ (given # <<>> /\ ~ended) => fst.buf[fst.cur] = given[Len(given)].got
=============================================================================

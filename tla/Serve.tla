-------------------------------- MODULE Serve --------------------------------
(***************************************************************************)
(* The C-ISAM server (cisam/isserve.c, isreq.c, isrange.c): a client sends *)
(* requests down a stream without waiting for the replies; each is a       *)
(* header and two parameters, each reply a header, a record and perhaps    *)
(* more records.  A stream is a sequence of headers and bytes.             *)
(*                                                                         *)
(* A descriptor is one of a file with a key of two parts and record        *)
(* numbers; its record has a byte for each part of the key and one more.   *)
(* What is behind a call in the library is what it does when no other      *)
(* client's requests come in between (Isam has those).                     *)
(***************************************************************************)
EXTENDS Integers, Sequences, FiniteSets, SequencesExt, Lex

CONSTANTS
  Files,       \* contents of the file at the start
  Fds,         \* descriptors: fdlimit
  MaxRlen,     \* MAXRLEN
  Requests,    \* what the clients ask
  Short,       \* a read may return less than was asked for
  MaxReq, MaxAhead   \* bounds: requests, and what is on a stream when one is sent

VARIABLES
  file,        \* the records, <<first, second, data, number>>
  isamfd,      \* isamfdptr: the open descriptors
  startsearch, \* where the search for a free one begins
  p1,          \* the buffer of the first parameter, with what was in it before
  inp, out,    \* the stream to the server and the one back
  sent,        \* bound: requests sent
  due          \* history: for each reply on its way, the records it is to bring

vars == <<file, isamfd, startsearch, p1, inp, out, sent, due>>

RecLen == 3
From(s, i) == SubSeq(s, i, Len(s))
Upto(s, n) == SubSeq(s, 1, n)
None == <<>>
NoBox == [min |-> None, max |-> None]
High == 9     \* a part of a key of all ones; one of all zeros is 0

-----------------------------------------------------------------------------
(* Requests of the library to the file.                                     *)
Below(a, b) ==
  \E i \in DOMAIN a \intersect DOMAIN b : a[i] < b[i] /\ \A j \in 1..(i - 1) : a[j] = b[j]
Lowest(R)  == IF R = {} THEN None ELSE CHOOSE a \in R : \A b \in R \ {a} : Below(a, b)
Highest(R) == IF R = {} THEN None ELSE CHOOSE a \in R : \A b \in R \ {a} : Below(b, a)

Btas(op, k) ==
  CASE op = "GE" -> Lowest({r \in file : ~Below(r, k)})
    [] op = "GT" -> Lowest({r \in file : Below(k, r)})
    [] op = "LE" -> Highest({r \in file : ~Below(k, r)})
    [] op = "LT" -> Highest({r \in file : Below(r, k)})
    [] op = "EQ" -> LET R == {r \in file : IsPrefix(k, r)}
                    IN  IF Cardinality(R) = 1 THEN Lowest(R) ELSE None

-----------------------------------------------------------------------------
(* Ranges: isCheckRange.  Each part of the key has its own bounds, so that  *)
(* the records wanted do not lie together; the reads skip what is between.  *)
(* A result has the record in the buffer, whether the last read found it,   *)
(* and isrecnum, the number of the record unpacked last: n, if none was.    *)
Over(r, box)  == {i \in 1..2 : r[i] > box.max[i]}
Under(r, box) == {i \in 1..2 : r[i] < box.min[i]}
Out(r, box)   == Over(r, box) \cup Under(r, box)
End(k, ok, n) == [rec |-> k, ok |-> ok, in |-> FALSE, num |-> n]
Hit(r)        == [rec |-> r, ok |-> TRUE, in |-> TRUE, num |-> r[4]]

\* Seeded fault: of the parts of the least key only the one too low is set.
RECURSIVE IsvwselOnly(_, _, _)
IsvwselOnly(r, box, n) ==
  IF r = None THEN End(r, FALSE, n)
  ELSE IF Out(r, box) = {} THEN Hit(r)
  ELSE LET i == Min(Out(r, box))
           over == i \in Over(r, box)
           skip == Upto(r, i - 1) \o [j \in 1..(3 - i) |-> High]
           next == IF over THEN Btas("GT", skip) ELSE r
       IN  IF over /\ i = 1 THEN End(r, TRUE, r[4])
           ELSE IF next = None THEN End(skip, FALSE, r[4])
           ELSE IsvwselOnly(Btas("GE", [Upto(next, 2) EXCEPT ![i] = box.min[i]]), box, next[4])

RECURSIVE Isvwsel(_, _, _)
Isvwsel(r, box, n) ==
  IF r = None THEN End(r, FALSE, n)
  ELSE IF Out(r, box) = {} THEN Hit(r)
  ELSE LET i == Min(Out(r, box))
           over == i \in Over(r, box)
           skip == Upto(r, i - 1) \o [j \in 1..(3 - i) |-> High]
           next == IF over THEN Btas("GT", skip) ELSE r
       IN  IF over /\ i = 1 THEN End(r, TRUE, r[4])
           ELSE IF next = None THEN End(skip, FALSE, r[4])
           ELSE Isvwsel(Btas("GE", Upto(next, i - 1) \o From(box.min, i)), box, next[4])

RECURSIVE Isvwrev(_, _, _)
Isvwrev(r, box, n) ==
  IF r = None THEN End(r, FALSE, n)
  ELSE IF Out(r, box) = {} THEN Hit(r)
  ELSE LET i == Min(Out(r, box))
           under == i \in Under(r, box)
           skip == Upto(r, i - 1) \o [j \in 1..(3 - i) |-> 0]
           next == IF under THEN Btas("LT", skip) ELSE r
       IN  IF under /\ i = 1 THEN End(r, TRUE, r[4])
           ELSE IF next = None THEN End(skip, FALSE, r[4])
           ELSE Isvwrev(Btas("LE", Upto(next, i - 1) \o From(box.max, i)), box, next[4])

Checked(op, k, box, n) ==
  LET r == Btas(op, k)
  IN  IF r = None THEN End(k, FALSE, n)
      ELSE IF box = NoBox THEN Hit(r)
      ELSE CASE op \in {"GT", "GE"} -> Isvwsel(r, box, n)
             [] op \in {"LT", "LE"} -> Isvwrev(r, box, n)
             [] OTHER -> IF Out(r, box) = {} THEN Hit(r) ELSE End(r, TRUE, r[4])

-----------------------------------------------------------------------------
(* isread, isstart and isrange.  A call has the descriptor it leaves, the   *)
(* record found, the result and, when it reads, isrecnum.                   *)
Opened == [rec |-> None, ok |-> TRUE, klen |-> 2, start |-> "FIRST", box |-> NoBox, recno |-> 0]
Failed(d, n) == [d |-> d, rec |-> None, rc |-> -1, num |-> n]

\* What mode means where isstart, or an end of file, has left the position.
Meant(d, mode) ==
  CASE d.start = "FIRST" /\ mode = "NEXT" -> "FIRST"
    [] d.start = "LAST" /\ mode = "PREV" -> "LAST"
    [] d.start \in {"GTEQ", "GREAT", "EQUAL"} /\ mode = "NEXT" -> "CURR"
    [] OTHER -> mode

Found(d, buf, m, n) ==
  LET user == Upto(buf, d.klen)
  IN  CASE m = "FIRST" -> Checked("GE", None, d.box, n)
        [] m = "LAST"  -> Checked("LE", None, d.box, n)
        [] m = "NEXT"  -> Checked("GT", d.rec, d.box, n)
        [] m = "PREV"  -> Checked("LT", d.rec, d.box, n)
        [] m = "CURR"  -> Checked("EQ", Upto(d.rec, d.klen), d.box, n)
        [] m = "EQUAL" -> Checked("EQ", Upto(buf, 2), d.box, n)
        [] m = "GREAT" -> Checked("GT", user, d.box, n)
        [] m = "GTEQ"  -> Checked("GE", user, d.box, n)
        [] m = "LESS"  -> Checked("LT", user, d.box, n)
        [] m = "LTEQ"  -> Checked("LE", user, d.box, n)
Left(d, m, got) ==
  LET start == IF got.in THEN "CURR"
               ELSE CASE m \in {"LESS", "LTEQ", "PREV"} -> "FIRST"
                      [] m \in {"GREAT", "GTEQ", "NEXT"} -> "LAST"
                      [] OTHER -> "CURR"
  IN  [d |-> [d EXCEPT !.rec = got.rec, !.ok = got.ok, !.start = start],
       rec |-> IF got.in THEN got.rec ELSE None, rc |-> IF got.in THEN 0 ELSE -1, num |-> got.num]
Isread(d, buf, mode, n) ==
  LET m == Meant(d, mode)
  IN  IF <<d.start, mode>> \in {<<"FIRST", "PREV">>, <<"LAST", "NEXT">>} THEN Failed(d, n)
      ELSE IF m \in {"NEXT", "PREV", "CURR"} /\ ~d.ok THEN Failed([d EXCEPT !.start = "CURR"], n)
      ELSE Left(d, m, Found(d, buf, m, n))

Isstart(d, buf, len, mode) ==
  LET e == [d EXCEPT !.box = NoBox, !.klen = len, !.start = mode]   \* isreq clears the range
      k == Upto(buf, len)
      r == Btas(CASE mode = "GTEQ" -> "GE" [] mode = "GREAT" -> "GT" [] OTHER -> "EQ", k)
  IN  IF mode \in {"FIRST", "LAST"} THEN [d |-> e, rec |-> None, rc |-> 0]
      ELSE [d |-> [e EXCEPT !.rec = IF r = None THEN k ELSE r, !.ok = r # None],
            rec |-> None, rc |-> IF r = None THEN -1 ELSE 0]

Isrange(d, min, max) ==
  [d |-> [d EXCEPT !.box = IF min = None /\ max = None THEN NoBox
                           ELSE [min |-> IF min = None THEN <<0, 0>> ELSE min,
                                 max |-> IF max = None THEN <<High, High>> ELSE max]],
   rec |-> None, rc |-> 0]

Numbers == {r[4] : r \in file}
NextNumber(d) == IF d.recno + 1 \in Numbers THEN Max(Numbers) + 1 ELSE d.recno + 1

\* isnewfd
FreeFd == {i \in startsearch..(Fds - 1) : isamfd[i] = None}

-----------------------------------------------------------------------------
(* readlast: a parameter in its buffer and a zero after it; the last part   *)
(* is kept when it is too long.  When a read returns less, the rest goes to *)
(* the start of the buffer again.                                           *)
Rem(len) == IF len <= MaxRlen THEN len ELSE ((len - 1) % MaxRlen) + 1
ReadLast(s, len, buf, cut) ==
  LET kept == SubSeq(s, len - Rem(len) + 1, len)
      whole == From(kept, cut + 1) \o From(Upto(kept, cut), Rem(len) - cut + 1)
  IN  IF len = 0 THEN buf
      ELSE [whole \o From(buf, Len(whole) + 1) EXCEPT ![Rem(len) + 1] = 0]

(* The records the next records of a scan bring, len at most.               *)
RECURSIVE Batch(_, _, _, _)
Further(x, mode, len) ==
  IF x.rc # 0 THEN [d |-> x.d, recs |-> <<>>, num |-> x.num]
  ELSE LET y == Batch(x.d, mode, len, x.num) IN [y EXCEPT !.recs = <<x.rec>> \o @]
Batch(d, mode, len, n) ==
  IF len = 0 THEN [d |-> d, recs |-> <<>>, num |-> n]
  ELSE Further(Isread(d, None, mode, n), mode, len - 1)

Onwards(mode) == IF mode \in {"LESS", "LTEQ", "PREV", "LAST"} THEN "PREV" ELSE "NEXT"
\* A record in a reply, with its number if that was asked for.
Record(r, fxn) == IF fxn = "ISREADREC" THEN r ELSE Upto(r, RecLen)

(* What the scan a read asks for is to bring, in the file as it is.        *)
Wanted(d, buf, h) ==
  LET box == {r \in file : d.box = NoBox \/ Out(r, d.box) = {}}
      m == Meant(d, h.mode)
      k == Upto(buf, d.klen)
      inside ==
           CASE \/ <<d.start, h.mode>> \in {<<"FIRST", "PREV">>, <<"LAST", "NEXT">>}
                \/ m \in {"NEXT", "PREV", "CURR"} /\ ~d.ok -> {}
             [] m \in {"FIRST", "LAST"} -> box
             [] m = "NEXT" -> {r \in box : Below(d.rec, r)}
             [] m = "PREV" -> {r \in box : Below(r, d.rec)}
             [] m = "CURR" -> IF d.rec \in box THEN {r \in box : ~Below(r, d.rec)} ELSE {}
             [] m = "EQUAL" -> IF \E r \in box : IsPrefix(Upto(buf, 2), r)
                               THEN {r \in box : ~Below(r, Upto(buf, 2))} ELSE {}
             [] m = "GREAT" -> {r \in box : Below(k, r)}
             [] m = "GTEQ"  -> {r \in box : ~Below(r, k)}
             [] m = "LESS"  -> {r \in box : Below(r, k)}
             [] m = "LTEQ"  -> {r \in box : ~Below(k, r)}
      up == Ascending(inside)
      order == IF Onwards(h.mode) = "NEXT" THEN up ELSE Reverse(up)
  IN  [i \in 1..Min({Max({h.len, 1}), Len(order)}) |-> Record(order[i], h.fxn)]

-----------------------------------------------------------------------------
(* A request: the header (struct ISREQ), then the parameters.               *)
Send ==
  /\ sent < MaxReq
  /\ Len(inp) <= MaxAhead /\ Len(out) <= MaxAhead
  /\ \E q \in Requests :
       inp' = inp \o <<[fxn |-> q.fxn, fd |-> q.fd, mode |-> q.mode, len |-> q.len,
                        recnum |-> q.recnum,
                        p1 |-> Len(q.p1), p2 |-> Len(q.p2)]>> \o q.p1 \o q.p2
  /\ sent' = sent + 1
  /\ UNCHANGED <<file, isamfd, startsearch, p1, out, due>>

Asked(fxns) == {h \in IF inp = <<>> THEN {} ELSE {inp[1]} : h.fxn \in fxns}
Cuts(h) == IF Short THEN 0..Max({h.p1 - 1, 0}) ELSE {0}
Parameter(h, cut) == ReadLast(SubSeq(inp, 2, h.p1 + 1), h.p1, p1, cut)
\* isrecnum when the call begins: the header's, or what follows the record.
Number(h, buf) == IF h.p1 > RecLen /\ h.fxn \in {"ISREAD", "ISREADREC", "ISREWRITE", "ISDELETE"}
                  THEN buf[RecLen + 1] ELSE h.recnum
Second(h) == SubSeq(inp, h.p1 + 2, h.p1 + h.p2 + 1)

(* The reply: a header (struct ISRES) with the result, which of a batch is  *)
(* the number of records, then the records.                                 *)
Answer(h, buf, res, recs, num) ==
  LET bytes == [i \in DOMAIN recs |-> Record(recs[i], h.fxn)]
  IN  /\ inp' = From(inp, h.p1 + h.p2 + 2)
      /\ p1' = IF recs = <<>> THEN buf ELSE bytes[1] \o From(buf, Len(bytes[1]) + 1)
      /\ out' = out \o <<[res |-> res, p1 |-> IF recs = <<>> THEN 0 ELSE Len(bytes[1]), recnum |-> num]>>
                    \o FlattenSeq(bytes)
      /\ sent' = sent

ServeOpen ==
  \E h \in Asked({"ISOPEN"}), cut \in {0} :
    \E fd \in IF FreeFd = {} THEN {-1} ELSE {Min(FreeFd)} :
      /\ isamfd' = IF fd < 0 THEN isamfd ELSE [isamfd EXCEPT ![fd] = Opened]
      /\ startsearch' = IF fd < 0 THEN Fds ELSE fd
      /\ Answer(h, Parameter(h, cut), fd, <<>>, h.recnum)
      /\ due' = Append(due, <<>>)
      /\ UNCHANGED file

ServeClose ==
  \E h \in Asked({"ISCLOSE"}), cut \in {0} :
    /\ isamfd' = [isamfd EXCEPT ![h.fd] = None]
    /\ startsearch' = IF isamfd[h.fd] # None /\ h.fd < startsearch THEN h.fd ELSE startsearch
    /\ Answer(h, Parameter(h, cut), IF isamfd[h.fd] = None THEN -1 ELSE 0, <<>>, h.recnum)
    /\ due' = Append(due, <<>>)
    /\ UNCHANGED file

\* Any other call for a descriptor that is not open: ENOTOPEN.
Others == {"ISSTART", "ISREAD", "ISREADREC", "ISWRITE", "ISREWRITE", "ISDELETE", "ISSETRANGE"}
ServeNone ==
  \E h \in Asked(Others) :
    \E cut \in Cuts(h) :
      /\ isamfd[h.fd] = None
      /\ Answer(h, Parameter(h, cut), -1, <<>>, h.recnum)
      /\ due' = Append(due, <<>>)
      /\ UNCHANGED <<file, isamfd, startsearch>>

ServePosition ==
  \E h \in Asked({"ISSTART", "ISSETRANGE"}) :
    \E cut \in Cuts(h) : \E buf \in {Parameter(h, cut)}, d \in {isamfd[h.fd]} :
      /\ d # None
      /\ \E x \in {IF h.fxn = "ISSTART" THEN Isstart(d, buf, IF h.len = 0 THEN 2 ELSE h.len, h.mode)
                    ELSE Isrange(d, IF h.p1 = 0 THEN None ELSE Upto(buf, 2), Upto(Second(h), 2))} :
           /\ isamfd' = [isamfd EXCEPT ![h.fd] = x.d]
           /\ Answer(h, buf, x.rc, <<>>, h.recnum)
      /\ due' = Append(due, <<>>)
      /\ UNCHANGED <<file, startsearch>>

\* A record is followed by the next len - 1.
ServeRead ==
  \E h \in Asked({"ISREAD", "ISREADREC"}) :
    \E cut \in Cuts(h) : \E buf \in {Parameter(h, cut)}, d \in {isamfd[h.fd]} :
      /\ d # None
      /\ \E one \in {Isread(d, buf, h.mode, Number(h, buf))} :
           \E more \in {IF one.rc # 0 \/ h.len = 0 THEN [d |-> one.d, recs |-> <<>>, num |-> one.num]
                        ELSE Batch(one.d, Onwards(h.mode), h.len - 1, one.num)} :
             \E recs \in {IF one.rc # 0 THEN <<>> ELSE <<one.rec>> \o more.recs} :
               /\ isamfd' = [isamfd EXCEPT ![h.fd] = more.d]
               /\ Answer(h, buf, IF h.len > 0 /\ one.rc = 0 THEN Len(recs) ELSE one.rc, recs, more.num)
      /\ due' = Append(due, Wanted(d, buf, h))
      /\ UNCHANGED <<file, startsearch>>

ServeWrite ==
  \E h \in Asked({"ISWRITE"}) :
    \E cut \in Cuts(h) : \E buf \in {Parameter(h, cut)}, d \in {isamfd[h.fd]} :
      /\ d # None
      /\ \E num \in {NextNumber(d)}, dup \in {\E r \in file : IsPrefix(Upto(buf, 2), r)} :
           /\ file' = IF dup THEN file ELSE file \cup {Upto(buf, RecLen) \o <<num>>}
           /\ isamfd' = [isamfd EXCEPT ![h.fd] = [d EXCEPT !.recno = num]]
           /\ Answer(h, buf, IF dup THEN -1 ELSE 0, <<>>, num)
      /\ due' = Append(due, <<>>)
      /\ UNCHANGED startsearch

\* The record with the key of the parameter keeps its number.
ServeChange ==
  \E h \in Asked({"ISREWRITE", "ISDELETE"}) :
    \E cut \in Cuts(h) : \E buf \in {Parameter(h, cut)}, d \in {isamfd[h.fd]} :
      /\ d # None
      /\ \E r \in {Btas("EQ", Upto(buf, 2))} :
           \E new \in {IF r = None THEN Upto(buf, 2)
                       ELSE IF h.fxn = "ISREWRITE" THEN Upto(buf, RecLen) \o <<r[4]>> ELSE r} :
             /\ file' = CASE r = None -> file
                         [] h.fxn = "ISREWRITE" -> (file \ {r}) \cup {new}
                         [] OTHER -> file \ {r}
             /\ isamfd' = [isamfd EXCEPT ![h.fd] =
                             [d EXCEPT !.rec = new, !.ok = r # None,
                                       !.start = IF r = None THEN @ ELSE "CURR"]]
             /\ Answer(h, buf, IF r = None THEN -1 ELSE 0, <<>>, IF r = None THEN Number(h, buf) ELSE r[4])
      /\ due' = Append(due, <<>>)
      /\ UNCHANGED startsearch

(* The client takes a reply off its stream.                                 *)
Records(h) == IF h.p1 = 0 THEN 0 ELSE Max({h.res, 1})
Reply(s) == [i \in 1..Records(s[1]) |-> SubSeq(s, 2 + (i - 1) * s[1].p1, 1 + i * s[1].p1)]
After(s) == From(s, 2 + Records(s[1]) * s[1].p1)
Receive ==
  /\ out # <<>>
  /\ out' = After(out)
  /\ due' = Tail(due)
  /\ UNCHANGED <<file, isamfd, startsearch, p1, inp, sent>>

ServeInit ==
  /\ file \in Files
  /\ isamfd = [i \in 0..(Fds - 1) |-> None] /\ startsearch = 0
  /\ p1 = [i \in 1..(MaxRlen + 1) |-> 0]
  /\ inp = <<>> /\ out = <<>> /\ sent = 0 /\ due = <<>>
ServeNext == Send \/ ServeOpen \/ ServeClose \/ ServeNone \/ ServePosition \/ ServeRead \/ ServeWrite
               \/ ServeChange \/ Receive

(* ServedRight: the stream back to the client parses into one reply for     *)
(* each request, in order, and each brings the records the request asked    *)
(* for, in the order of its scan: those within the range, none twice and    *)
(* none left out, however many requests were sent ahead (isserve.c server,  *)
(* isrange.c isvwsel, isread.c).                                            *)
RECURSIVE Replies(_)
Replies(s) == IF s = <<>> THEN <<>> ELSE <<Reply(s)>> \o Replies(After(s))
ServedRight == Replies(out) = due
=============================================================================

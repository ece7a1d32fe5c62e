-------------------------------- MODULE Isam --------------------------------
(***************************************************************************)
(* The records of a C-ISAM file and its indexes (cisam/).  A C-ISAM file   *)
(* is one BTAS file per index: the master file holds whole records, the    *)
(* others hold key records, each with the key of its master record behind  *)
(* its own.  The server knows nothing of this: a C-ISAM call is a sequence *)
(* of BTAS requests, and other clients get theirs in between.  An action   *)
(* is one request, with what the client does before and after it.          *)
(*                                                                         *)
(* A record has a master key m, an indexed field s without duplicates, an  *)
(* indexed field d with duplicates, and its record number n.               *)
(***************************************************************************)
EXTENDS Integers, Sequences, FiniteSets, SequencesExt

CONSTANTS
  Client,     \* processes that have the file open, each by one descriptor
  Own,        \* Own[c]: the master keys of the records client c changes
  S, D,       \* values of the fields s and d
  Chain,      \* indexes at the start, in the order of the list r->key
  MaxNum,     \* bound: the largest record number and unique id
  MaxCalls,   \* bound: MaxCalls[c] calls of client c that change records
  Reading,    \* the clients that read
  ByNumber,   \* calls by record number: a subset of {"rewrec", "delrec"}
  Modes,      \* modes of isread; not CURR, which rereads by the key length of the
              \* request before it, and is what NEXT means after isstart only
  Careful,    \* no client calls isrewcurr, isdelcurr or isdelrec but for a record of
              \* its own that is there: a record it has deleted still counts as current
  Dies,       \* a client may end between two requests
  Admin       \* indexes are added, deleted and rebuilt

ASSUME ChainAssumption ==
  /\ Chain \in Seq({"m", "s", "d", "n"}) /\ Chain # <<>> /\ Head(Chain) = "m"
  /\ \A i \in DOMAIN Chain : Chain[i] = "n" => i = Len(Chain)
  /\ \A i, j \in DOMAIN Chain : Chain[i] = Chain[j] => i = j
ASSUME NumAssumption == MaxNum \in Nat

VARIABLES
  list,     \* the indexes of the file, in the order of the list r->key
  file,     \* file[x]: the records of the BTAS file of index x
  uid,      \* the ids in the control file (records with an empty name)
  h,        \* h[c]: struct cisam of the client
  call,     \* call[c]: the call a client is in
  calls,    \* calls[c]: calls made so far (bound)
  torn,     \* a client died inside a call since the indexes were rebuilt
  want,     \* history: the records that completed calls have left
  scan,     \* history: the scan by ISNEXT a client is in
  ids       \* history: the unique ids handed out, in order

vars == <<list, file, uid, h, call, calls, torn, want, scan, ids>>

Index  == {"m", "s", "d", "n"}
Master == UNION {Own[c] : c \in Client}
Record == [m : Master, s : S, d : D, n : 0..MaxNum]
Has(x) == x \in ToSet(list)

-----------------------------------------------------------------------------
(* Key records.                                                            *)

\* The fields of the record of each file, its key first (isconvkey).
Fields == [m |-> <<"m", "s", "d", "n">>, s |-> <<"s", "m">>,
           d |-> <<"d", "m">>, n |-> <<"n", "m">>]

\* Fields of the unique key: all of them with ISDUPS (cisam_key.klen).
Klen == [m |-> 1, s |-> 1, d |-> 2, n |-> 1]

\* u2brec: the record of file x for the user's record r.
Rec(x, r) == [i \in DOMAIN Fields[x] |-> r[Fields[x][i]]]

Prefix(k, n) == SubSeq(k, 1, IF n < Len(k) THEN n ELSE Len(k))
Key(x, r)    == Prefix(Rec(x, r), Klen[x])

\* b2urec of a key record gives, among others, the key of its master, and of
\* a master record everything.
MasterKey(x, k) ==
  LET i == CHOOSE i \in DOMAIN Fields[x] : Fields[x][i] = "m"
  IN <<IF i \in DOMAIN k THEN k[i] ELSE 0>>
Unpack(k) == [m |-> k[1], s |-> k[2], d |-> k[3], n |-> k[4]]

\* The order of keys; a key is below another if it is within the length of both.
Below(a, b) ==
  \E i \in DOMAIN a \intersect DOMAIN b :
    a[i] < b[i] /\ \A j \in 1..(i - 1) : a[j] = b[j]

\* cmprec: does the unique key of x change, or only another field?
Cmprec(x, new, old) ==
  IF Key(x, new) # Key(x, old) THEN "key"
  ELSE IF Rec(x, new) # Rec(x, old) THEN "data" ELSE "same"

-----------------------------------------------------------------------------
(* Requests to the server (btas): what each finds in a file.               *)

None == <<>>

With(f, x, k) == {r \in f[x] : IsPrefix(k, r)}
Matching(x, k) == With(file, x, k)

Lowest(R)  == IF R = {} THEN None ELSE CHOOSE a \in R : \A b \in R \ {a} : Below(a, b)
Highest(R) == IF R = {} THEN None ELSE CHOOSE a \in R : \A b \in R \ {a} : Below(b, a)

Find(x, op, k) ==
  CASE op = "READEQ" -> IF Cardinality(Matching(x, k)) = 1
                        THEN Lowest(Matching(x, k)) ELSE None
    [] op = "READF"  -> Lowest(Matching(x, k))
    [] op = "READGE" -> Lowest({r \in file[x] : ~Below(r, k)})
    [] op = "READGT" -> Lowest({r \in file[x] : Below(k, r)})
    [] op = "READLE" -> Highest({r \in file[x] : ~Below(k, r)})
    [] op = "READLT" -> Highest({r \in file[x] : Below(r, k)})

Put(x, r)  == file' = [file EXCEPT ![x] = @ \union {Rec(x, r)}]
Drop(x, k) == file' = [file EXCEPT ![x] = @ \ Matching(x, k)]

-----------------------------------------------------------------------------
(* The state of a client.                                                  *)

NoRec == [m |-> 0, s |-> 0, d |-> 0, n |-> 0]
Idle  == [op |-> "idle", ph |-> "", i |-> 0, j |-> 0, keep |-> FALSE,
          sav |-> <<>>, new |-> NoRec, old |-> NoRec]
Busy(c) == call[c].op # "idle"
At(c, op, ph) == call[c].op = op /\ call[c].ph = ph

\* A buffer: the record in it, and whether the last request on it succeeded.
\* Kept are those of the master file and of the current index, if another;
\* the rest are filled before they are used.
Good(k) == [rec |-> k, ok |-> TRUE]
Bad(k)  == [rec |-> k, ok |-> FALSE]
Handle  == [cur |-> "m", start |-> "FIRST", mst |-> Good(None), pos |-> Good(None),
            recno |-> 0]
Buffer(hc, x) == IF x = "m" THEN hc.mst ELSE hc.pos
Cur(c) == Buffer(h[c], h[c].cur)
Set(hc, x, b) == IF x = "m" THEN [hc EXCEPT !.mst = b]
                 ELSE IF x = hc.cur THEN [hc EXCEPT !.pos = b] ELSE hc

To(c, to)    == call' = [call EXCEPT ![c] = to]
Go(c, ph, i) == To(c, [call[c] EXCEPT !.ph = ph, !.i = i])
End(c)       == To(c, Idle)

\* The next index of the list after the i-th that satisfies P, or 0.
NextIndex(i, P(_)) ==
  LET J == {j \in (i + 1)..Len(list) : P(list[j])}
  IN IF J = {} THEN 0 ELSE CHOOSE j \in J : \A k \in J : j <= k

\* A scan ends with a call that moves the position, and no longer has to meet
\* the records of M, which are about to change.
NoScan == [on |-> FALSE, last |-> None, seen |-> {}, must |-> {}]
Touch(c, M, keep) ==
  scan' = [b \in Client |-> IF b = c /\ ~keep THEN NoScan
                            ELSE [scan[b] EXCEPT !.must = {r \in @ : r.m \notin M}]]
Changing == UNION {{call[c].new.m, call[c].old.m} : c \in Client}

-----------------------------------------------------------------------------
(* iswrite and iswrcurr: the record number, the master, then each index.    *)

CanChange(c) == ~Busy(c) /\ calls[c] < MaxCalls[c]
Counted(c)   == calls' = [calls EXCEPT ![c] = @ + 1]

CallWrite(c) ==
  /\ CanChange(c) /\ Counted(c)
  /\ \E m \in Own[c], s \in S, d \in D, keep \in BOOLEAN :
       /\ To(c, [Idle EXCEPT !.op = "write", !.ph = IF Has("n") THEN "number" ELSE "put",
                   !.i = 1, !.keep = keep,
                   !.new = [m |-> m, s |-> s, d |-> d, n |-> 0]])
       /\ Touch(c, {m}, keep)
  /\ UNCHANGED <<list, file, uid, h, torn, want, ids>>

\* The number after the last that this client knows, or after the last there is.
WriteNumber(c) ==
  /\ At(c, "write", "number")
  /\ LET n == h[c].recno + 1
         r == [call[c].new EXCEPT !.n = n]
     IN /\ n <= MaxNum
        /\ IF Matching("n", Key("n", r)) = {}
           THEN /\ Put("n", r)
                /\ h' = [h EXCEPT ![c].recno = n]
                /\ To(c, [call[c] EXCEPT !.new = r, !.ph = "put"])
           ELSE /\ h' = [h EXCEPT ![c].recno = Highest(file["n"])[1]]
                /\ UNCHANGED <<file, call>>
  /\ UNCHANGED <<list, uid, calls, torn, want, scan, ids>>

\* The position after iswrite is that before it; after iswrcurr it is the record,
\* if the call came to that index.  Where a duplicate was met (p) the last request
\* has failed; an index before it has had its record deleted.
Written(c, p) ==
  LET x == h[c].cur
      met(y) == p = 0 \/ y = "n" \/ \E i \in 1..p : list[i] = y
      b(y) == [rec |-> Rec(y, call[c].new), ok |-> p = 0 \/ list[p] # y]
  IN h' = [h EXCEPT ![c] = Set(Set(@, "m", b("m")), x,
                               IF call[c].keep \/ ~met(x) THEN Cur(c) ELSE b(x))]

WritePut(c) ==
  /\ At(c, "write", "put")
  /\ LET x == list[call[c].i]
         r == call[c].new
         j == NextIndex(call[c].i, LAMBDA y : y # "n")
     IN \/ /\ Matching(x, Key(x, r)) = {}
           /\ Put(x, r)
           /\ \/ j # 0 /\ Go(c, "put", j) /\ UNCHANGED <<h, want>>
              \/ j = 0 /\ End(c) /\ Written(c, 0) /\ want' = want \union {r}
        \/ /\ Matching(x, Key(x, r)) # {}
           /\ \/ /\ Has("n") \/ call[c].i > 1
                 /\ To(c, [call[c] EXCEPT !.ph = IF Has("n") THEN "unnumber" ELSE "undo", !.j = 2])
                 /\ UNCHANGED h
              \/ ~Has("n") /\ call[c].i = 1 /\ End(c) /\ Written(c, 1)
           /\ UNCHANGED <<file, want>>
  /\ UNCHANGED <<list, uid, calls, torn, scan, ids>>

WriteUnnumber(c) ==
  /\ At(c, "write", "unnumber")
  /\ Drop("n", Key("n", call[c].new))
  /\ \/ call[c].i > 1 /\ Go(c, "undo", call[c].i) /\ UNCHANGED h
     \/ call[c].i = 1 /\ End(c) /\ Written(c, 1)
  /\ UNCHANGED <<list, uid, calls, torn, want, scan, ids>>

\* Seeded fault: the loop ends before the last record written.
WriteUndoShort(c) ==
  /\ At(c, "write", "undo")
  /\ LET x == IF call[c].j + 1 < call[c].i THEN list[call[c].j] ELSE "m"
     IN /\ Drop(x, Key(x, call[c].new))
        /\ \/ x # "m" /\ To(c, [call[c] EXCEPT !.j = @ + 1]) /\ UNCHANGED h
           \/ x = "m" /\ End(c) /\ Written(c, call[c].i)
  /\ UNCHANGED <<list, uid, calls, torn, want, scan, ids>>

\* Key records first, from the front of the list, and the master record last.
WriteUndo(c) ==
  /\ At(c, "write", "undo")
  /\ LET x == IF call[c].j < call[c].i THEN list[call[c].j] ELSE "m"
     IN /\ Drop(x, Key(x, call[c].new))
        /\ \/ x # "m" /\ To(c, [call[c] EXCEPT !.j = @ + 1]) /\ UNCHANGED h
           \/ x = "m" /\ End(c) /\ Written(c, call[c].i)
  /\ UNCHANGED <<list, uid, calls, torn, want, scan, ids>>

-----------------------------------------------------------------------------
(* isrewrite, isrewcurr, isupdate and isrewrec.                             *)

\* Seeded fault: the old keys are deleted before the new ones are written.
RewritingOldFirst(c, old, new, keep, sav) ==
  To(c, [Idle EXCEPT !.op = "rewrite", !.keep = keep, !.sav = sav, !.new = new, !.old = old,
                     !.ph = "old", !.i = 1])

\* What isrew does first, with the master record old in its buffer: the call
\* goes on with the first index whose key changes.
Rewriting(c, old, new, keep, sav) ==
  LET j == NextIndex(0, LAMBDA x : Cmprec(x, new, old) = "key")
      k == NextIndex(0, LAMBDA x : Cmprec(x, new, old) # "same")
      to == [Idle EXCEPT !.op = "rewrite", !.keep = keep, !.sav = sav,
                         !.new = new, !.old = old]
  IN CASE j # 0 -> To(c, [to EXCEPT !.ph = "new", !.i = j])
       [] j = 0 /\ k # 0 -> To(c, [to EXCEPT !.ph = "old", !.i = k])
       [] OTHER -> End(c)

\* The record in the buffer of the master file, which isrewcurr, isdelcurr and
\* isdelrec are about: where a position has been restored only its key is known.
Current(c) ==
  /\ h[c].mst.ok /\ Len(h[c].mst.rec) = 4
  /\ Careful => h[c].mst.rec[1] \in Own[c] /\ h[c].mst.rec \in file["m"]

\* isrewcurr, and isupdate, which keeps the key position where it is that of the
\* record in the master file: iswrite and isrewrite leave another record there.
CallRewcurr(c) ==
  /\ CanChange(c) /\ Counted(c)
  /\ Current(c) /\ h[c].start = "CURR"
  /\ \E new \in Record, keep \in BOOLEAN :
       LET old == Unpack(h[c].mst.rec)
       IN /\ {old.m, new.m} \subseteq Own[c]
          /\ new.n = old.n
          /\ Rewriting(c, old, new, keep, <<>>)
          /\ Touch(c, {old.m, new.m},
                   keep /\ Prefix(Cur(c).rec, Klen[h[c].cur]) = Key(h[c].cur, old))
  /\ UNCHANGED <<list, file, uid, h, torn, want, ids>>

\* The key position in a file, to be restored, of which the fields behind the key
\* are lost.
Position(c) == <<Prefix(Cur(c).rec, Klen[h[c].cur])>>

\* isrewrec finds the record by its number first.  sav: the position, restored
\* unless it is in the file of the numbers.
CallRewrec(c) ==
  /\ "rewrec" \in ByNumber /\ CanChange(c) /\ Counted(c) /\ Has("n")
  /\ \E n \in 1..MaxNum, s \in S, d \in D :
       LET k == Find("n", "READEQ", <<n>>)
           m == MasterKey("n", k)[1]
           sav == IF h[c].cur = "n" THEN <<>> ELSE Position(c)
       IN /\ k # None /\ m \in Own[c]
          /\ To(c, [Idle EXCEPT !.op = "rewrite", !.ph = "fetch", !.sav = sav,
                                !.new = [m |-> m, s |-> s, d |-> d, n |-> n]])
          /\ Touch(c, {m}, h[c].cur # "n")
  /\ UNCHANGED <<list, file, uid, h, torn, want, ids>>

\* isrewrite finds the record by its master key, and restores the position unless
\* it is the master's.
CallRewrite(c) ==
  /\ CanChange(c) /\ Counted(c)
  /\ \E m \in Own[c], s \in S, d \in D :
       LET new == [m |-> m, s |-> s, d |-> d, n |-> 0]
           sav == IF h[c].cur = "m" THEN <<>> ELSE Position(c)
       IN /\ To(c, [Idle EXCEPT !.op = "rewrite", !.ph = "fetch", !.sav = sav, !.new = new])
          /\ Touch(c, {m}, h[c].cur # "m")
  /\ UNCHANGED <<list, file, uid, h, torn, want, ids>>

\* The handle with the buffer b of the current index, or the position restored.
Back(c, hc, b) ==
  Set(hc, hc.cur, IF call[c].sav = <<>> THEN b ELSE [b EXCEPT !.rec = call[c].sav[1]])

\* Where isstart has left the position is forgotten (start is set to ISCURR): no
\* scan goes on from there.
RewriteFetch(c) ==
  /\ At(c, "rewrite", "fetch")
  /\ LET k == Find("m", "READEQ", <<call[c].new.m>>)
         new == [call[c].new EXCEPT !.n = k[4]]
         got == [h[c] EXCEPT !.mst = Good(k), !.start = "CURR"]
         not == [h[c] EXCEPT !.mst = Bad(<<call[c].new.m>>)]
     IN \/ /\ k = None /\ End(c) /\ UNCHANGED scan
           /\ h' = [h EXCEPT ![c] = Back(c, not, Buffer(not, h[c].cur))]
        \/ /\ k # None
           /\ h' = [h EXCEPT ![c] = IF new = Unpack(k) THEN Back(c, got, Buffer(got, h[c].cur))
                                    ELSE got]
           /\ Rewriting(c, Unpack(k), new, FALSE, call[c].sav)
           /\ scan' = [scan EXCEPT ![c] = IF h[c].start = "CURR" THEN @ ELSE NoScan]
  /\ UNCHANGED <<list, file, uid, calls, torn, want, ids>>

\* The buffers after isrew: the new record, or the old one if the position is
\* kept.  Where the call met an error (p) the last request has failed; before it
\* new records have been taken back (or, of old ones, the work is done), behind it
\* only the new records that were written have passed through the buffer.  A scan
\* ends with the call where it met the error in the current index and restores
\* nothing: the record it could not write is the position then.
Rewritten(c, p) ==
  LET x == h[c].cur
      r == call[c].new
      o == call[c].old
      how(y) == Cmprec(y, r, o)
      past(y) == p = 0 \/ \E i \in 1..(p - 1) : list[i] = y
      done == call[c].ph = "old"
      b(y) == IF p # 0 /\ list[p] = y THEN Bad(Rec(y, r))
              ELSE IF how(y) = "same" \/ (how(y) = "data" /\ ~(done /\ past(y)))
                     \/ ~(done \/ past(y)) THEN Buffer(h[c], y)
              ELSE Good(Rec(y, IF how(y) = "key" /\ past(y) /\ (call[c].keep \/ ~done)
                               THEN o ELSE r))
  IN /\ h' = [h EXCEPT ![c] = Back(c, Set(@, "m", b("m")), b(x))]
     /\ End(c)
     /\ Touch(c, {}, p = 0 \/ list[p] # x \/ call[c].sav # <<>>)

RewriteNew(c) ==
  /\ At(c, "rewrite", "new")
  /\ LET x == list[call[c].i]
         r == call[c].new
         changes(y) == Cmprec(y, r, call[c].old)
         j == NextIndex(call[c].i, LAMBDA y : changes(y) = "key")
         dup == Matching(x, Key(x, r)) # {}
         b == NextIndex(0, LAMBDA y : changes(y) = "key")
     IN \/ /\ ~dup \/ (x # "m" /\ Klen[x] = Len(Fields[x]))
           /\ IF dup THEN UNCHANGED file ELSE Put(x, r)
           /\ IF j # 0 THEN Go(c, "new", j)
              ELSE Go(c, "old", NextIndex(0, LAMBDA y : changes(y) # "same"))
           /\ UNCHANGED <<h, scan>>
        \/ /\ dup /\ ~(x # "m" /\ Klen[x] = Len(Fields[x]))
           /\ IF b = call[c].i THEN Rewritten(c, b)
              ELSE To(c, [call[c] EXCEPT !.ph = "back", !.j = b]) /\ UNCHANGED <<h, scan>>
           /\ UNCHANGED file
  /\ UNCHANGED <<list, uid, calls, torn, want, ids>>

\* A duplicate: the records written so far are taken back.
RewriteBack(c) ==
  /\ At(c, "rewrite", "back")
  /\ LET x == list[call[c].j]
         j == NextIndex(call[c].j, LAMBDA y : Cmprec(y, call[c].new, call[c].old) = "key")
     IN /\ Drop(x, Key(x, call[c].new))
        /\ IF j < call[c].i THEN To(c, [call[c] EXCEPT !.j = j]) /\ UNCHANGED <<h, scan>>
           ELSE Rewritten(c, call[c].i)
  /\ UNCHANGED <<list, uid, calls, torn, want, ids>>

\* Old keys are deleted, records with the same key replaced: an error there
\* (the record is gone) leaves the call where it is.
RewriteOld(c) ==
  /\ At(c, "rewrite", "old")
  /\ LET x == list[call[c].i]
         changes(y) == Cmprec(y, call[c].new, call[c].old)
         j == NextIndex(call[c].i, LAMBDA y : changes(y) # "same")
         there == Matching(x, Key(x, call[c].new)) # {}
     IN \/ /\ changes(x) = "key" \/ there
           /\ IF changes(x) = "key" THEN Drop(x, Key(x, call[c].old))
              ELSE file' = [file EXCEPT ![x] = (@ \ Matching(x, Key(x, call[c].new)))
                                               \union {Rec(x, call[c].new)}]
           /\ \/ j # 0 /\ Go(c, "old", j) /\ UNCHANGED <<h, want, scan>>
              \/ /\ j = 0 /\ Rewritten(c, 0)
                 /\ want' = (want \ {call[c].old}) \union {call[c].new}
        \/ /\ changes(x) = "data" /\ ~there
           /\ Rewritten(c, call[c].i) /\ UNCHANGED <<file, want>>
  /\ UNCHANGED <<list, uid, calls, torn, ids>>

-----------------------------------------------------------------------------
(* isdelete, isdelcurr and isdelrec: the master record, then each index.    *)

\* isdelcurr takes the record from the buffer of the master file.
Deleting(c, k, mst) ==
  /\ To(c, [Idle EXCEPT !.op = "delete", !.i = 1, !.old = Unpack(k), !.new = Unpack(k)])
  /\ h' = [h EXCEPT ![c].mst = mst, ![c].start = "CURR"]
  /\ Touch(c, {k[1]}, FALSE)

CallDelcurr(c) ==
  /\ CanChange(c) /\ Counted(c)
  /\ Current(c) /\ h[c].start = "CURR"
  /\ h[c].mst.rec[1] \in Own[c]
  /\ Deleting(c, h[c].mst.rec, h[c].mst)
  /\ UNCHANGED <<list, file, uid, torn, want, ids>>

CallDelete(c) ==
  /\ CanChange(c) /\ Counted(c)
  /\ \E m \in Own[c] :
       LET k == Find("m", "READEQ", <<m>>)
       IN \/ k # None /\ Deleting(c, k, Good(k))
          \/ /\ k = None /\ UNCHANGED call
             /\ h' = [h EXCEPT ![c].mst = Bad(<<m>>)]
             /\ Touch(c, {}, h[c].cur # "m")
  /\ UNCHANGED <<list, file, uid, torn, want, ids>>

\* isdelrec finds the key record of the number, and then deletes the record in
\* the buffer of the master file, whichever that is.
CallDelrec(c) ==
  /\ "delrec" \in ByNumber /\ CanChange(c) /\ Counted(c) /\ Has("n")
  /\ Current(c)
  /\ \E n \in 1..MaxNum :
       LET k == Find("n", "READEQ", <<n>>)
       IN /\ k # None /\ MasterKey("n", k)[1] \in Own[c]
          /\ Deleting(c, h[c].mst.rec, h[c].mst)
  /\ UNCHANGED <<list, file, uid, torn, want, ids>>

\* What is not there is not missed.
Delete(c) ==
  /\ call[c].op = "delete"
  /\ LET x == list[call[c].i]
         r == call[c].old
         k == IF x = "m" THEN Rec("m", r) ELSE Key(x, r)
     IN /\ Drop(x, k)
        /\ h' = [h EXCEPT ![c] = Set(@, x, [rec |-> Rec(x, r), ok |-> Matching(x, k) # {}])]
        /\ \/ call[c].i < Len(list) /\ Go(c, "", call[c].i + 1) /\ UNCHANGED want
           \/ call[c].i = Len(list) /\ End(c) /\ want' = want \ {r}
  /\ UNCHANGED <<list, uid, calls, torn, scan, ids>>

-----------------------------------------------------------------------------
(* isstart and isread.                                                      *)

UserKey(x, r) == Prefix(Rec(x, r), 1)

\* A scan is to meet all records that no call in progress is about.
NewScan == [NoScan EXCEPT !.on = TRUE, !.must = {r \in want : r.m \notin Changing}]

\* isstart chooses the index and where in it ISNEXT is to start.
Start(c) ==
  /\ ~Busy(c) /\ c \in Reading
  /\ \E x \in ToSet(list) :
       \/ \E mode \in {"FIRST", "LAST"} :
            /\ h' = [h EXCEPT ![c] = Set([@ EXCEPT !.cur = x, !.start = mode], x, Good(None))]
            /\ scan' = [scan EXCEPT ![c] =
                 IF mode = "FIRST" THEN NewScan ELSE NoScan]
       \/ \E op \in {"READF", "READGT", "READGE"}, r \in want :
            LET mode == CASE op = "READF" -> "EQUAL" [] op = "READGT" -> "GREAT"
                          [] op = "READGE" -> "GTEQ"
                k == Find(x, op, UserKey(x, r))
            IN /\ h' = [h EXCEPT ![c] = Set([@ EXCEPT !.cur = x, !.start = mode], x,
                          IF k = None THEN Bad(UserKey(x, r)) ELSE Good(k))]
               /\ scan' = [scan EXCEPT ![c] = NoScan]
  /\ UNCHANGED <<list, file, uid, call, calls, torn, want, ids>>

\* What mode means where isstart, or an end of file, has left the position.
Effective(start, mode) ==
  CASE start = "FIRST" /\ mode = "NEXT" -> "FIRST"
    [] start = "LAST" /\ mode = "PREV" -> "LAST"
    [] start \notin {"FIRST", "LAST", "CURR"} /\ mode = "NEXT" -> "CURR"
    [] OTHER -> mode

Forward  == {"FIRST", "NEXT", "GREAT", "GTEQ"}
Backward == {"LAST", "PREV", "LESS", "LTEQ"}

\* Seeded fault: ISNEXT by the logical key, the way the branch of #else does it.
RequestByKey(mode, x, r, b) ==
  CASE mode = "FIRST" -> [op |-> "READGE", k |-> None]
    [] mode = "NEXT"  -> [op |-> "READGT", k |-> Prefix(b.rec, 1)]
    [] OTHER -> [op |-> "READEQ", k |-> Key(x, r)]

\* The request isread makes first, on the current index: none for CURR, which
\* needs the master record only.
Request(mode, x, r, b) ==
  CASE mode = "FIRST" -> [op |-> "READGE", k |-> None]
    [] mode = "LAST"  -> [op |-> "READLE", k |-> None]
    [] mode = "NEXT"  -> [op |-> "READGT", k |-> b.rec]
    [] mode = "PREV"  -> [op |-> "READLT", k |-> b.rec]
    [] mode = "EQUAL" \/ (mode = "CURR" /\ x = "n") -> [op |-> "READEQ", k |-> Key(x, r)]
    [] mode = "CURR" /\ x = "m" -> [op |-> "READEQ", k |-> Prefix(b.rec, 1)]
    [] mode = "GREAT" -> [op |-> "READGT", k |-> UserKey(x, r)]
    [] mode = "GTEQ"  -> [op |-> "READGE", k |-> UserKey(x, r)]
    [] mode = "LESS"  -> [op |-> "READLT", k |-> UserKey(x, r)]
    [] mode = "LTEQ"  -> [op |-> "READLE", k |-> UserKey(x, r)]

\* A scan begins with a read of the first record, and goes on with the next.
Begun(c, mode) == IF mode = "FIRST" /\ ~scan[c].on THEN NewScan ELSE scan[c]
Met(sc, x, mode, k) ==
  IF mode \in {"FIRST", "NEXT"} /\ sc.on
  THEN [sc EXCEPT !.last = k, !.seen = @ \union {MasterKey(x, k)[1]}] ELSE NoScan

\* The end of the file in the direction of mode.  start tells the next call.
AtEnd(c, mode, k) ==
  /\ h' = [h EXCEPT ![c] = Set([@ EXCEPT !.start = CASE mode \in {"LESS", "LTEQ", "PREV"} -> "FIRST"
                                                     [] mode \in {"GREAT", "GTEQ", "NEXT"} -> "LAST"
                                                     [] OTHER -> "CURR"], h[c].cur, Bad(k))]
  /\ scan' = [scan EXCEPT ![c] =
       IF mode \in {"FIRST", "NEXT"} /\ @.on THEN [@ EXCEPT !.on = FALSE] ELSE NoScan]

\* A record of the current index is found: the record itself in the master
\* file, else it is looked up next.
KeyRead(c, mode, op, k) ==
  LET x == h[c].cur
      f == Find(x, op, k)
  IN IF f = None THEN AtEnd(c, mode, k) /\ End(c)
     ELSE /\ h' = [h EXCEPT ![c] = Set([@ EXCEPT !.start = "CURR"], x, Good(f))]
          /\ IF x = "m" THEN End(c) /\ scan' = [scan EXCEPT ![c] = Met(Begun(c, mode), x, mode, f)]
             ELSE /\ To(c, [Idle EXCEPT !.op = "read", !.ph = mode])
                  /\ scan' = [scan EXCEPT ![c] = Begun(c, mode)]

Read(c) ==
  /\ ~Busy(c) /\ c \in Reading
  /\ \E m \in Modes, r \in want :
       LET mode == Effective(h[c].start, m)
           x == h[c].cur
           b == Cur(c)
       IN /\ ~(h[c].start = "FIRST" /\ m = "PREV") /\ ~(h[c].start = "LAST" /\ m = "NEXT")
          /\ mode \in {"NEXT", "PREV", "CURR"} => b.ok /\ b.rec # None
          /\ mode \in {"NEXT", "PREV", "FIRST", "LAST"} => r = CHOOSE q \in want : TRUE
          /\ IF mode = "CURR" /\ x \notin {"m", "n"}
             THEN /\ To(c, [Idle EXCEPT !.op = "read", !.ph = "CURR"])
                  /\ h' = [h EXCEPT ![c].start = "CURR"] /\ UNCHANGED scan
             ELSE LET q == Request(mode, x, r, b) IN KeyRead(c, mode, q.op, q.k)
  /\ UNCHANGED <<list, file, uid, calls, torn, want, ids>>

\* The master record is looked up by the key in the key record.  If it is gone
\* the next key record is read, where the mode says which way.
ReadMaster(c) ==
  /\ call[c].op = "read"
  /\ LET mode == call[c].ph
         k == h[c].pos.rec
         f == Find("m", "READEQ", MasterKey(h[c].cur, k))
     IN \/ /\ f # None /\ End(c)
           /\ h' = [h EXCEPT ![c].mst = Good(f)]
           /\ scan' = [scan EXCEPT ![c] = Met(@, h[c].cur, mode, k)]
        \/ /\ f = None
           /\ CASE mode \in Forward  -> KeyRead(c, mode, "READGT", k)
                [] mode \in Backward -> KeyRead(c, mode, "READLT", k)
                [] OTHER -> /\ End(c) /\ scan' = [scan EXCEPT ![c] = NoScan]
                            /\ h' = [h EXCEPT ![c].mst = Bad(MasterKey(h[c].cur, k))]
  /\ UNCHANGED <<list, file, uid, calls, torn, want, ids>>

-----------------------------------------------------------------------------
(* isuniqueid: records of the control file, of which only the last counts.  *)

CallUnique(c) ==
  /\ CanChange(c) /\ Counted(c) /\ Max({0} \union uid) < MaxNum
  /\ To(c, [Idle EXCEPT !.op = "unique", !.ph = "last"])
  /\ UNCHANGED <<list, file, uid, h, torn, want, scan, ids>>

UniqueLast(c) ==
  /\ At(c, "unique", "last")
  /\ Max({0} \union uid) < MaxNum
  /\ Go(c, "write", Max({0} \union uid) + 1)
  /\ UNCHANGED <<list, file, uid, h, calls, torn, want, scan, ids>>

UniqueWrite(c) ==
  /\ At(c, "unique", "write")
  /\ LET i == call[c].i
     IN \/ i \in uid /\ Go(c, "last", 0) /\ UNCHANGED <<uid, ids>>
        \/ /\ i \notin uid /\ Go(c, "lower", i)
           /\ uid' = uid \union {i} /\ ids' = Append(ids, i)
  /\ UNCHANGED <<list, file, h, calls, torn, want, scan>>

\* i: the record read or deleted last; j: 1 if it is to be deleted.
UniqueLower(c) ==
  /\ At(c, "unique", "lower")
  /\ LET low == {i \in uid : i < call[c].i}
     IN \/ /\ call[c].j = 1
           /\ uid' = uid \ {call[c].i}
           /\ IF call[c].i \in uid THEN To(c, [call[c] EXCEPT !.j = 0]) ELSE End(c)
        \/ /\ call[c].j = 0 /\ UNCHANGED uid
           /\ IF low = {} THEN End(c) ELSE To(c, [call[c] EXCEPT !.i = Max(low), !.j = 1])
  /\ UNCHANGED <<list, file, h, calls, torn, want, scan, ids>>

-----------------------------------------------------------------------------
(* A client ends in a call, and what needs the file to itself.              *)

Die(c) ==
  /\ Dies /\ call[c].op \in {"write", "rewrite", "delete"}
  /\ To(c, [call[c] EXCEPT !.op = "dead"])
  /\ torn' = TRUE
  /\ UNCHANGED <<list, file, uid, h, calls, want, scan, ids>>

\* Only one process has the file open, exclusively; others open it anew.
Alone  == Admin /\ \A c \in Client : call[c].op \in {"idle", "dead"}
Reopen == /\ h' = [c \in Client |-> Handle]
          /\ call' = [c \in Client |-> Idle]
          /\ scan' = [c \in Client |-> NoScan]
          /\ UNCHANGED <<uid, calls, ids>>

\* isfix: key records for all master records.  One that meets a duplicate is
\* deleted from every other file.
FixIndex(f, x) ==
  FoldLeft(LAMBDA g, k :
             LET r == Unpack(k)
             IN IF With(g, x, Key(x, r)) = {} THEN [g EXCEPT ![x] = @ \union {Rec(x, r)}]
                ELSE [y \in Index |-> IF y = x THEN g[y]
                        ELSE g[y] \ With(g, y, IF y = "m" THEN k ELSE Key(y, r))],
           [f EXCEPT ![x] = {}], SetToSortSeq(f["m"], Below))

\* bcheck: isfixindex for every index but the first.
Bcheck ==
  /\ Alone /\ torn /\ Reopen
  /\ file' = FoldLeft(FixIndex, file, Tail(list))
  /\ torn' = FALSE /\ want' = {Unpack(k) : k \in file'["m"]}
  /\ UNCHANGED list

\* isaddindexn.  When the file is opened again the new index is the second of
\* the list, or the last of those in front of the record numbers, which are
\* always the last (isopenx).  A duplicate undoes it all.
AddIndex(x) ==
  /\ Alone /\ ~torn /\ x \notin ToSet(list) /\ Reopen
  /\ LET new == FixIndex(file, x)
     IN new["m"] = file["m"] /\ file' = new
  /\ \/ list' = InsertAt(list, IF Has("n") THEN Len(list) ELSE Len(list) + 1, x)
     \/ Has("n") /\ list' = InsertAt(list, 2, x)
  /\ UNCHANGED <<torn, want>>

DelIndex(x) ==
  /\ Alone /\ ~torn /\ x \in ToSet(Tail(list)) /\ Reopen
  /\ list' = SelectSeq(list, LAMBDA y : y # x)
  /\ file' = [file EXCEPT ![x] = {}]
  /\ UNCHANGED <<torn, want>>

-----------------------------------------------------------------------------
Init ==
  /\ list = Chain /\ file = [x \in Index |-> {}] /\ uid = {}
  /\ h = [c \in Client |-> Handle] /\ call = [c \in Client |-> Idle]
  /\ calls = [c \in Client |-> 0] /\ torn = FALSE
  /\ want = {} /\ scan = [c \in Client |-> NoScan] /\ ids = <<>>

Next ==
  \/ \E c \in Client :
       \/ CallWrite(c) \/ WriteNumber(c) \/ WritePut(c) \/ WriteUnnumber(c) \/ WriteUndo(c)
       \/ CallRewcurr(c) \/ CallRewrite(c) \/ CallRewrec(c) \/ RewriteFetch(c) \/ RewriteNew(c)
       \/ RewriteBack(c) \/ RewriteOld(c)
       \/ CallDelcurr(c) \/ CallDelete(c) \/ CallDelrec(c) \/ Delete(c)
       \/ Start(c) \/ Read(c) \/ ReadMaster(c)
       \/ CallUnique(c) \/ UniqueLast(c) \/ UniqueWrite(c) \/ UniqueLower(c)
       \/ Die(c)
  \/ Bcheck
  \/ \E x \in Index : AddIndex(x) \/ DelIndex(x)

Spec == Init /\ [][Next]_vars

-----------------------------------------------------------------------------
TypeOK ==
  /\ list \in Seq(Index) /\ list # <<>> /\ list[1] = "m"
  /\ file \in [Index -> SUBSET (Seq(Int))]
  /\ uid \subseteq 1..MaxNum /\ torn \in BOOLEAN /\ want \subseteq Record

\* The records that no call in progress is about.
Settled == {r \in want : r.m \notin Changing}

\* Every record that completed calls left, and that no call in progress is
\* about, is in the master file and in every index; and no file holds another
\* record of such a key, whatever the calls of the others did meanwhile
\* (iswrite, isrew, isdelcurr and their undo loops).
IndexesAgree ==
  \A x \in ToSet(list) :
    {k \in file[x] : MasterKey(x, k)[1] \notin Changing} = {Rec(x, r) : r \in Settled}

\* A scan from the first to the last record of an index meets every record that
\* was there all the time, though others are written, changed and deleted
\* meanwhile, and goes forward only (isread: the skip of key records without a
\* master, and ISNEXT by key value).
ScanComplete ==
  \A c \in Client :
    h[c].start = "LAST" /\ scan[c].seen # {} => \A r \in scan[c].must : r.m \in scan[c].seen
ScanForward ==
  [][\A c \in Client : scan[c].on /\ scan'[c].on /\ scan'[c].last \notin {scan[c].last, None}
       => scan[c].last = None \/ Below(scan[c].last, scan'[c].last)]_vars

\* A client that ends in isrewrite leaves the old record or the new one in the
\* master file (isrew writes the new one first).
RewriteKeepsRecord ==
  \A c \in Client : call[c].op = "rewrite" /\ call[c].old.m # 0 =>
    {Rec("m", call[c].old), Rec("m", call[c].new)} \intersect file["m"] # {}

\* The last id handed out, or one above it, stays in the control file: a call
\* of isuniqueid that is alone returns a new one.
LastIdKept == \A i \in DOMAIN ids : \E u \in uid : ids[i] <= u

\* ReplacedKept: what a call replaces by writing the new and deleting the old,
\* a record or the last id, is there in one form or the other at every step.
ReplacedKept == RewriteKeepsRecord /\ LastIdKept

\* No id is handed out twice: refuted by two clients.
UniqueIds == \A i, j \in DOMAIN ids : ids[i] = ids[j] => i = j
=============================================================================

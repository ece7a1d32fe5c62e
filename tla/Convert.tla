------------------------------ MODULE Convert ------------------------------
(***************************************************************************)
(* How records and values are put in the bytes that BTAS compares: the     *)
(* packing of a record with its field table (lib/pack.c), numbers          *)
(* (lib/fnum.c, fmoney.c, flong.c), doubles (sql/fdbl.c) and what the      *)
(* columns of the SQL client store and load (sql/column.c, coldate.c).     *)
(*                                                                         *)
(* A byte is a number below Base; a record is a sequence of bytes.  The    *)
(* environment variable MONEY is "O" (the sign bit of money inverted on    *)
(* disk), "C" (the same, but not read so by fnum.c) or "N".  The magnitude *)
(* of a double, whose bits are in the order of its value, is its number of *)
(* tenths.                                                                 *)
(***************************************************************************)
EXTENDS Expr

CONSTANTS
  Base,      \* 256
  Blank,     \* ' ', and as such the most leading blanks one byte counts
  Highest,   \* 0x7f, "highest legal char"
  DayCent    \* DAYCENTORG, the day before the first of a two byte date

Half == Base \div 2
Most == Base - 1          \* 0xff, which no character may be

Rep(b, n)    == [i \in 1..n |-> b]
Least2(x, y) == IF x <= y THEN x ELSE y
Leading(s, b) == CHOOSE n \in 0..Len(s) : /\ \A i \in 1..n : s[i] = b
                                          /\ n < Len(s) => s[n + 1] # b
Upto(s, ok(_)) == CHOOSE n \in 0..Len(s) : /\ \A i \in 1..n : ok(s[i])
                                           /\ n < Len(s) => ~ok(s[n + 1])
Trimmed(s, b) == SubSeq(s, 1, CHOOSE n \in 0..Len(s) : /\ n = 0 \/ s[n] # b
                                                       /\ \A i \in (n + 1)..Len(s) : s[i] = b)
Complement(s) == [i \in DOMAIN s |-> Most - s[i]]
Clipped(f, ulen) == IF f.pos >= ulen THEN 0 ELSE Least2(f.len, ulen - f.pos)

Digits(v, n) == [i \in 1..n |-> (v \div Base^(n - i)) % Base]
Unsigned(s)  == LET f[i \in 0..Len(s)] == IF i = 0 THEN 0 ELSE Base * f[i - 1] + s[i] IN f[Len(s)]
Signed(s)    == Unsigned(s) - IF s[1] >= Half THEN Base^Len(s) ELSE 0
Flipped(s)   == <<(s[1] + Half) % Base>> \o Tail(s)

-----------------------------------------------------------------------------
(* u2brec.  buf is what is packed, left the bytes of the user's key not yet *)
(* met, klen the length of the packed key.  fldccpy copies characters to    *)
(* the first NUL and replaces those the coding has no place for.            *)
Fldccpy(s) ==
  LET n == Upto(s, LAMBDA c : c # 0)
  IN  [i \in 1..n |-> IF s[i] = Most THEN Highest ELSE IF s[i] < Blank THEN Blank ELSE s[i]]

KeyEnds(st, at, len) ==
  IF st.left = 0 THEN st
  ELSE IF st.left <= len THEN [st EXCEPT !.left = 0, !.klen = at]
  ELSE [st EXCEPT !.left = @ - len]

PackChar(st, f, u) ==
  LET lead == Leading(u, Blank)
      none == lead = Len(u) \/ u[1] = 0
      blen == IF none THEN 0 ELSE Least2(lead, Blank)
      counted == IF blen = 0 THEN st
                 ELSE KeyEnds([st EXCEPT !.buf = Append(@, Blank - blen + 1)], Len(st.buf) + 1, blen)
      text == IF none THEN <<>> ELSE Trimmed(Fldccpy(SubSeq(u, blen + 1, Len(u))), Blank)
      ended == none \/ Len(text) < f.len - blen
      buf  == counted.buf \o text \o IF ended THEN <<0>> ELSE <<>>
      cut  == IF counted.left > Len(text) THEN 0
              ELSE Len(text) - counted.left + IF ended THEN 1 ELSE 0
  IN  KeyEnds([counted EXCEPT !.buf = buf], Len(buf) - cut, Len(u) - blen)

PackField(st, f, urec, recnum) ==
  LET u == SubSeq(urec, f.pos + 1, f.pos + Clipped(f, Len(urec)))
      Plain(s, t) == KeyEnds([s EXCEPT !.buf = @ \o t], Len(s.buf) + s.left, Len(t))
  IN  CASE f.type = "char"  -> PackChar(st, f, u)
        [] f.type = "desc"  -> Plain(st, Complement(u))
        [] f.type = "recno" /\ f.pos >= Len(urec) -> Plain(st, Digits(recnum, 4))
        [] OTHER            -> Plain(st, u)

U2brec(fields, urec, recnum, klen) ==
  LET f[i \in 0..Len(fields)] == IF i = 0 THEN [buf |-> <<>>, left |-> klen, klen |-> 0]
                                 ELSE PackField(f[i - 1], fields[i], urec, recnum)
      st  == f[Len(fields)]
      buf == Trimmed(st.buf, 0)
  IN  [klen |-> st.klen,
       buf  |-> IF Len(buf) < st.klen THEN SubSeq(st.buf, 1, st.klen) ELSE buf]

(* b2urec.  The bytes of a character field end at a NUL, or when as many    *)
(* characters have been taken as the field has; what a shortened record     *)
(* lacks is blank or zero.                                                  *)
RECURSIVE Chars(_, _, _, _)
Chars(buf, slen, flen, out) ==
  LET c == Head(buf)
      blanks == IF c < Blank THEN Least2(Blank - c, flen) ELSE 0
      put == Rep(Blank, blanks) \o IF flen > blanks THEN <<c + blanks>> ELSE <<>>
  IN  IF buf = <<>> \/ slen = 0 THEN [out |-> out \o Rep(Blank, flen), buf |-> buf]
      ELSE IF c = 0 THEN [out |-> out \o Rep(Blank, flen), buf |-> Tail(buf)]
      ELSE Chars(Tail(buf), slen - 1 - blanks, flen - Len(put), out \o put)

UnpackField(st, f, ulen) ==
  LET flen == Clipped(f, ulen)
      have == Least2(flen, Len(st.buf))
      took == IF have < f.len /\ f.len <= Len(st.buf) THEN f.len ELSE have
      got  == SubSeq(st.buf, 1, have)
      text == Chars(st.buf, f.len, flen, <<>>)
      four == Least2(4, Len(st.buf))
      Put(v) == [i \in DOMAIN st.urec |-> IF i \in (f.pos + 1)..(f.pos + flen) THEN v[i - f.pos]
                                          ELSE st.urec[i]]
  IN  CASE f.pos >= ulen /\ f.type = "recno" ->
             [st EXCEPT !.recnum = Signed(SubSeq(st.buf, 1, four) \o Rep(0, 4 - four)),
                        !.buf = SubSeq(@, four + 1, Len(@))]
        [] f.pos >= ulen    -> st
        [] f.type = "char"  -> [st EXCEPT !.urec = Put(text.out), !.buf = text.buf]
        [] OTHER            -> [st EXCEPT !.urec = Put((IF f.type = "desc" THEN Complement(got) ELSE got)
                                                   \o Rep(0, flen - have)),
                                          !.buf = SubSeq(@, took + 1, Len(@))]

B2urec(fields, ulen, buf) ==
  LET f[i \in 0..Len(fields)] == IF i = 0 THEN [urec |-> Rep(0, ulen), recnum |-> 0, buf |-> buf]
                                 ELSE UnpackField(f[i - 1], fields[i], ulen)
  IN  f[Len(fields)]

-----------------------------------------------------------------------------
(* Money is six bytes; a number is the last len of them.  fnum.c undoes     *)
(* what fmoney.c does to the sign, and does it again to the first byte of a *)
(* number of five or six.  The least number of a length is NULL.            *)
Signmethod(money) == money \in {"O", "C"}
Old(money) == money = "O"
NullM == -(Base^6 \div 2)

StM(v, money) == IF Signmethod(money) THEN Flipped(Digits(v, 6)) ELSE Digits(v, 6)
LdM(s, money) == Signed(IF Signmethod(money) THEN Flipped(s) ELSE s)

Stnum(v, len, money) ==
  LET m == IF Old(money) THEN Flipped(StM(v, money)) ELSE StM(v, money)
      s == IF len <= 6 THEN SubSeq(m, 7 - len, 6)
           ELSE Rep(IF m[1] >= Half THEN Most ELSE 0, len - 6) \o m
  IN  IF len > 4 /\ Old(money) THEN Flipped(s) ELSE s

Ldnum(s, money) ==
  LET n == Least2(Len(s), 6)
      t == SubSeq(s, Len(s) - n + 1, Len(s))
      u == IF n > 4 /\ Old(money) THEN Flipped(t) ELSE t
      m == Rep(IF u[1] >= Half THEN Most ELSE 0, 6 - n) \o u
  IN  IF u = <<Half>> \o Rep(0, n - 1) THEN NullM
      ELSE LdM(IF Old(money) THEN Flipped(m) ELSE m, money)

(* A double of n bytes: the sign bit of one that is not negative is set, a  *)
(* negative one is complemented.                                            *)
Stdbl(t, n) == Digits(IF t < 0 THEN Base^n \div 2 - 1 + t ELSE Base^n \div 2 + t, n)
Lddbl(s) == LET top == Base^Len(s) \div 2
            IN  IF Unsigned(s) >= top THEN Unsigned(s) - top ELSE Unsigned(s) - top + 1

-----------------------------------------------------------------------------
(* Column_gen chooses the kind of a column by the type and length of its    *)
(* field.                                                                   *)
Column(f) ==
  CASE f.type = "recno" -> [kind |-> "num", len |-> 4, fix |-> 0]
    [] f.type = "char"  -> [kind |-> "char", len |-> f.len]
    [] f.type = "date" /\ f.len = 2 -> [kind |-> "date", len |-> 2]
    [] f.type = "date" /\ f.len = 4 -> [kind |-> "julian", len |-> 4]
    [] f.type = "time" /\ f.len \in 4..8 -> [kind |-> "time", len |-> f.len]
    [] f.type = "flt" /\ f.len = 8 -> [kind |-> "dbl", len |-> 8]
    [] f.type = "num"   -> [kind |-> "num", len |-> f.len, fix |-> f.fix]
    [] OTHER            -> [kind |-> "bin", len |-> f.len]

Trunc(t) == IF t < 0 THEN -((-t) \div 10) ELSE t \div 10
Padded(s, len) == LET n == Upto(s, LAMBDA c : c # 0)
                  IN  [i \in 1..len |-> IF i <= n THEN s[i] ELSE Blank]
Numbers == {"const", "date", "dbl"}

(* What each kind stores of a value; refused is the return of -1.           *)
Refused == <<>>

NumberStore(col, x, money) ==
  LET v == Toconst(x, col.fix)
      tmp == Stnum(v, col.len, money)
  IN  IF x.op = "null"
      THEN <<IF Signmethod(money) THEN Half ELSE 0>> \o Rep(0, col.len - 1)
      ELSE IF x.op \notin Numbers \/ col.len > 6 \/ Ldnum(tmp, money) # v THEN Refused
      ELSE tmp

DateStore(x) ==
  LET t == Double(x).t - 10 * DayCent
  IN  IF x.op \notin Numbers THEN Refused
      ELSE IF Double(x).t = 0 THEN <<0, 0>>
      ELSE IF t < 10 \/ t >= 10 * Base^2 THEN Refused ELSE Digits(t \div 10, 2)

JulianStore(x) ==
  IF x.op = "null" THEN Rep(0, 4)
  ELSE IF x.op \notin Numbers THEN Refused ELSE Digits(Trunc(Double(x).t), 4)

TimeStore(col, x, money) ==
  IF col.len > 6 \/ x.op \notin Numbers \cup {"null"} THEN Refused
  ELSE Stnum(IF x.op = "null" THEN 0 ELSE Toconst(x, 0), col.len, money)

DblStore(col, x) ==
  IF x.op = "null" THEN <<Half>> \o Rep(0, col.len - 1)
  ELSE IF x.op \in Numbers THEN Stdbl(Double(x).t, col.len) ELSE Refused

BinStore(col, x, money) ==
  IF x.op = "string" THEN Padded(x.s, col.len)
  ELSE IF x.op \notin Numbers \/ col.len > 6 THEN Refused
  ELSE Stnum(IF x.op = "dbl" THEN Toconst(x, 0) ELSE x.v, col.len, money)

CharStore(col, x) == Padded(IF x.op = "string" THEN x.s ELSE <<>>, col.len)

Store(col, x, money) ==
  CASE col.kind = "num"    -> NumberStore(col, x, money)
    [] col.kind = "date"   -> DateStore(x)
    [] col.kind = "julian" -> JulianStore(x)
    [] col.kind = "time"   -> TimeStore(col, x, money)
    [] col.kind = "dbl"    -> DblStore(col, x)
    [] col.kind = "char"   -> CharStore(col, x)
    [] OTHER               -> BinStore(col, x, money)

(* What each kind loads; a time is NULL when it is not positive.            *)
NullOr(nul, x) == IF nul THEN Null ELSE x
NumberLoad(col, s, money) == LET v == Ldnum(s, money) IN NullOr(v = NullM, Const(v, col.fix))
DateLoad(s)   == NullOr(Unsigned(s) = 0, [op |-> "date", v |-> Unsigned(s) + DayCent])
JulianLoad(s) == NullOr(Signed(s) = 0, [op |-> "date", v |-> Signed(s)])
TimeLoad(s, money) == LET v == Ldnum(s, money) IN NullOr(v <= 0, Const(v, 0))
DblLoad(s)    == NullOr(s = <<Half>> \o Rep(0, Len(s) - 1), Dbl(Lddbl(s)))
CharLoad(s)   == Str(Trimmed(s, Blank))
BinLoad(s, money) == Const(Ldnum(s, money), 0)

Load(col, s, money) ==
  CASE col.kind = "num"    -> NumberLoad(col, s, money)
    [] col.kind = "date"   -> DateLoad(s)
    [] col.kind = "julian" -> JulianLoad(s)
    [] col.kind = "time"   -> TimeLoad(s, money)
    [] col.kind = "dbl"    -> DblLoad(s)
    [] col.kind = "char"   -> CharLoad(s)
    [] OTHER               -> BinLoad(s, money)
=============================================================================

---------------------------- MODULE Isam_proofs ----------------------------
(***************************************************************************)
(* Proofs about the indexes of a C-ISAM file (Isam).  Every client changes *)
(* records of its own (Own), and is careful (Careful); any number of them  *)
(* are in calls at the same time, each at any request of its call, and one *)
(* may have ended there.  The inductive invariant IInv says, for each      *)
(* client and each file of the list, which records of the client the file  *)
(* holds: those its completed calls have left, less the old one the call   *)
(* has deleted there, and the new one it has written there.                *)
(* Beside it ScanInv says where a client in a scan by ISNEXT is: at a      *)
(* place in the order of keys behind which all records that it has still   *)
(* to meet come, or where it will be when its call restores the position.  *)
(***************************************************************************)
EXTENDS Isam, FiniteSetTheorems, SequenceTheorems, WellFoundedInduction, TLAPS

\* A record of the user: its four fields, whatever they are.
IsRec(r) == r = [m |-> r.m, s |-> r.s, d |-> r.d, n |-> r.n]

\* A set of numbers has a least one.
LEMMA Least ==
  ASSUME NEW J \in SUBSET Nat, J # {}
  PROVE  \E j \in J : \A k \in J : j <= k
  <1>1. PICK j \in J : \A k \in J : ~(<<k, j>> \in OpToRel(<, Nat))
    BY NatLessThanWellFounded, WFMin
  <1>2. \A k \in J : ~(k < j)
    BY <1>1 DEF OpToRel
  <1> QED BY <1>2

\* A bounded set of numbers has a greatest one, and Max is it.
LEMMA Greatest ==
  ASSUME NEW N \in Nat, NEW J \in SUBSET (0..N), J # {}
  PROVE  Max(J) \in J /\ \A k \in J : k <= Max(J)
  <1> DEFINE K == {N - j : j \in J}
  <1>0. \A j \in J : j \in Nat /\ j <= N
    OBVIOUS
  <1>1. K \in SUBSET Nat /\ K # {}
    <2>1. ASSUME NEW k \in K PROVE k \in Nat
      <3>1. PICK j \in J : k = N - j
        OBVIOUS
      <3> QED BY <3>1, <1>0
    <2> QED BY <2>1
  <1>2. PICK l \in K : \A k \in K : l <= k
    BY <1>1, Least
  <1>3. N - l \in J /\ \A k \in J : k <= N - l
    BY <1>2
  <1> QED BY <1>3 DEF Max

\* The record of each file for the record r of the user (u2brec).
LEMMA Recs ==
  ASSUME NEW r
  PROVE  /\ Rec("m", r) = <<r.m, r.s, r.d, r.n>>
         /\ Rec("s", r) = <<r.s, r.m>>
         /\ Rec("d", r) = <<r.d, r.m>>
         /\ Rec("n", r) = <<r.n, r.m>>
  BY DEF Rec, Fields

\* The field of each file that holds the master key.
LEMMA Masters ==
  ASSUME NEW k
  PROVE  /\ 1 \in DOMAIN k => MasterKey("m", k) = <<k[1]>>
         /\ 2 \in DOMAIN k => /\ MasterKey("s", k) = <<k[2]>>
                              /\ MasterKey("d", k) = <<k[2]>>
                              /\ MasterKey("n", k) = <<k[2]>>
  BY DEF MasterKey, Fields

\* A key record holds the key of its master.
LEMMA MasterOf ==
  ASSUME NEW r, NEW x \in Index
  PROVE  MasterKey(x, Rec(x, r)) = <<r.m>>
  <1>0. /\ Rec("m", r) = <<r.m, r.s, r.d, r.n>>
        /\ Rec("s", r) = <<r.s, r.m>>
        /\ Rec("d", r) = <<r.d, r.m>>
        /\ Rec("n", r) = <<r.n, r.m>>
    BY Recs
  <1>1. /\ Rec("m", r)[1] = r.m /\ Rec("s", r)[2] = r.m
        /\ Rec("d", r)[2] = r.m /\ Rec("n", r)[2] = r.m
    BY <1>0
  <1>2. /\ 1 \in DOMAIN Rec("m", r) /\ 2 \in DOMAIN Rec("s", r)
        /\ 2 \in DOMAIN Rec("d", r) /\ 2 \in DOMAIN Rec("n", r)
    BY <1>0
  <1>5. /\ MasterKey("m", Rec("m", r)) = <<Rec("m", r)[1]>>
        /\ MasterKey("s", Rec("s", r)) = <<Rec("s", r)[2]>>
        /\ MasterKey("d", Rec("d", r)) = <<Rec("d", r)[2]>>
        /\ MasterKey("n", Rec("n", r)) = <<Rec("n", r)[2]>>
    BY <1>2, Masters
  <1> QED BY <1>1, <1>5 DEF Index

\* The first field of a record is a prefix of its own.
LEMMA One ==
  ASSUME NEW X, NEW s \in Seq(X), Len(s) >= 1
  PROVE  Prefix(s, 1) = <<s[1]>>
  <1> DEFINE p == SubSeq(s, 1, 1)
  <1>1. p \in Seq(X) /\ Len(p) = 1 /\ p[1] = s[1]
    OBVIOUS
  <1>2. p = <<p[1]>>
    <2> DEFINE q == <<p[1]>>
    <2>1. q \in Seq(X) /\ Len(q) = 1 /\ q[1] = p[1]
      BY <1>1
    <2> HIDE DEF p, q
    <2>2. p = q
      BY <2>1, <1>1, SeqEqual
    <2> QED BY <2>2 DEF q
  <1>3. Prefix(s, 1) = p
    BY DEF Prefix
  <1> QED BY <1>1, <1>2, <1>3

\* The prefixes of records that are keys.
LEMMA Firsts ==
  ASSUME NEW a, NEW b, NEW c, NEW d
  PROVE  /\ Prefix(<<a, b, c, d>>, 1) = <<a>>
         /\ Prefix(<<a, b>>, 1) = <<a>>
         /\ Prefix(<<a, b>>, 2) = <<a, b>>
  <1>1. Prefix(<<a, b, c, d>>, 1) = <<a>>
    <2> DEFINE X == {a, b, c, d} s == <<a, b, c, d>>
    <2>1. s \in Seq(X) /\ Len(s) = 4 /\ s[1] = a
      OBVIOUS
    <2> HIDE DEF s, X
    <2>2. Prefix(s, 1) = <<s[1]>>
      BY <2>1, One
    <2> QED BY <2>1, <2>2 DEF s
  <1> DEFINE X == {a, b} s == <<a, b>>
  <1>2. s \in Seq(X) /\ Len(s) = 2 /\ s[1] = a
    OBVIOUS
  <1> HIDE DEF s, X
  <1>3. Prefix(s, 1) = <<s[1]>>
    BY <1>2, One
  <1>4. Prefix(s, 2) = s
    <2>1. Prefix(s, 2) = SubSeq(s, 1, Len(s))
      BY <1>2 DEF Prefix
    <2> QED BY <2>1, <1>2, SubSeqFull
  <1> QED BY <1>1, <1>2, <1>3, <1>4 DEF s

\* The unique key of each file.
LEMMA Keys ==
  ASSUME NEW r
  PROVE  /\ Key("m", r) = <<r.m>>
         /\ Key("s", r) = <<r.s>>
         /\ Key("d", r) = <<r.d, r.m>>
         /\ Key("n", r) = <<r.n>>
  <1>1. Klen["m"] = 1 /\ Klen["s"] = 1 /\ Klen["d"] = 2 /\ Klen["n"] = 1
    BY DEF Klen
  <1>2. Key("m", r) = <<r.m>>
    <2>1. Rec("m", r) = <<r.m, r.s, r.d, r.n>>
      BY Recs
    <2>2. Prefix(<<r.m, r.s, r.d, r.n>>, 1) = <<r.m>>
      BY Firsts
    <2>3. Key("m", r) = Prefix(Rec("m", r), 1)
      BY <1>1 DEF Key
    <2> QED BY <2>1, <2>2, <2>3
  <1>3. Key("s", r) = <<r.s>>
    <2>1. Rec("s", r) = <<r.s, r.m>>
      BY Recs
    <2>2. Prefix(<<r.s, r.m>>, 1) = <<r.s>>
      BY Firsts
    <2>3. Key("s", r) = Prefix(Rec("s", r), 1)
      BY <1>1 DEF Key
    <2> QED BY <2>1, <2>2, <2>3
  <1>4. Key("d", r) = <<r.d, r.m>>
    <2>1. Rec("d", r) = <<r.d, r.m>>
      BY Recs
    <2>2. Prefix(<<r.d, r.m>>, 2) = <<r.d, r.m>>
      BY Firsts
    <2>3. Key("d", r) = Prefix(Rec("d", r), 2)
      BY <1>1 DEF Key
    <2> QED BY <2>1, <2>2, <2>3
  <1>5. Key("n", r) = <<r.n>>
    <2>1. Rec("n", r) = <<r.n, r.m>>
      BY Recs
    <2>2. Prefix(<<r.n, r.m>>, 1) = <<r.n>>
      BY Firsts
    <2>3. Key("n", r) = Prefix(Rec("n", r), 1)
      BY <1>1 DEF Key
    <2> QED BY <2>1, <2>2, <2>3
  <1> QED BY <1>2, <1>3, <1>4, <1>5

\* When a record begins with a key.
LEMMA Starts ==
  ASSUME NEW a, NEW b, NEW t, NEW u, NEW v, NEW w
  PROVE  /\ IsPrefix(<<t>>, <<a, b, u, v>>) <=> t = a
         /\ IsPrefix(<<t>>, <<a, b>>) <=> t = a
         /\ IsPrefix(<<t, w>>, <<a, b>>) <=> t = a /\ w = b
  <1>1. IsPrefix(<<t>>, <<a, b, u, v>>) <=> t = a
    BY DEF IsPrefix
  <1>2. IsPrefix(<<t>>, <<a, b>>) <=> t = a
    BY DEF IsPrefix
  <1>3. IsPrefix(<<t, w>>, <<a, b>>) <=> t = a /\ w = b
    BY DEF IsPrefix
  <1> QED BY <1>1, <1>2, <1>3

\* Only the master record itself begins with the whole of it (isdelete).
LEMMA WholeStart ==
  ASSUME NEW r, NEW q
  PROVE  IsPrefix(Rec("m", r), Rec("m", q)) => Rec("m", r) = Rec("m", q)
  <1> DEFINE X == {r.m, r.s, r.d, r.n, q.m, q.s, q.d, q.n} s == Rec("m", r) t == Rec("m", q)
  <1>1. s \in Seq(X) /\ t \in Seq(X) /\ Len(s) = 4 /\ Len(t) = 4
    <2>1. s = <<r.m, r.s, r.d, r.n>> /\ t = <<q.m, q.s, q.d, q.n>>
      BY Recs
    <2> HIDE DEF s, t
    <2> QED BY <2>1
  <1> HIDE DEF s, t, X
  <1>2. SubSeq(s, 1, 4) = s /\ SubSeq(t, 1, 4) = t
    BY <1>1, SubSeqFull
  <1>3. IsPrefix(s, t) => s = t
    BY <1>1, <1>2 DEF IsPrefix
  <1> QED BY <1>3 DEF s, t

\* Equal key records are of the same master.
LEMMA SameMaster ==
  ASSUME NEW x \in Index, NEW r, NEW q, Rec(x, r) = Rec(x, q)
  PROVE  r.m = q.m
  <1>1. MasterKey(x, Rec(x, r)) = <<r.m>>
    BY MasterOf
  <1>2. MasterKey(x, Rec(x, q)) = <<q.m>>
    BY MasterOf
  <1> QED BY <1>1, <1>2

\* A record matches a unique key just if the key is its own.
LEMMA Matches ==
  ASSUME NEW x \in Index, NEW r, NEW q
  PROVE  IsPrefix(Key(x, r), Rec(x, q)) <=> Key(x, q) = Key(x, r)
  <1>1. /\ Rec("m", q) = <<q.m, q.s, q.d, q.n>> /\ Rec("s", q) = <<q.s, q.m>>
        /\ Rec("d", q) = <<q.d, q.m>> /\ Rec("n", q) = <<q.n, q.m>>
    BY Recs
  <1>2. /\ Key("m", q) = <<q.m>> /\ Key("s", q) = <<q.s>>
        /\ Key("d", q) = <<q.d, q.m>> /\ Key("n", q) = <<q.n>>
    BY Keys
  <1>3. /\ Key("m", r) = <<r.m>> /\ Key("s", r) = <<r.s>>
        /\ Key("d", r) = <<r.d, r.m>> /\ Key("n", r) = <<r.n>>
    BY Keys
  <1>4. IsPrefix(<<r.m>>, <<q.m, q.s, q.d, q.n>>) <=> r.m = q.m
    BY DEF IsPrefix
  <1>5. IsPrefix(<<r.s>>, <<q.s, q.m>>) <=> r.s = q.s
    BY Starts
  <1>6. IsPrefix(<<r.d, r.m>>, <<q.d, q.m>>) <=> r.d = q.d /\ r.m = q.m
    BY DEF IsPrefix
  <1>7. IsPrefix(<<r.n>>, <<q.n, q.m>>) <=> r.n = q.n
    BY Starts
  <1>8. CASE x = "m"
    BY <1>1, <1>2, <1>3, <1>4, <1>8
  <1>9. CASE x = "s"
    BY <1>1, <1>2, <1>3, <1>5, <1>9
  <1>10. CASE x = "d"
    BY <1>1, <1>2, <1>3, <1>6, <1>10
  <1>11. CASE x = "n"
    BY <1>1, <1>2, <1>3, <1>7, <1>11
  <1> QED BY <1>8, <1>9, <1>10, <1>11 DEF Index

\* b2urec of a master record gives the record back.
LEMMA Unpacked ==
  ASSUME NEW r, IsRec(r)
  PROVE  Unpack(Rec("m", r)) = r
  <1>1. Rec("m", r) = <<r.m, r.s, r.d, r.n>>
    BY Recs
  <1> QED BY <1>1 DEF Unpack, IsRec

\* What cmprec tells apart.
LEMMA Compared ==
  ASSUME NEW x, NEW r, NEW q
  PROVE  /\ Cmprec(x, r, q) = "key" <=> Key(x, r) # Key(x, q)
         /\ Cmprec(x, r, q) = "same" <=> Key(x, r) = Key(x, q) /\ Rec(x, r) = Rec(x, q)
         /\ Cmprec(x, r, q) = "data" <=> Key(x, r) = Key(x, q) /\ Rec(x, r) # Rec(x, q)
  BY DEF Cmprec

\* Equal records have equal keys.
LEMMA SameKey ==
  ASSUME NEW x, NEW r, NEW q, Rec(x, r) = Rec(x, q)
  PROVE  Key(x, r) = Key(x, q)
  BY DEF Key

\* In the index with duplicates the key is the whole record.
LEMMA DKey ==
  ASSUME NEW r
  PROVE  Key("d", r) = Rec("d", r)
  <1>1. Rec("d", r) = <<r.d, r.m>> /\ Key("d", r) = <<r.d, r.m>>
    BY Recs, Keys
  <1> QED BY <1>1

\* In the master file the key is the first field.
LEMMA MKey ==
  ASSUME NEW r, NEW m
  PROVE  /\ Key("m", r) = <<r.m>>
         /\ IsPrefix(<<m>>, Rec("m", r)) <=> r.m = m
         /\ Rec("m", r)[1] = r.m
  <1>1. Rec("m", r) = <<r.m, r.s, r.d, r.n>>
    BY Recs
  <1>2. IsPrefix(<<m>>, <<r.m, r.s, r.d, r.n>>) <=> m = r.m
    BY Starts, ZenonT(60)
  <1>3. Rec("m", r)[1] = r.m
    BY <1>1
  <1>4. Key("m", r) = <<r.m>>
    BY Keys
  <1> QED BY <1>1, <1>2, <1>3, <1>4

-----------------------------------------------------------------------------
\* The fields of a call; the calls that change records, one cut short included;
\* what isrewrite does to the p-th file.
IsCall(k) == k = [op |-> k.op, ph |-> k.ph, i |-> k.i, j |-> k.j, keep |-> k.keep,
                  sav |-> k.sav, new |-> k.new, old |-> k.old]
Works(k) == k.op \in {"write", "rewrite", "delete", "dead"}
Change(k, p) == Cmprec(Chain[p], k.new, k.old)
\* The new record of the call k is in the p-th file of the list: iswrite puts it
\* in order, the record numbers first, and takes it back from the second on and the
\* master last; isrewrite puts the records with new keys first and, when the old
\* keys go, replaces those with the same key in order.
Come(k, p) ==
  /\ Works(k)
  /\ \/ k.ph \in {"put", "unnumber"} /\ (p < k.i \/ Chain[p] = "n")
     \/ k.ph = "undo" /\ p < k.i /\ (p = 1 \/ k.j <= p)
     \/ k.ph = "new" /\ p < k.i /\ Change(k, p) = "key"
     \/ k.ph = "back" /\ k.j <= p /\ p < k.i /\ Change(k, p) = "key"
     \/ k.ph = "old" /\ (Change(k, p) = "key" \/ (p < k.i /\ Change(k, p) = "data"))
\* The old record of the call is no longer in the p-th file.
Gone(k, p) ==
  Works(k) /\ p < k.i /\ (k.ph = "" \/ (k.ph = "old" /\ Change(k, p) # "same"))
\* The records of the client that the p-th file holds: those of w, which its
\* completed calls have left, with what the call k has done there.
Left(w, k, p) == IF Gone(k, p) THEN w \ {k.old} ELSE w
Here(w, k, p) == Left(w, k, p) \cup (IF Come(k, p) THEN {k.new} ELSE {})
\* The records of client c in the file of index x.
Mine(f, c, x) == {r \in f[x] : MasterKey(x, r)[1] \in Own[c]}
\* The files hold just those records of client c, and the new record of its call
\* has its key to itself wherever it is.
Exact(c, f, w, k) ==
  \A p \in DOMAIN Chain :
    /\ Mine(f, c, Chain[p]) = {Rec(Chain[p], r) : r \in Here(w, k, p)}
    /\ Come(k, p) => \A r \in Left(w, k, p) : Key(Chain[p], r) # Key(Chain[p], k.new)
\* Where a call that changes records can be: the phases of each, the index it is
\* at, and an old record that is there for the whole of it.
CallOK(c, w, k) ==
  /\ IsCall(k)
  /\ Works(k) =>
      /\ k.ph \in {"number", "put", "unnumber", "undo", "fetch", "new", "back", "old", ""}
      /\ k.op = "write" => k.ph \in {"number", "put", "unnumber", "undo"}
      /\ k.op = "rewrite" => k.ph \in {"fetch", "new", "back", "old"}
      /\ k.op = "delete" => k.ph = ""
      /\ IsRec(k.new) /\ k.new.m \in Own[c]
      /\ k.ph \notin {"number", "fetch"} => k.i \in DOMAIN Chain
      /\ k.ph \in {"put", "unnumber", "undo"} => Chain[k.i] # "n"
      /\ k.ph \in {"number", "unnumber"} => \E p \in DOMAIN Chain : Chain[p] = "n"
      /\ k.ph = "number" => k.i = 1
      /\ k.ph = "unnumber" => k.j = 2
      /\ k.ph = "undo" => k.i > 1 /\ k.j \in 2..k.i
      /\ k.ph \in {"new", "back", "old", ""} => k.old \in w
      /\ k.ph = "fetch" => k.old = NoRec
      /\ k.ph \in {"new", "back"} => Change(k, k.i) = "key"
      /\ k.ph = "back" => k.j \in 1..(k.i - 1) /\ Change(k, k.j) = "key"
      /\ k.ph = "old" => Change(k, k.i) # "same"
\* The files hold records of users, and no two with the same unique key.
Shape(f) ==
  /\ f = [x \in Index |-> f[x]]
  /\ \A x \in Index : \A k \in f[x] : \E r : IsRec(r) /\ r.m \in Master /\ k = Rec(x, r)
Unique(f) ==
  \A x \in Index : \A k, l \in f[x] : Prefix(k, Klen[x]) = Prefix(l, Klen[x]) => k = l
\* The records of w that are client c's to change; no two clients share one.
WantOf(w, c) == {r \in w : r.m \in Own[c]}
Separate == \A c, d \in Client : c # d => Own[c] \cap Own[d] = {}

\* The key of a record that is there matches it alone.
LEMMA Found ==
  ASSUME NEW f, Shape(f), Unique(f), NEW x \in Index, NEW r, Rec(x, r) \in f[x]
  PROVE  With(f, x, Key(x, r)) = {Rec(x, r)}
  <1>1. Rec(x, r) \in With(f, x, Key(x, r))
    BY Matches DEF With
  <1>2. ASSUME NEW k \in With(f, x, Key(x, r)) PROVE k = Rec(x, r)
    <2>1. PICK q : k = Rec(x, q)
      BY <1>2 DEF With, Shape
    <2>2. Key(x, q) = Key(x, r)
      BY <1>2, <2>1, Matches DEF With
    <2>3. Prefix(k, Klen[x]) = Prefix(Rec(x, r), Klen[x])
      BY <2>1, <2>2 DEF Key
    <2> QED BY <2>3, <1>2 DEF Unique, With
  <1> QED BY <1>1, <1>2

\* A key that matches nothing is no key of a record that is there.
LEMMA NotFound ==
  ASSUME NEW f, Shape(f), NEW x \in Index, NEW r, NEW q,
         With(f, x, Key(x, r)) = {}, Rec(x, q) \in f[x]
  PROVE  Key(x, q) # Key(x, r)
  BY Matches DEF With

\* g differs from f in the records of client c only, and in the file of x only.
Differs(f, g, c, x) ==
  /\ g = [y \in Index |-> g[y]] /\ \A y \in Index \ {x} : g[y] = f[y]
Becomes(a, b, A, B) == b = (a \ A) \cup B
Belong(A, c, x) == \A k \in A : MasterKey(x, k)[1] \in Own[c]
Others(f, g, c) == \A d \in Client \ {c} : \A y \in Index : Mine(g, d, y) = Mine(f, d, y)

\* What is done to records of one client does not touch those of another.
LEMMA OthersKept ==
  ASSUME NEW f, NEW g, NEW x \in Index, NEW c \in Client, Differs(f, g, c, x), Separate,
         NEW A, NEW B, Becomes(f[x], g[x], A, B),
         Belong(A, c, x), Belong(B, c, x)
  PROVE  /\ Others(f, g, c)
         /\ Becomes(Mine(f, c, x), Mine(g, c, x), A, B)
         /\ \A y \in Index \ {x} : Mine(g, c, y) = Mine(f, c, y)
  <1>1. ASSUME NEW d \in Client \ {c}, NEW y \in Index PROVE Mine(g, d, y) = Mine(f, d, y)
    BY DEF Differs, Mine, Separate, Becomes, Belong
  <1>2. Becomes(Mine(f, c, x), Mine(g, c, x), A, B)
    BY DEF Mine, Becomes, Belong
  <1>3. \A y \in Index \ {x} : Mine(g, c, y) = Mine(f, c, y)
    BY DEF Differs, Mine
  <1> QED BY <1>1, <1>2, <1>3 DEF Others

\* The master key of a record of file x, as a value.
LEMMA Mastered ==
  ASSUME NEW x \in Index, NEW r
  PROVE  MasterKey(x, Rec(x, r))[1] = r.m
  <1>1. MasterKey(x, Rec(x, r)) = <<r.m>>
    BY MasterOf
  <1> QED BY <1>1

\* A record whose key matches nothing can be added to a file.
LEMMA Putting ==
  ASSUME NEW f, Shape(f), Unique(f), NEW x \in Index, NEW c \in Client,
         NEW r, IsRec(r), r.m \in Own[c], With(f, x, Key(x, r)) = {}, Separate,
         NEW g, Differs(f, g, c, x), g[x] = f[x] \cup {Rec(x, r)}
  PROVE  /\ Shape(g) /\ Unique(g) /\ Others(f, g, c)
         /\ Mine(g, c, x) = Mine(f, c, x) \cup {Rec(x, r)}
         /\ \A y \in Index \ {x} : Mine(g, c, y) = Mine(f, c, y)
  <1>1. r.m \in Master
    BY DEF Master
  <1>2. Shape(g)
    BY <1>1 DEF Shape, Differs
  <1>3. ASSUME NEW k \in f[x] PROVE Prefix(k, Klen[x]) # Prefix(Rec(x, r), Klen[x])
    <2>1. PICK q : k = Rec(x, q)
      BY DEF Shape
    <2> QED BY <2>1, NotFound DEF Key
  <1>4. Unique(g)
    BY <1>3 DEF Unique, Differs
  <1> DEFINE A == {} B == {Rec(x, r)}
  <1>5. Becomes(f[x], g[x], A, B) /\ Belong(A, c, x) /\ Belong(B, c, x)
    BY Mastered DEF Becomes, Belong
  <1> HIDE DEF A, B
  <1>6. /\ Others(f, g, c) /\ Becomes(Mine(f, c, x), Mine(g, c, x), A, B)
        /\ \A y \in Index \ {x} : Mine(g, c, y) = Mine(f, c, y)
    <2>1. Others(f, g, c)
      BY <1>5, OthersKept
    <2>2. Becomes(Mine(f, c, x), Mine(g, c, x), A, B)
      BY <1>5, OthersKept
    <2>3. \A y \in Index \ {x} : Mine(g, c, y) = Mine(f, c, y)
      BY DEF Differs, Mine
    <2> QED BY <2>1, <2>2, <2>3
  <1> QED BY <1>2, <1>4, <1>6 DEF Becomes, A, B

\* A request to delete the key of a record deletes that record alone.
LEMMA Dropping ==
  ASSUME NEW f, Shape(f), Unique(f), NEW x \in Index, NEW c \in Client,
         NEW r, r.m \in Own[c], Rec(x, r) \in f[x], Separate,
         NEW g, Differs(f, g, c, x), g[x] = f[x] \ With(f, x, Key(x, r))
  PROVE  /\ Shape(g) /\ Unique(g) /\ Others(f, g, c)
         /\ g[x] = f[x] \ {Rec(x, r)}
         /\ Mine(g, c, x) = Mine(f, c, x) \ {Rec(x, r)}
         /\ \A y \in Index \ {x} : Mine(g, c, y) = Mine(f, c, y)
  <1>1. g[x] = f[x] \ {Rec(x, r)}
    BY Found
  <1>2. Shape(g)
    BY <1>1 DEF Shape, Differs
  <1>3. Unique(g)
    BY <1>1 DEF Unique, Differs
  <1> DEFINE A == {Rec(x, r)} B == {}
  <1>4. Becomes(f[x], g[x], A, B) /\ Belong(A, c, x) /\ Belong(B, c, x)
    BY <1>1, Mastered DEF Becomes, Belong
  <1> HIDE DEF A, B
  <1>5. /\ Others(f, g, c) /\ Becomes(Mine(f, c, x), Mine(g, c, x), A, B)
        /\ \A y \in Index \ {x} : Mine(g, c, y) = Mine(f, c, y)
    <2>1. Others(f, g, c)
      BY <1>4, OthersKept
    <2>2. Becomes(Mine(f, c, x), Mine(g, c, x), A, B)
      BY <1>4, OthersKept
    <2>3. \A y \in Index \ {x} : Mine(g, c, y) = Mine(f, c, y)
      BY DEF Differs, Mine
    <2> QED BY <2>1, <2>2, <2>3
  <1> QED BY <1>1, <1>2, <1>3, <1>5 DEF Becomes, A, B

-----------------------------------------------------------------------------
\* The inductive invariant.  What the clients have left has no two records with
\* the same master key, and each client is exact with its call.
IInv ==
  /\ list = Chain /\ Shape(file) /\ Unique(file)
  /\ call = [c \in Client |-> call[c]]
  /\ \A r \in want : IsRec(r) /\ r.m \in Master
  /\ \A r, q \in want : r.m = q.m => r = q
  /\ \A c \in Client : CallOK(c, WantOf(want, c), call[c]) /\ Exact(c, file, WantOf(want, c), call[c])

\* The clients the theorems are about: each changes records of its own only, and no
\* index is added, deleted or rebuilt meanwhile.
Disciplined == Careful /\ ~Admin /\ Separate

\* The list of indexes, the master first and the record numbers last.
LEMMA ChainFacts ==
  /\ Len(Chain) \in Nat /\ DOMAIN Chain = 1..Len(Chain) /\ 1 \in DOMAIN Chain
  /\ Chain[1] = "m" /\ \A p \in DOMAIN Chain : Chain[p] \in Index
  /\ \A p, q \in DOMAIN Chain : Chain[p] = Chain[q] => p = q
  /\ \A p \in DOMAIN Chain : Chain[p] = "n" => p = Len(Chain)
  <1>1. Chain \in Seq(Index) /\ Chain # <<>> /\ Head(Chain) = "m"
    BY ChainAssumption DEF Index
  <1>2. Len(Chain) \in Nat \ {0} /\ DOMAIN Chain = 1..Len(Chain) /\ \A p \in DOMAIN Chain : Chain[p] \in Index
    BY <1>1, EmptySeq, LenProperties
  <1>3. Chain[1] = "m"
    BY <1>1
  <1> QED BY <1>1, <1>2, <1>3, ChainAssumption

\* A step of one client keeps the invariant if the files keep their shape and the
\* records of the others, and the client is exact again.
LEMMA Local ==
  ASSUME IInv, NEW c \in Client, NEW k, NEW v,
         list' = list, Shape(file'), Unique(file'), call' = [call EXCEPT ![c] = k],
         Others(file, file', c),
         \A d \in Client \ {c} : WantOf(want', d) = WantOf(want, d),
         \A r \in want' : r \in v \/ (r \in want /\ r.m \notin Own[c]),
         v = WantOf(want', c), \A r \in v : IsRec(r), \A r, q \in v : r.m = q.m => r = q,
         CallOK(c, v, k), Exact(c, file', v, k)
  PROVE  IInv'
  <1>1. call' = [d \in Client |-> call'[d]] /\ call'[c] = k /\ \A d \in Client \ {c} : call'[d] = call[d]
    BY DEF IInv
  <1>2. ASSUME NEW d \in Client \ {c}
        PROVE  /\ CallOK(d, WantOf(want', d), call'[d])
               /\ Exact(d, file', WantOf(want', d), call'[d])
    <2>1. CallOK(d, WantOf(want, d), call[d]) /\ Exact(d, file, WantOf(want, d), call[d])
      BY DEF IInv
    <2>2. Exact(d, file', WantOf(want, d), call[d])
      BY <2>1, ChainFacts DEF Exact, Others
    <2> QED BY <1>1, <2>1, <2>2
  <1>3. \A r \in want' : IsRec(r) /\ r.m \in Master
    BY DEF IInv, Master, WantOf
  <1>4. ASSUME NEW r \in want', NEW q \in want', r.m = q.m PROVE r = q
    BY <1>4 DEF IInv, WantOf
  <1> QED BY <1>1, <1>2, <1>3, <1>4 DEF IInv

\* The same where the call does not complete.
LEMMA LocalSame ==
  ASSUME IInv, NEW c \in Client, NEW k,
         list' = list, Shape(file'), Unique(file'), call' = [call EXCEPT ![c] = k],
         Others(file, file', c),
         want' = want, CallOK(c, WantOf(want, c), k), Exact(c, file', WantOf(want, c), k)
  PROVE  IInv'
  <1> DEFINE v == WantOf(want, c)
  <1>1. /\ \A r, q \in v : r.m = q.m => r = q
        /\ \A r \in v : IsRec(r)
        /\ \A r \in want' : r \in v \/ (r \in want /\ r.m \notin Own[c])
    BY DEF IInv, WantOf
  <1> QED BY <1>1, Local

\* B: records of client c; v: records of which no two have the same master key.
Records(B, c) == \A r \in B : IsRec(r) /\ r.m \in Own[c]
Once(v) == \A r, q \in v : r.m = q.m => r = q

\* The same where it completes, with the records A gone and B come.
LEMMA LocalWant ==
  ASSUME IInv, Separate, NEW c \in Client, NEW k, NEW A, NEW B, NEW v,
         list' = list, Shape(file'), Unique(file'), call' = [call EXCEPT ![c] = k],
         Others(file, file', c),
         Becomes(want, want', A, B), Becomes(WantOf(want, c), v, A, B),
         Records(A, c), Records(B, c), Once(v), CallOK(c, v, k), Exact(c, file', v, k)
  PROVE  IInv'
  <1>1. v = WantOf(want', c)
    BY DEF WantOf, Becomes, Records
  <1>2. \A d \in Client \ {c} : WantOf(want', d) = WantOf(want, d)
    BY DEF WantOf, Separate, Becomes, Records
  <1>3. \A r \in v : IsRec(r)
    BY DEF IInv, WantOf, Becomes, Records
  <1>4. \A r \in want' : r \in v \/ (r \in want /\ r.m \notin Own[c])
    BY DEF WantOf, Becomes, Records
  <1> QED BY <1>1, <1>2, <1>3, <1>4, Local DEF Once

\* j is the least of J, the indexes of interest behind i, or 0 if there is none.
Following(i, J, j) == (j = 0 /\ J = {}) \/ (j \in J /\ \A q \in J : j <= q)

\* What WritePut does, with the next index named.
LEMMA PutStep ==
  ASSUME list = Chain, NEW c, WritePut(c), call[c].i \in DOMAIN Chain
  PROVE  LET i == call[c].i  x == Chain[i]  r == call[c].new IN
         \E j : /\ Following(i, {q \in (i + 1)..Len(Chain) : Chain[q] # "n"}, j)
                /\ \/ /\ Matching(x, Key(x, r)) = {} /\ Put(x, r)
                      /\ \/ j # 0 /\ Go(c, "put", j) /\ UNCHANGED want
                         \/ j = 0 /\ End(c) /\ want' = want \union {r}
                   \/ /\ Matching(x, Key(x, r)) # {}
                      /\ \/ /\ Has("n") \/ i > 1
                            /\ To(c, [call[c] EXCEPT !.ph = IF Has("n") THEN "unnumber" ELSE "undo", !.j = 2])
                         \/ ~Has("n") /\ i = 1 /\ End(c)
                      /\ UNCHANGED <<file, want>>
                /\ UNCHANGED list
  <1> DEFINE i == call[c].i
             J == {q \in (i + 1)..Len(Chain) : Chain[q] # "n"}
             j == NextIndex(i, LAMBDA y : y # "n")
  <1>1. J \in SUBSET Nat
    BY ChainFacts
  <1>2. J # {} => \E q \in J : \A p \in J : q <= p
    BY <1>1, Least
  <1>3. Following(i, J, j)
    BY <1>2 DEF NextIndex, Following
  <1> QED BY <1>3 DEF WritePut

\* iswrite: the record goes into the next index, or meets a duplicate.
LEMMA WritePutInv ==
  ASSUME Disciplined, IInv, NEW c \in Client, WritePut(c)
  PROVE  IInv'
  <1> DEFINE k == call[c]  w == WantOf(want, c)  i == k.i  x == Chain[i]  r == k.new
  <1>1. /\ CallOK(c, w, k) /\ Exact(c, file, w, k) /\ Shape(file) /\ Unique(file) /\ list = Chain
        /\ Separate
    BY DEF IInv, Disciplined
  <1>2. /\ k.op = "write" /\ k.ph = "put" /\ Works(k) /\ IsCall(k) /\ i \in DOMAIN Chain
        /\ x \in Index /\ x # "n" /\ IsRec(r) /\ r.m \in Own[c]
    BY <1>1, ChainFacts DEF WritePut, At, CallOK, Works
  <1>3. \A p : Come(k, p) <=> p < i \/ Chain[p] = "n"
    BY <1>2 DEF Come
  <1>4. \A p : Left(w, k, p) = w /\ Here(w, k, p) = w \cup (IF Come(k, p) THEN {r} ELSE {})
    BY <1>2 DEF Left, Here, Gone
  <1>5. PICK j :
          /\ Following(i, {q \in (i + 1)..Len(Chain) : Chain[q] # "n"}, j)
          /\ \/ /\ Matching(x, Key(x, r)) = {} /\ Put(x, r)
                /\ \/ j # 0 /\ Go(c, "put", j) /\ UNCHANGED want
                   \/ j = 0 /\ End(c) /\ want' = want \union {r}
             \/ /\ Matching(x, Key(x, r)) # {}
                /\ \/ /\ Has("n") \/ i > 1
                      /\ To(c, [call[c] EXCEPT !.ph = IF Has("n") THEN "unnumber" ELSE "undo", !.j = 2])
                   \/ ~Has("n") /\ i = 1 /\ End(c)
                /\ UNCHANGED <<file, want>>
          /\ UNCHANGED list
    BY <1>1, <1>2, PutStep
  <1>6. ASSUME Matching(x, Key(x, r)) = {}, Put(x, r)
        PROVE  /\ Shape(file') /\ Unique(file')
               /\ Mine(file', c, x) = Mine(file, c, x) \cup {Rec(x, r)}
               /\ \A y \in Index \ {x} : Mine(file', c, y) = Mine(file, c, y)
               /\ Others(file, file', c)
               /\ \A q \in w : Key(x, q) # Key(x, r)
    <2>1. With(file, x, Key(x, r)) = {}
      BY <1>6 DEF Matching
    <2>2. file' = [file EXCEPT ![x] = @ \union {Rec(x, r)}]
      BY <1>6 DEF Put
    <2>3. \A q \in w : Rec(x, q) \in file[x]
      BY <1>1, <1>2, <1>4 DEF Exact, Mine
    <2>4. \A q \in w : Key(x, q) # Key(x, r)
      BY <2>1, <2>3, <1>1, <1>2, NotFound
    <2>5. /\ Shape(file') /\ Unique(file')
          /\ Mine(file', c, x) = Mine(file, c, x) \cup {Rec(x, r)}
          /\ \A y \in Index \ {x} : Mine(file', c, y) = Mine(file, c, y)
          /\ Others(file, file', c)
      <3>1. x \in Index /\ IsRec(r) /\ r.m \in Own[c] /\ Shape(file) /\ Unique(file) /\ Separate
        BY <1>1, <1>2
      <3>2. Differs(file, file', c, x) /\ file'[x] = file[x] \cup {Rec(x, r)}
        BY <2>2, <3>1 DEF Shape, Differs
      <3> HIDE DEF x, r
      <3> QED BY <2>1, <3>1, <3>2, Putting
    <2> QED BY <2>4, <2>5
  <1>7. CASE Matching(x, Key(x, r)) = {} /\ Put(x, r) /\ j # 0 /\ Go(c, "put", j) /\ UNCHANGED want
    <2> DEFINE l == [k EXCEPT !.ph = "put", !.i = j]
    <2>0. call' = [call EXCEPT ![c] = l]
      BY <1>7 DEF Go, To
    <2>2. j \in DOMAIN Chain /\ Chain[j] # "n" /\ i < j
          /\ \A p \in DOMAIN Chain : i < p /\ p < j => Chain[p] = "n"
      BY <1>7, <1>5, <1>2, ChainFacts DEF Following
    <2>10. l = [k EXCEPT !.ph = "put", !.i = j]
      OBVIOUS
    <2> HIDE DEF l
    <2>1. /\ IsCall(l) /\ l.op = "write" /\ l.ph = "put" /\ l.i = j /\ l.new = r /\ Works(l)
      BY <2>10, <1>2 DEF IsCall, Works
    <2>3. CallOK(c, w, l)
      BY <2>1, <2>2, <1>2 DEF CallOK
    <2>4. \A p \in DOMAIN Chain : Come(l, p) <=> Come(k, p) \/ p = i
      BY <2>1, <2>2, <1>2, <1>3, ChainFacts DEF Come
    <2>5. \A p : Left(w, l, p) = w /\ Here(w, l, p) = w \cup (IF Come(l, p) THEN {r} ELSE {})
      BY <2>1 DEF Left, Here, Gone
    <2>6. Exact(c, file', w, l)
      BY <2>1, <2>4, <2>5, <1>1, <1>2, <1>4, <1>6, <1>7, ChainFacts DEF Exact
    <2> QED BY <2>0, <2>3, <2>6, <1>1, <1>5, <1>6, <1>7, LocalSame

  <1>8. CASE Matching(x, Key(x, r)) = {} /\ Put(x, r) /\ j = 0 /\ End(c) /\ want' = want \union {r}
    <2>1. /\ call' = [call EXCEPT ![c] = Idle] /\ IsCall(Idle) /\ ~Works(Idle)
      BY <1>8 DEF End, To, IsCall, Works, Idle
    <2>2. \A p \in DOMAIN Chain : Come(k, p) \/ p = i
      BY <1>8, <1>5, <1>2, <1>3, ChainFacts DEF Following
    <2>3. CallOK(c, w \cup {r}, Idle)
      BY <2>1 DEF CallOK
    <2>4. \A p : Left(w \cup {r}, Idle, p) = w \cup {r} /\ Here(w \cup {r}, Idle, p) = w \cup {r} /\ ~Come(Idle, p)
      BY <2>1 DEF Left, Here, Gone, Come
    <2>5. Exact(c, file', w \cup {r}, Idle)
      <3>1. ASSUME NEW p \in DOMAIN Chain
            PROVE  Mine(file', c, Chain[p]) = {Rec(Chain[p], q) : q \in w \cup {r}}
        <4>1. Mine(file, c, Chain[p]) = {Rec(Chain[p], q) : q \in Here(w, k, p)}
          BY <1>1 DEF Exact
        <4>2. CASE p = i
          BY <4>1, <4>2, <1>4, <1>6, <1>8
        <4>3. CASE p # i
          BY <4>1, <4>3, <2>2, <1>2, <1>4, <1>6, <1>8, ChainFacts
        <4> QED BY <4>2, <4>3
      <3> QED BY <3>1, <2>4 DEF Exact
    <2>6. \A q \in w : q.m # r.m
      <3>1. \A q \in w : Key("m", q) # Key("m", r)
        <4>1. CASE i = 1
          BY <4>1, <1>6, <1>8, ChainFacts
        <4>2. CASE i # 1
          BY <4>2, <2>2, <1>1, <1>4, ChainFacts DEF Exact
        <4> QED BY <4>1, <4>2
      <3>2. \A q : Key("m", q) = <<q.m>>
        BY Keys
      <3> QED BY <3>1, <3>2
    <2>7. \A q, s \in w \cup {r} : q.m = s.m => q = s
      BY <2>6 DEF WantOf, IInv
    <2> DEFINE A == {} B == {r} v == w \cup {r}
    <2>8. /\ Becomes(want, want', A, B) /\ Becomes(w, v, A, B)
          /\ Records(A, c) /\ Records(B, c)
      BY <1>8, <1>2 DEF Becomes, Records
    <2>9. CallOK(c, v, Idle) /\ Exact(c, file', v, Idle) /\ Once(v)
      BY <2>3, <2>5, <2>7 DEF Once
    <2> HIDE DEF A, B, v
    <2> QED BY <2>1, <2>8, <2>9, <1>1, <1>5, <1>6, <1>8, LocalWant
  <1>9. CASE Matching(x, Key(x, r)) # {} /\ UNCHANGED <<file, want>>
    <2>1. /\ \A p \in DOMAIN Chain : Mine(file', c, Chain[p]) = Mine(file, c, Chain[p])
          /\ Others(file, file', c)
      BY <1>9 DEF Others
    <2>2. Has("n") <=> \E p \in DOMAIN Chain : Chain[p] = "n"
      BY <1>1 DEF Has, ToSet
    <2>3. CASE (Has("n") \/ i > 1) /\ To(c, [k EXCEPT !.ph = IF Has("n") THEN "unnumber" ELSE "undo", !.j = 2])
      <3> DEFINE l == [k EXCEPT !.ph = IF Has("n") THEN "unnumber" ELSE "undo", !.j = 2]
      <3>0. call' = [call EXCEPT ![c] = l]
        BY <2>3 DEF To
      <3>6. l = [k EXCEPT !.ph = IF Has("n") THEN "unnumber" ELSE "undo", !.j = 2]
        OBVIOUS
      <3> HIDE DEF l
      <3>1. /\ IsCall(l) /\ l.op = "write" /\ l.i = i /\ l.j = 2
            /\ l.ph = (IF Has("n") THEN "unnumber" ELSE "undo") /\ l.new = r /\ Works(l)
        BY <3>6, <1>2 DEF IsCall, Works
      <3>2. CallOK(c, w, l)
        BY <3>1, <2>2, <2>3, <1>2, ChainFacts DEF CallOK
      <3>3. \A p \in DOMAIN Chain : Come(l, p) <=> Come(k, p)
        BY <3>1, <2>2, <1>2, <1>3, ChainFacts DEF Come
      <3>4. \A p : Left(w, l, p) = w /\ Here(w, l, p) = w \cup (IF Come(l, p) THEN {r} ELSE {})
        BY <3>1 DEF Left, Here, Gone
      <3>5. Exact(c, file', w, l)
        BY <3>1, <3>3, <3>4, <2>1, <1>1, <1>4 DEF Exact
      <3> QED BY <3>0, <3>2, <3>5, <1>1, <1>5, <1>9, <2>1, LocalSame
    <2>4. CASE ~Has("n") /\ i = 1 /\ End(c)
      <3>1. call' = [call EXCEPT ![c] = Idle] /\ IsCall(Idle) /\ ~Works(Idle)
        BY <2>4 DEF End, To, IsCall, Works, Idle
      <3>2. \A p \in DOMAIN Chain : ~Come(k, p)
        BY <2>2, <2>4, <1>3, ChainFacts
      <3>3. CallOK(c, w, Idle)
        BY <3>1 DEF CallOK
      <3>4. Exact(c, file', w, Idle)
        BY <3>1, <3>2, <2>1, <1>1, <1>4 DEF Exact, Left, Here, Gone, Come
      <3> QED BY <3>1, <3>3, <3>4, <1>1, <1>5, <1>9, <2>1, LocalSame
    <2> QED BY <2>3, <2>4, <1>5, <1>9
  <1> QED BY <1>5, <1>7, <1>8, <1>9

-----------------------------------------------------------------------------
\* What a request of client c makes of its records: Rec(x, r) is put or dropped.
Plus(f, g, c, x, r) ==
  /\ Shape(g) /\ Unique(g) /\ Others(f, g, c)
  /\ Mine(g, c, x) = Mine(f, c, x) \cup {Rec(x, r)}
  /\ \A y \in Index \ {x} : Mine(g, c, y) = Mine(f, c, y)
Minus(f, g, c, x, r) ==
  /\ Shape(g) /\ Unique(g) /\ Others(f, g, c)
  /\ Mine(g, c, x) = Mine(f, c, x) \ {Rec(x, r)}
  /\ \A y \in Index \ {x} : Mine(g, c, y) = Mine(f, c, y)

\* A put whose key matches nothing adds the record.
LEMMA PutIs ==
  ASSUME Shape(file), Unique(file), Separate, NEW x \in Index, NEW c \in Client,
         NEW r, IsRec(r), r.m \in Own[c], Matching(x, Key(x, r)) = {}, Put(x, r)
  PROVE  Plus(file, file', c, x, r)
  <1>1. Differs(file, file', c, x) /\ file'[x] = file[x] \cup {Rec(x, r)}
    BY DEF Put, Shape, Differs
  <1>2. With(file, x, Key(x, r)) = {}
    BY DEF Matching
  <1> QED BY <1>1, <1>2, Putting DEF Plus

\* A drop of the key of a record that is there takes it away.
LEMMA DropIs ==
  ASSUME Shape(file), Unique(file), Separate, NEW x \in Index, NEW c \in Client,
         NEW r, r.m \in Own[c], Rec(x, r) \in file[x], Drop(x, Key(x, r))
  PROVE  Minus(file, file', c, x, r)
  <1>1. Differs(file, file', c, x) /\ file'[x] = file[x] \ With(file, x, Key(x, r))
    BY DEF Drop, Matching, Shape, Differs
  <1> QED BY <1>1, Dropping DEF Minus

\* Exact depends on where the new record has come and the old one gone only.
LEMMA ExactSame ==
  ASSUME NEW c, NEW f, NEW w, NEW k, NEW l, Exact(c, f, w, k),
         \A p \in DOMAIN Chain :
           /\ Come(l, p) <=> Come(k, p)
           /\ Gone(l, p) <=> Gone(k, p)
           /\ Come(k, p) => l.new = k.new
           /\ Gone(k, p) => l.old = k.old
  PROVE  Exact(c, f, w, l)
  BY DEF Exact, Here, Left

\* The client is exact after its new record came to the P-th file ...
LEMMA ExactPut ==
  ASSUME NEW c, NEW f, NEW g, NEW w, NEW k, NEW l, Exact(c, f, w, k),
         NEW P \in DOMAIN Chain, NEW r, Plus(f, g, c, Chain[P], r), l.new = r,
         \A q \in w : Key(Chain[P], q) # Key(Chain[P], r),
         \A p \in DOMAIN Chain :
           /\ ~Gone(k, p) /\ ~Gone(l, p)
           /\ Come(l, p) <=> Come(k, p) \/ p = P
           /\ Come(k, p) => k.new = r
  PROVE  Exact(c, g, w, l)
  <1>1. ASSUME NEW p \in DOMAIN Chain
        PROVE  /\ Mine(g, c, Chain[p]) = {Rec(Chain[p], q) : q \in Here(w, l, p)}
               /\ Come(l, p) => \A q \in Left(w, l, p) : Key(Chain[p], q) # Key(Chain[p], l.new)
    <2>1. CASE p = P
      BY <2>1 DEF Exact, Here, Left, Plus
    <2>2. CASE p # P
      BY <2>2, ChainFacts DEF Exact, Here, Left, Plus
    <2> QED BY <2>1, <2>2
  <1> QED BY <1>1 DEF Exact

\* ... after it was taken back from there ...
LEMMA ExactTaken ==
  ASSUME NEW c, NEW f, NEW g, NEW w, NEW k, NEW l, Exact(c, f, w, k),
         NEW P \in DOMAIN Chain, Minus(f, g, c, Chain[P], k.new), Come(k, P),
         \A p \in DOMAIN Chain :
           /\ ~Gone(k, p) /\ ~Gone(l, p)
           /\ Come(l, p) <=> Come(k, p) /\ p # P
           /\ Come(l, p) => l.new = k.new
  PROVE  Exact(c, g, w, l)
  <1>1. ASSUME NEW p \in DOMAIN Chain
        PROVE  /\ Mine(g, c, Chain[p]) = {Rec(Chain[p], q) : q \in Here(w, l, p)}
               /\ Come(l, p) => \A q \in Left(w, l, p) : Key(Chain[p], q) # Key(Chain[p], l.new)
    <2>1. CASE p = P
      <3>1. \A q \in w : Rec(Chain[p], q) # Rec(Chain[p], k.new)
        BY <2>1, SameKey DEF Exact, Left
      <3> QED BY <2>1, <3>1 DEF Exact, Here, Left, Minus
    <2>2. CASE p # P
      BY <2>2, ChainFacts DEF Exact, Here, Left, Minus
    <2> QED BY <2>1, <2>2
  <1> QED BY <1>1 DEF Exact

\* ... and after its old record was deleted there.
LEMMA ExactGone ==
  ASSUME NEW c, NEW f, NEW g, NEW w, NEW k, NEW l, Exact(c, f, w, k), Once(w), k.old \in w,
         NEW P \in DOMAIN Chain, Minus(f, g, c, Chain[P], k.old), ~Gone(k, P),
         l.old = k.old, l.new = k.new,
         \A p \in DOMAIN Chain :
           /\ Gone(l, p) <=> Gone(k, p) \/ p = P
           /\ Come(l, p) <=> Come(k, p)
  PROVE  Exact(c, g, w, l)
  <1>1. ASSUME NEW p \in DOMAIN Chain
        PROVE  /\ Mine(g, c, Chain[p]) = {Rec(Chain[p], q) : q \in Here(w, l, p)}
               /\ Come(l, p) => \A q \in Left(w, l, p) : Key(Chain[p], q) # Key(Chain[p], l.new)
    <2>1. CASE p = P
      <3>1. \A q \in w : Rec(Chain[p], q) = Rec(Chain[p], k.old) => q = k.old
        BY SameMaster, ChainFacts DEF Once
      <3>2. Come(k, p) => Rec(Chain[p], k.old) # Rec(Chain[p], k.new)
        BY <2>1, SameKey DEF Exact, Left
      <3>3. Mine(f, c, Chain[p]) = {Rec(Chain[p], q) : q \in w \cup (IF Come(k, p) THEN {k.new} ELSE {})}
        BY <2>1 DEF Exact, Here, Left
      <3>4. Here(w, l, p) = (w \ {k.old}) \cup (IF Come(k, p) THEN {k.new} ELSE {})
        BY <2>1 DEF Here, Left
      <3>5. Mine(g, c, Chain[p]) = {Rec(Chain[p], q) : q \in Here(w, l, p)}
        BY <2>1, <3>1, <3>2, <3>3, <3>4 DEF Minus
      <3> QED BY <2>1, <3>5 DEF Exact, Left
    <2>2. CASE p # P
      BY <2>2, ChainFacts DEF Exact, Here, Left, Minus
    <2> QED BY <2>1, <2>2
  <1> QED BY <1>1 DEF Exact

\* At the end of a call the client is exact with what the call leaves.
LEMMA ExactDone ==
  ASSUME NEW c, NEW f, NEW w, NEW k, NEW v, Exact(c, f, w, k),
         \A p \in DOMAIN Chain :
           {Rec(Chain[p], q) : q \in Here(w, k, p)} = {Rec(Chain[p], q) : q \in v}
  PROVE  Exact(c, f, v, Idle)
  BY ZenonT(60) DEF Exact, Here, Left, Gone, Come, Works, Idle

\* What the invariant says of one client.
LEMMA Opening ==
  ASSUME Disciplined, IInv, NEW c \in Client
  PROVE  /\ CallOK(c, WantOf(want, c), call[c]) /\ Exact(c, file, WantOf(want, c), call[c])
         /\ IsCall(call[c]) /\ Once(WantOf(want, c))
         /\ Shape(file) /\ Unique(file) /\ Separate /\ list = Chain
         /\ Has("n") <=> \E p \in DOMAIN Chain : Chain[p] = "n"
         /\ \A r \in WantOf(want, c) : IsRec(r) /\ r.m \in Own[c]
  BY DEF IInv, Disciplined, CallOK, Once, WantOf, Has, ToSet

\* The file does not change, and the call is none of those that change records,
\* or where it was.
LEMMA Turn ==
  ASSUME Disciplined, IInv, NEW c \in Client, NEW l, UNCHANGED <<list, file, want>>,
         call' = [call EXCEPT ![c] = l], CallOK(c, WantOf(want, c), l),
         \A p \in DOMAIN Chain :
           /\ Come(l, p) <=> Come(call[c], p)
           /\ Gone(l, p) <=> Gone(call[c], p)
           /\ Come(call[c], p) => l.new = call[c].new
           /\ Gone(call[c], p) => l.old = call[c].old
  PROVE  IInv'
  <1>1. Exact(c, file, WantOf(want, c), l)
    BY Opening, ExactSame
  <1>2. Others(file, file', c)
    BY DEF Others
  <1> QED BY <1>1, <1>2, Opening, LocalSame

\* A step outside the calls that change records.
LEMMA Rest ==
  ASSUME Disciplined, IInv, NEW c \in Client, NEW l, UNCHANGED <<list, file, want>>,
         ~Works(call[c]), call' = [call EXCEPT ![c] = l], IsCall(l), ~Works(l)
  PROVE  IInv'
  <1>1. CallOK(c, WantOf(want, c), l)
    BY DEF CallOK
  <1>2. \A p \in DOMAIN Chain : ~Come(l, p) /\ ~Gone(l, p) /\ ~Come(call[c], p) /\ ~Gone(call[c], p)
    BY DEF Come, Gone
  <1> QED BY <1>1, <1>2, Turn

\* A client without a call.
LEMMA NoWork ==
  /\ IsCall(Idle) /\ ~Works(Idle)
  /\ \A p : ~Come(Idle, p) /\ ~Gone(Idle, p)
  BY DEF IsCall, Works, Idle, Come, Gone

\* iswrite begins.
LEMMA CallWriteInv ==
  ASSUME Disciplined, IInv, NEW c \in Client, CallWrite(c)
  PROVE  IInv'
  <1>1. PICK m \in Own[c], s \in S, d \in D, keep \in BOOLEAN :
          To(c, [Idle EXCEPT !.op = "write", !.ph = IF Has("n") THEN "number" ELSE "put",
                   !.i = 1, !.keep = keep, !.new = [m |-> m, s |-> s, d |-> d, n |-> 0]])
    BY DEF CallWrite
  <1> DEFINE ph == IF Has("n") THEN "number" ELSE "put"
             new == [m |-> m, s |-> s, d |-> d, n |-> 0]
             l == [Idle EXCEPT !.op = "write", !.ph = ph, !.i = 1, !.keep = keep, !.new = new]
  <1>3. call' = [call EXCEPT ![c] = l]
    BY <1>1 DEF To
  <1> HIDE DEF ph, new
  <1>0. l = [Idle EXCEPT !.op = "write", !.ph = ph, !.i = 1, !.keep = keep, !.new = new]
    OBVIOUS
  <1> HIDE DEF l
  <1>2. /\ IsCall(l) /\ Works(l) /\ l.op = "write" /\ l.i = 1
        /\ l.ph = (IF Has("n") THEN "number" ELSE "put")
        /\ l.new = [m |-> m, s |-> s, d |-> d, n |-> 0]
    <2>1. IsCall(l) /\ l.op = "write" /\ l.i = 1 /\ l.ph = ph /\ l.new = new
      BY <1>0, NoWork DEF IsCall
    <2> QED BY <2>1 DEF Works, ph, new
  <1>4. IsRec(l.new) /\ l.new.m \in Own[c]
    BY <1>2 DEF IsRec
  <1>5. CallOK(c, WantOf(want, c), l)
    BY <1>2, <1>4, Opening, ChainFacts DEF CallOK
  <1>6. ~Works(call[c])
    BY DEF CallWrite, CanChange, Busy, Works
  <1>7. \A p \in DOMAIN Chain : ~Come(l, p) /\ ~Gone(l, p) /\ ~Come(call[c], p) /\ ~Gone(call[c], p)
    <2>1. \A p \in DOMAIN Chain : ~(p < l.i) /\ (l.ph = "put" => Chain[p] # "n")
      BY <1>2, Opening, ChainFacts
    <2>2. l.ph \in {"number", "put"}
      BY <1>2
    <2> QED BY <2>1, <2>2, <1>6 DEF Come, Gone
  <1> QED BY <1>3, <1>5, <1>7, Turn DEF CallWrite

\* iswrite: the record number, or the next one if another client has taken it.
LEMMA WriteNumberInv ==
  ASSUME Disciplined, IInv, NEW c \in Client, WriteNumber(c)
  PROVE  IInv'
  <1> DEFINE k == call[c]  w == WantOf(want, c)  r == [k.new EXCEPT !.n = h[c].recno + 1]
  <1>1. /\ IsCall(k) /\ Works(k) /\ k.op = "write" /\ k.ph = "number" /\ k.i = 1
        /\ IsRec(k.new) /\ k.new.m \in Own[c]
    BY Opening DEF WriteNumber, At, CallOK, Works
  <1>2. IsRec(r) /\ r.m = k.new.m
    BY <1>1 DEF IsRec
  <1>3. CASE Matching("n", Key("n", r)) = {} /\ Put("n", r) /\ To(c, [k EXCEPT !.new = r, !.ph = "put"])
    <2> DEFINE l == [k EXCEPT !.new = r, !.ph = "put"]
    <2>2. call' = [call EXCEPT ![c] = l]
      BY <1>3 DEF To
    <2> HIDE DEF r
    <2>0. l = [k EXCEPT !.new = r, !.ph = "put"]
      OBVIOUS
    <2> HIDE DEF l
    <2>1. /\ IsCall(l) /\ Works(l) /\ l.op = "write" /\ l.ph = "put" /\ l.i = 1 /\ l.new = r
      BY <2>0, <1>1 DEF IsCall, Works
    <2>3. CallOK(c, w, l)
      BY <2>1, <1>1, <1>2, ChainFacts DEF CallOK
    <2>4. "n" \in Index
      BY DEF Index
    <2>5. Plus(file, file', c, "n", r)
      BY <2>4, <1>1, <1>2, <1>3, Opening, PutIs
    <2>6. PICK P \in DOMAIN Chain : Chain[P] = "n"
      BY <1>1, Opening DEF CallOK
    <2>7. \A p \in DOMAIN Chain : ~Come(k, p) /\ ~Gone(k, p) /\ ~Gone(l, p) /\ (Come(l, p) <=> p = P)
      BY <2>1, <2>6, <1>1, ChainFacts DEF Come, Gone
    <2>8. \A q \in w : Rec("n", q) \in file["n"]
      BY <2>6, <2>7, Opening DEF Exact, Here, Left, Mine
    <2>9. With(file, "n", Key("n", r)) = {}
      BY <1>3 DEF Matching
    <2>10. \A q \in w : Key("n", q) # Key("n", r)
      BY <2>4, <2>8, <2>9, Opening, NotFound
    <2>11. Exact(c, file', w, l)
      BY <2>1, <2>5, <2>6, <2>7, <2>10, Opening, ExactPut
    <2> QED BY <2>2, <2>3, <2>5, <2>11, LocalSame DEF WriteNumber, Plus
  <1>4. CASE UNCHANGED <<file, call>>
    BY <1>4 DEF WriteNumber, IInv
  <1> QED BY <1>3, <1>4 DEF WriteNumber

\* iswrite has met a duplicate: the record number is given back.
LEMMA WriteUnnumberInv ==
  ASSUME Disciplined, IInv, NEW c \in Client, WriteUnnumber(c)
  PROVE  IInv'
  <1> DEFINE k == call[c]  w == WantOf(want, c)  r == k.new
  <1>1. /\ IsCall(k) /\ Works(k) /\ k.op = "write" /\ k.ph = "unnumber" /\ k.i \in DOMAIN Chain
        /\ Chain[k.i] # "n" /\ IsRec(r) /\ r.m \in Own[c] /\ "n" \in Index
    BY Opening DEF WriteUnnumber, At, CallOK, Works, Index
  <1>2. PICK P \in DOMAIN Chain : Chain[P] = "n"
    BY <1>1, Opening DEF CallOK
  <1>3. k.i < P /\ \A p \in DOMAIN Chain : Chain[p] = "n" <=> p = P
    BY <1>1, <1>2, ChainFacts
  <1>4. \A p \in DOMAIN Chain : ~Gone(k, p) /\ (Come(k, p) <=> p < k.i \/ p = P)
    BY <1>1, <1>3 DEF Come, Gone
  <1>5. r \in Here(w, k, P)
    BY <1>4 DEF Here
  <1>6. Rec("n", r) \in file["n"]
    BY <1>2, <1>5, Opening DEF Exact, Mine
  <1>7. Minus(file, file', c, "n", r)
    BY <1>1, <1>6, Opening, DropIs DEF WriteUnnumber
  <1>8. CASE k.i > 1 /\ Go(c, "undo", k.i)
    <2> DEFINE l == [k EXCEPT !.ph = "undo", !.i = k.i]
    <2>1. call' = [call EXCEPT ![c] = l]
      BY <1>8 DEF Go, To
    <2>2. l = [k EXCEPT !.ph = "undo", !.i = k.i]
      OBVIOUS
    <2> HIDE DEF l
    <2>3. /\ IsCall(l) /\ Works(l) /\ l.op = "write" /\ l.ph = "undo" /\ l.i = k.i /\ l.j = k.j
          /\ l.new = r
      BY <2>2, <1>1 DEF IsCall, Works
    <2>4. k.j = 2
      BY <1>1, Opening DEF CallOK
    <2>5. CallOK(c, w, l)
      BY <2>3, <2>4, <1>1, <1>8, ChainFacts DEF CallOK
    <2>6. \A p \in DOMAIN Chain : ~Gone(l, p) /\ (Come(l, p) <=> Come(k, p) /\ p # P)
      BY <2>3, <2>4, <1>1, <1>2, <1>3, <1>4, ChainFacts DEF Come, Gone
    <2>7. Exact(c, file', w, l)
      BY <2>3, <2>6, <1>2, <1>4, <1>7, Opening, ExactTaken
    <2> QED BY <2>1, <2>5, <2>7, <1>7, LocalSame DEF WriteUnnumber, Minus
  <1>9. CASE k.i = 1 /\ End(c)
    <2>1. call' = [call EXCEPT ![c] = Idle]
      BY <1>9 DEF End, To
    <2>2. \A p \in DOMAIN Chain : Come(k, p) /\ p # P <=> FALSE
      BY <1>4, <1>9, ChainFacts
    <2>3. Exact(c, file', w, Idle)
      BY <2>2, <1>2, <1>4, <1>7, Opening, ExactTaken, NoWork
    <2>4. CallOK(c, w, Idle)
      BY NoWork DEF CallOK
    <2> QED BY <2>1, <2>3, <2>4, <1>7, LocalSame DEF WriteUnnumber, Minus
  <1> QED BY <1>8, <1>9 DEF WriteUnnumber

\* iswrite has met a duplicate: the records written are deleted, the master last.
LEMMA WriteUndoInv ==
  ASSUME Disciplined, IInv, NEW c \in Client, WriteUndo(c)
  PROVE  IInv'
  <1> DEFINE k == call[c]  w == WantOf(want, c)  r == k.new  P == IF k.j < k.i THEN k.j ELSE 1
             x == Chain[P]
  <1>1. /\ IsCall(k) /\ Works(k) /\ k.op = "write" /\ k.ph = "undo" /\ k.i \in DOMAIN Chain
        /\ Chain[k.i] # "n" /\ IsRec(r) /\ r.m \in Own[c] /\ k.i > 1 /\ k.j \in 2..k.i
    BY Opening DEF WriteUndo, At, CallOK, Works
  <1>2. P \in DOMAIN Chain /\ x \in Index /\ (x = "m" <=> k.j = k.i) /\ (k.j = k.i <=> P = 1)
    BY <1>1, ChainFacts
  <1>3. x = IF k.j < k.i THEN list[k.j] ELSE "m"
    BY <1>1, Opening, ChainFacts
  <1>4. \A p \in DOMAIN Chain : ~Gone(k, p) /\ (Come(k, p) <=> p < k.i /\ (p = 1 \/ k.j <= p))
    BY <1>1 DEF Come, Gone
  <1>5. Come(k, P)
    BY <1>1, <1>2, <1>4
  <1> HIDE DEF P, x
  <1>6. r \in Here(w, k, P)
    BY <1>5 DEF Here
  <1>7. Rec(x, r) \in file[x]
    BY <1>2, <1>6, Opening DEF Exact, Mine, x
  <1>8. Drop(x, Key(x, r)) /\ UNCHANGED <<list, want>>
    BY <1>3 DEF WriteUndo
  <1>9. Minus(file, file', c, x, r)
    BY <1>1, <1>2, <1>7, <1>8, Opening, DropIs
  <1>10. CASE x # "m" /\ To(c, [k EXCEPT !.j = k.j + 1])
    <2> DEFINE l == [k EXCEPT !.j = k.j + 1]
    <2>1. call' = [call EXCEPT ![c] = l]
      BY <1>10 DEF To
    <2>2. l = [k EXCEPT !.j = k.j + 1]
      OBVIOUS
    <2> HIDE DEF l
    <2>3. /\ IsCall(l) /\ Works(l) /\ l.op = "write" /\ l.ph = "undo" /\ l.i = k.i /\ l.j = k.j + 1
          /\ l.new = r
      BY <2>2, <1>1 DEF IsCall, Works
    <2>4. k.j < k.i /\ P = k.j
      BY <1>1, <1>2, <1>10 DEF P
    <2>5. CallOK(c, w, l)
      BY <2>3, <2>4, <1>1, ChainFacts DEF CallOK
    <2>6. \A p \in DOMAIN Chain : ~Gone(l, p) /\ (Come(l, p) <=> Come(k, p) /\ p # P)
      BY <2>3, <2>4, <1>1, <1>4, ChainFacts DEF Come, Gone
    <2>7. Exact(c, file', w, l)
      BY <2>3, <2>6, <1>2, <1>4, <1>5, <1>9, Opening, ExactTaken DEF x
    <2> QED BY <2>1, <2>5, <2>7, <1>8, <1>9, LocalSame DEF Minus
  <1>11. CASE x = "m" /\ End(c)
    <2>1. call' = [call EXCEPT ![c] = Idle]
      BY <1>11 DEF End, To
    <2>2. \A p \in DOMAIN Chain : ~(Come(k, p) /\ p # P)
      BY <1>1, <1>2, <1>4, <1>11, ChainFacts
    <2>3. Exact(c, file', w, Idle)
      BY <2>2, <1>2, <1>4, <1>5, <1>9, Opening, ExactTaken, NoWork DEF x
    <2>4. CallOK(c, w, Idle)
      BY NoWork DEF CallOK
    <2> QED BY <2>1, <2>3, <2>4, <1>8, <1>9, LocalSame DEF Minus
  <1> QED BY <1>3, <1>10, <1>11 DEF WriteUndo

\* A client ends in a call; its records stay as they are.
LEMMA DieInv ==
  ASSUME Disciplined, IInv, NEW c \in Client, Die(c)
  PROVE  IInv'
  <1> DEFINE k == call[c]  l == [k EXCEPT !.op = "dead"]
  <1>1. call' = [call EXCEPT ![c] = l] /\ IsCall(k) /\ Works(k)
    BY Opening DEF Die, To, Works
  <1>2. l = [k EXCEPT !.op = "dead"]
    OBVIOUS
  <1> HIDE DEF l
  <1>3. /\ IsCall(l) /\ Works(l) /\ l.op = "dead" /\ l.ph = k.ph /\ l.i = k.i /\ l.j = k.j
        /\ l.new = k.new /\ l.old = k.old
    BY <1>1, <1>2 DEF IsCall, Works
  <1>4. \A p \in DOMAIN Chain :
          (Come(l, p) <=> Come(k, p)) /\ (Gone(l, p) <=> Gone(k, p)) /\ Change(l, p) = Change(k, p)
    BY <1>1, <1>3 DEF Come, Gone, Change
  <1>5. CallOK(c, WantOf(want, c), l)
    BY <1>1, <1>3, Opening DEF CallOK, Change
  <1> QED BY <1>1, <1>3, <1>4, <1>5, Turn DEF Die

\* isstart, isread and isuniqueid leave the records alone.
LEMMA RestInv ==
  ASSUME Disciplined, IInv, NEW c \in Client,
         \/ Start(c) \/ Read(c) \/ ReadMaster(c)
         \/ CallUnique(c) \/ UniqueLast(c) \/ UniqueWrite(c) \/ UniqueLower(c)
  PROVE  IInv'
  <1> DEFINE k == call[c]
  <1>1. UNCHANGED <<list, file, want>>
    BY DEF Start, Read, ReadMaster, CallUnique, UniqueLast, UniqueWrite, UniqueLower
  <1>2. IsCall(k) /\ IsCall(Idle) /\ ~Works(Idle)
    BY Opening, NoWork
  <1>3. CASE call' = call
    BY <1>1, <1>3 DEF IInv
  <1>4. ASSUME End(c), ~Works(k) PROVE IInv'
    <2>1. call' = [call EXCEPT ![c] = Idle]
      BY <1>4 DEF End, To
    <2> QED BY <2>1, <1>1, <1>2, <1>4, Rest
  <1>5. ASSUME NEW ph, To(c, [Idle EXCEPT !.op = "read", !.ph = ph]), ~Works(k) PROVE IInv'
    <2> DEFINE l == [Idle EXCEPT !.op = "read", !.ph = ph]
    <2>1. call' = [call EXCEPT ![c] = l] /\ l = [Idle EXCEPT !.op = "read", !.ph = ph]
      BY <1>5 DEF To
    <2> HIDE DEF l
    <2>2. IsCall(l) /\ ~Works(l)
      BY <1>2, <2>1 DEF IsCall, Works
    <2> QED BY <2>1, <2>2, <1>1, <1>5, Rest
  <1>6. ASSUME NEW mode, NEW op, NEW q, KeyRead(c, mode, op, q), ~Works(k) PROVE IInv'
    BY <1>4, <1>5, <1>6 DEF KeyRead
  <1>7. CASE Start(c)
    BY <1>3, <1>7 DEF Start
  <1>8. CASE Read(c)
    <2>1. ~Works(k)
      BY <1>8 DEF Read, Busy, Works
    <2>2. PICK m \in Modes, r \in want :
            LET mode == Effective(h[c].start, m)
                x == h[c].cur
                b == Cur(c)
            IN IF mode = "CURR" /\ x \notin {"m", "n"}
               THEN To(c, [Idle EXCEPT !.op = "read", !.ph = "CURR"])
               ELSE LET q == Request(mode, x, r, b) IN KeyRead(c, mode, q.op, q.k)
      BY <1>8 DEF Read
    <2> QED BY <2>1, <2>2, <1>5, <1>6
  <1>9. CASE ReadMaster(c)
    <2>1. ~Works(k)
      BY <1>9 DEF ReadMaster, Works
    <2>2. End(c) \/ \E mode, op, q : KeyRead(c, mode, op, q)
      BY <1>9 DEF ReadMaster
    <2> QED BY <2>1, <2>2, <1>4, <1>6
  <1>10. CASE CallUnique(c) \/ UniqueLast(c) \/ UniqueWrite(c) \/ UniqueLower(c)
    <2>1. ~Works(k)
      BY <1>10 DEF CallUnique, UniqueLast, UniqueWrite, UniqueLower, CanChange, Busy, At, Works
    <2>2. CASE CallUnique(c)
      <3> DEFINE l == [Idle EXCEPT !.op = "unique", !.ph = "last"]
      <3>1. call' = [call EXCEPT ![c] = l] /\ l = [Idle EXCEPT !.op = "unique", !.ph = "last"]
        BY <2>2 DEF CallUnique, To
      <3> HIDE DEF l
      <3>2. IsCall(l) /\ ~Works(l)
        BY <1>2, <3>1 DEF IsCall, Works
      <3> QED BY <3>1, <3>2, <2>1, <1>1, Rest
    <2>3. ASSUME NEW a, NEW b, Go(c, a, b) PROVE IInv'
      <3> DEFINE l == [k EXCEPT !.ph = a, !.i = b]
      <3>1. call' = [call EXCEPT ![c] = l] /\ l = [k EXCEPT !.ph = a, !.i = b]
        BY <2>3 DEF Go, To
      <3> HIDE DEF l
      <3>2. IsCall(l) /\ ~Works(l)
        BY <1>2, <2>1, <3>1 DEF IsCall, Works
      <3> QED BY <3>1, <3>2, <2>1, <1>1, Rest
    <2>4. ASSUME NEW a, NEW b, To(c, [k EXCEPT !.i = a, !.j = b]) PROVE IInv'
      <3> DEFINE l == [k EXCEPT !.i = a, !.j = b]
      <3>1. call' = [call EXCEPT ![c] = l] /\ l = [k EXCEPT !.i = a, !.j = b]
        BY <2>4 DEF To
      <3> HIDE DEF l
      <3>2. IsCall(l) /\ ~Works(l)
        BY <1>2, <2>1, <3>1 DEF IsCall, Works
      <3> QED BY <3>1, <3>2, <2>1, <1>1, Rest
    <2>5. CASE To(c, [k EXCEPT !.j = 0])
      <3> DEFINE l == [k EXCEPT !.j = 0]
      <3>1. call' = [call EXCEPT ![c] = l] /\ l = [k EXCEPT !.j = 0]
        BY <2>5 DEF To
      <3> HIDE DEF l
      <3>2. IsCall(l) /\ ~Works(l)
        BY <1>2, <2>1, <3>1 DEF IsCall, Works
      <3> QED BY <3>1, <3>2, <2>1, <1>1, Rest
    <2>6. CASE UniqueLast(c)
      BY <2>3, <2>6 DEF UniqueLast
    <2>7. CASE UniqueWrite(c)
      BY <2>3, <2>7 DEF UniqueWrite
    <2>8. CASE UniqueLower(c)
      BY <2>1, <2>4, <2>5, <2>8, <1>4 DEF UniqueLower
    <2> QED BY <2>2, <2>6, <2>7, <2>8, <1>10
  <1> QED BY <1>7, <1>8, <1>9, <1>10

-----------------------------------------------------------------------------
\* A master record that is found is one the client has left there.
LEMMA MasterFound ==
  ASSUME Disciplined, IInv, NEW c \in Client, NEW m \in Own[c],
         ~Come(call[c], 1), ~Gone(call[c], 1), Find("m", "READEQ", <<m>>) # None
  PROVE  \E r \in WantOf(want, c) : r.m = m /\ Find("m", "READEQ", <<m>>) = Rec("m", r)
  <1> DEFINE M == Matching("m", <<m>>)  w == WantOf(want, c)
  <1>1. Cardinality(M) = 1 /\ Find("m", "READEQ", <<m>>) = Lowest(M)
    BY DEF Find
  <1>2. M # {}
    BY <1>1, FS_EmptySet
  <1>3. PICK a : a \in M
    BY <1>2
  <1>4. "m" \in Index /\ \A b \in M : b \in file["m"] /\ \E q : b = Rec("m", q)
    BY Opening DEF Matching, With, Shape, Index
  <1>5. ASSUME NEW b \in M PROVE Prefix(b, Klen["m"]) = <<m>> /\ MasterKey("m", b)[1] = m
    <2>1. PICK q : b = Rec("m", q)
      BY <1>4
    <2>2. q.m = m
      BY <2>1, MKey DEF Matching, With
    <2>3. Key("m", q) = <<q.m>> /\ MasterKey("m", Rec("m", q))[1] = q.m
      BY <1>4, MKey, Mastered
    <2> QED BY <2>1, <2>2, <2>3 DEF Key
  <1>6. M = {a}
    BY <1>3, <1>4, <1>5, Opening DEF Unique
  <1>7. Lowest({a}) = a
    BY DEF Lowest
  <1>8. a \in Mine(file, c, "m")
    BY <1>3, <1>4, <1>5 DEF Mine
  <1>9. a \in {Rec("m", q) : q \in w}
    BY <1>8, Opening, ChainFacts DEF Exact, Here, Left
  <1>10. PICK r \in w : a = Rec("m", r)
    BY <1>9
  <1>11. r.m = m
    BY <1>3, <1>4, <1>5, <1>10, Mastered
  <1> QED BY <1>1, <1>6, <1>7, <1>10, <1>11

\* isrew begins with a record that is there.
LEMMA RewritingInv ==
  ASSUME Disciplined, IInv, NEW c \in Client, NEW old, NEW new, NEW keep, NEW sav,
         Rewriting(c, old, new, keep, sav), old \in WantOf(want, c), IsRec(new), new.m \in Own[c],
         \A p \in DOMAIN Chain : ~Come(call[c], p) /\ ~Gone(call[c], p),
         UNCHANGED <<list, file, want>>
  PROVE  IInv'
  <1> DEFINE J == {q \in (0 + 1)..Len(Chain) : Cmprec(Chain[q], new, old) = "key"}
             K == {q \in (0 + 1)..Len(Chain) : Cmprec(Chain[q], new, old) # "same"}
             to == [Idle EXCEPT !.op = "rewrite", !.keep = keep, !.sav = sav, !.new = new, !.old = old]
             w == WantOf(want, c)
  <1>0. list = Chain /\ J \in SUBSET Nat /\ K \in SUBSET Nat
    BY Opening, ChainFacts
  <1>1. /\ J # {} => \E q \in J : \A p \in J : q <= p
        /\ K # {} => \E q \in K : \A p \in K : q <= p
    BY <1>0, Least
  <1>2. \E j, k : /\ Following(0, J, j) /\ Following(0, K, k)
                  /\ \/ j # 0 /\ To(c, [to EXCEPT !.ph = "new", !.i = j])
                     \/ j = 0 /\ k # 0 /\ To(c, [to EXCEPT !.ph = "old", !.i = k])
                     \/ j = 0 /\ k = 0 /\ End(c)
    <2> DEFINE j == NextIndex(0, LAMBDA x : Cmprec(x, new, old) = "key")
               k == NextIndex(0, LAMBDA x : Cmprec(x, new, old) # "same")
    <2>1. Following(0, J, j)
      BY <1>0, <1>1 DEF NextIndex, Following
    <2>2. Following(0, K, k)
      BY <1>0, <1>1 DEF NextIndex, Following
    <2>3. \/ j # 0 /\ To(c, [to EXCEPT !.ph = "new", !.i = j])
          \/ j = 0 /\ k # 0 /\ To(c, [to EXCEPT !.ph = "old", !.i = k])
          \/ j = 0 /\ k = 0 /\ End(c)
      BY DEF Rewriting
    <2> HIDE DEF j, k, to
    <2> QED BY <2>1, <2>2, <2>3
  <1>3. PICK j, k : /\ Following(0, J, j) /\ Following(0, K, k)
                  /\ \/ j # 0 /\ To(c, [to EXCEPT !.ph = "new", !.i = j])
                     \/ j = 0 /\ k # 0 /\ To(c, [to EXCEPT !.ph = "old", !.i = k])
                     \/ j = 0 /\ k = 0 /\ End(c)
    BY <1>2
  <1>4. to = [Idle EXCEPT !.op = "rewrite", !.keep = keep, !.sav = sav, !.new = new, !.old = old]
    OBVIOUS
  <1> HIDE DEF to
  <1>5. IsCall(to) /\ to.op = "rewrite" /\ to.new = new /\ to.old = old
    BY <1>4, NoWork DEF IsCall
  <1>6. CASE j # 0 /\ To(c, [to EXCEPT !.ph = "new", !.i = j])
    <2> DEFINE l == [to EXCEPT !.ph = "new", !.i = j]
    <2>1. call' = [call EXCEPT ![c] = l] /\ l = [to EXCEPT !.ph = "new", !.i = j]
      BY <1>6 DEF To
    <2> HIDE DEF l
    <2>2. /\ IsCall(l) /\ Works(l) /\ l.op = "rewrite" /\ l.ph = "new" /\ l.i = j
          /\ l.new = new /\ l.old = old
      BY <1>5, <2>1 DEF IsCall, Works
    <2>3. j \in DOMAIN Chain /\ Change(l, j) = "key"
          /\ \A p \in DOMAIN Chain : Change(l, p) = "key" => j <= p
      BY <1>3, <1>6, <2>2, ChainFacts DEF Following, Change
    <2>4. CallOK(c, w, l)
      BY <2>2, <2>3 DEF CallOK
    <2>5. ASSUME NEW p \in DOMAIN Chain PROVE ~Come(l, p) /\ ~Gone(l, p)
      <3>1. p < l.i => Change(l, p) # "key"
        BY <2>2, <2>3, ChainFacts
      <3> QED BY <3>1, <2>2, <2>3 DEF Come, Gone
    <2> QED BY <2>1, <2>4, <2>5, Turn
  <1>7. CASE j = 0 /\ k # 0 /\ To(c, [to EXCEPT !.ph = "old", !.i = k])
    <2> DEFINE l == [to EXCEPT !.ph = "old", !.i = k]
    <2>1. call' = [call EXCEPT ![c] = l] /\ l = [to EXCEPT !.ph = "old", !.i = k]
      BY <1>7 DEF To
    <2> HIDE DEF l
    <2>2. /\ IsCall(l) /\ Works(l) /\ l.op = "rewrite" /\ l.ph = "old" /\ l.i = k
          /\ l.new = new /\ l.old = old
      BY <1>5, <2>1 DEF IsCall, Works
    <2>3. k \in DOMAIN Chain /\ Change(l, k) # "same"
          /\ \A p \in DOMAIN Chain : Change(l, p) # "same" => k <= p
      BY <1>3, <1>7, <2>2, ChainFacts DEF Following, Change
    <2>4. \A p \in DOMAIN Chain : Change(l, p) # "key"
      BY <1>3, <1>7, <2>2, ChainFacts DEF Following, Change
    <2>5. CallOK(c, w, l)
      BY <2>2, <2>3 DEF CallOK
    <2>6. ASSUME NEW p \in DOMAIN Chain PROVE ~Come(l, p) /\ ~Gone(l, p)
      <3>1. p < l.i => Change(l, p) = "same"
        BY <2>2, <2>3, <2>4, ChainFacts
      <3> QED BY <3>1, <2>2, <2>3, <2>4 DEF Come, Gone
    <2> QED BY <2>1, <2>5, <2>6, Turn
  <1>8. CASE End(c)
    <2>1. call' = [call EXCEPT ![c] = Idle] /\ CallOK(c, w, Idle)
      BY <1>8, NoWork DEF End, To, CallOK
    <2> QED BY <2>1, NoWork, Turn
  <1> QED BY <1>3, <1>6, <1>7, <1>8

\* A client that is not in a call has no work to do.
LEMMA Free ==
  ASSUME NEW c, ~Busy(c)
  PROVE  ~Works(call[c]) /\ \A p : ~Come(call[c], p) /\ ~Gone(call[c], p)
  BY DEF Busy, Works, Come, Gone

\* The current record of a careful client is one it has left.
LEMMA CurrentIs ==
  ASSUME Disciplined, IInv, NEW c \in Client, ~Busy(c), Current(c)
  PROVE  Unpack(h[c].mst.rec) \in WantOf(want, c)
  <1> DEFINE k == h[c].mst.rec  w == WantOf(want, c)
  <1>1. k \in file["m"] /\ k[1] \in Own[c]
    BY DEF Current, Disciplined
  <1>2. MasterKey("m", k) = <<k[1]>>
    <2>1. PICK q : k = Rec("m", q)
      BY <1>1, Opening DEF Shape, Index
    <2>2. Rec("m", q) = <<q.m, q.s, q.d, q.n>>
      BY Recs
    <2>3. 1 \in DOMAIN k
      BY <2>1, <2>2
    <2> QED BY <2>3, Masters
  <1>3. k \in Mine(file, c, "m")
    BY <1>1, <1>2 DEF Mine
  <1>4. k \in {Rec("m", q) : q \in w}
    <2>1. ~Come(call[c], 1) /\ ~Gone(call[c], 1)
      BY Free
    <2> QED BY <1>3, <2>1, Opening, ChainFacts DEF Exact, Here, Left
  <1>5. PICK r \in w : k = Rec("m", r)
    BY <1>4
  <1>6. Unpack(k) = r
    BY <1>5, Opening, Unpacked
  <1> QED BY <1>6

\* isrewrite and isrewrec begin with the search for the record.
LEMMA FetchInv ==
  ASSUME Disciplined, IInv, NEW c \in Client, ~Busy(c), NEW sav, NEW new, IsRec(new), new.m \in Own[c],
         To(c, [Idle EXCEPT !.op = "rewrite", !.ph = "fetch", !.sav = sav, !.new = new]),
         UNCHANGED <<list, file, want>>
  PROVE  IInv'
  <1> DEFINE l == [Idle EXCEPT !.op = "rewrite", !.ph = "fetch", !.sav = sav, !.new = new]
  <1>1. /\ call' = [call EXCEPT ![c] = l]
        /\ l = [Idle EXCEPT !.op = "rewrite", !.ph = "fetch", !.sav = sav, !.new = new]
    BY DEF To
  <1> HIDE DEF l
  <1>2. Idle.old = NoRec
    BY DEF Idle
  <1>3. IsCall(l) /\ Works(l) /\ l.op = "rewrite" /\ l.ph = "fetch" /\ l.new = new /\ l.old = NoRec
    BY <1>1, <1>2, NoWork DEF IsCall, Works
  <1>4. CallOK(c, WantOf(want, c), l)
    BY <1>3 DEF CallOK
  <1>5. \A p : ~Come(l, p) /\ ~Gone(l, p)
    BY <1>3 DEF Come, Gone
  <1>6. \A p : ~Come(call[c], p) /\ ~Gone(call[c], p)
    BY Free
  <1> QED BY <1>1, <1>4, <1>5, <1>6, Turn

\* isrewrite begins.
LEMMA CallRewriteInv ==
  ASSUME Disciplined, IInv, NEW c \in Client, CallRewrite(c)
  PROVE  IInv'
  <1>1. PICK m \in Own[c], s \in S, d \in D :
          \E sav : To(c, [Idle EXCEPT !.op = "rewrite", !.ph = "fetch", !.sav = sav,
                                      !.new = [m |-> m, s |-> s, d |-> d, n |-> 0]])
    BY DEF CallRewrite
  <1> DEFINE new == [m |-> m, s |-> s, d |-> d, n |-> 0]
  <1>2. IsRec(new) /\ new.m \in Own[c]
    BY DEF IsRec
  <1>3. PICK sav : To(c, [Idle EXCEPT !.op = "rewrite", !.ph = "fetch", !.sav = sav, !.new = new])
    BY <1>1
  <1>4. ~Busy(c) /\ UNCHANGED <<list, file, want>>
    BY DEF CallRewrite, CanChange
  <1> HIDE DEF new
  <1> QED BY <1>2, <1>3, <1>4, FetchInv

\* isrewrec begins.
LEMMA CallRewrecInv ==
  ASSUME Disciplined, IInv, NEW c \in Client, CallRewrec(c)
  PROVE  IInv'
  <1> DEFINE to(n, s, d, m, sav) ==
        To(c, [Idle EXCEPT !.op = "rewrite", !.ph = "fetch", !.sav = sav,
                           !.new = [m |-> m, s |-> s, d |-> d, n |-> n]])
  <1>1. PICK n \in 1..MaxNum, s \in S, d \in D : \E m \in Own[c] : \E sav : to(n, s, d, m, sav)
    <2>1. \E n \in 1..MaxNum, s \in S, d \in D :
            /\ MasterKey("n", Find("n", "READEQ", <<n>>))[1] \in Own[c]
            /\ to(n, s, d, MasterKey("n", Find("n", "READEQ", <<n>>))[1],
                  IF h[c].cur = "n" THEN <<>> ELSE Position(c))
      BY DEF CallRewrec
    <2> HIDE DEF to
    <2> QED BY <2>1
  <1>2. PICK m \in Own[c] : \E sav : to(n, s, d, m, sav)
    BY <1>1
  <1> DEFINE new == [m |-> m, s |-> s, d |-> d, n |-> n]
  <1>3. IsRec(new) /\ new.m \in Own[c]
    BY DEF IsRec
  <1>4. PICK sav : To(c, [Idle EXCEPT !.op = "rewrite", !.ph = "fetch", !.sav = sav, !.new = new])
    BY <1>2
  <1>5. ~Busy(c) /\ UNCHANGED <<list, file, want>>
    BY DEF CallRewrec, CanChange
  <1> HIDE DEF new
  <1> QED BY <1>3, <1>4, <1>5, FetchInv

\* isrewcurr begins, with the current record.
LEMMA CallRewcurrInv ==
  ASSUME Disciplined, IInv, NEW c \in Client, CallRewcurr(c)
  PROVE  IInv'
  <1> DEFINE old == Unpack(h[c].mst.rec)
  <1>1. PICK new \in Record, keep \in BOOLEAN :
          new.m \in Own[c] /\ Rewriting(c, old, new, keep, <<>>)
    BY DEF CallRewcurr
  <1>2. ~Busy(c) /\ Current(c) /\ UNCHANGED <<list, file, want>>
    BY DEF CallRewcurr, CanChange
  <1>3. old \in WantOf(want, c)
    BY <1>2, CurrentIs
  <1>4. IsRec(new)
    BY DEF Record, IsRec
  <1>5. \A p : ~Come(call[c], p) /\ ~Gone(call[c], p)
    BY <1>2, Free
  <1> HIDE DEF old
  <1> QED BY <1>1, <1>2, <1>3, <1>4, <1>5, RewritingInv

\* isrewrite has read the record.
LEMMA RewriteFetchInv ==
  ASSUME Disciplined, IInv, NEW c \in Client, RewriteFetch(c)
  PROVE  IInv'
  <1> DEFINE m == call[c].new.m  k == Find("m", "READEQ", <<m>>)
             new == [call[c].new EXCEPT !.n = k[4]]
  <1>1. /\ call[c].op = "rewrite" /\ call[c].ph = "fetch" /\ IsRec(call[c].new) /\ m \in Own[c]
        /\ UNCHANGED <<list, file, want>>
    BY Opening DEF RewriteFetch, At, CallOK, Works
  <1>2. \A p : ~Come(call[c], p) /\ ~Gone(call[c], p)
    BY <1>1 DEF Come, Gone
  <1>3. CASE k = None /\ End(c)
    <2>1. call' = [call EXCEPT ![c] = Idle] /\ CallOK(c, WantOf(want, c), Idle)
      BY <1>3, NoWork DEF End, To, CallOK
    <2> QED BY <2>1, <1>1, <1>2, NoWork, Turn
  <1>4. CASE k # None /\ Rewriting(c, Unpack(k), new, FALSE, call[c].sav)
    <2>1. PICK r \in WantOf(want, c) : r.m = m /\ k = Rec("m", r)
      BY <1>1, <1>2, <1>4, MasterFound
    <2>2. Unpack(k) = r
      BY <2>1, Opening, Unpacked
    <2>3. IsRec(new) /\ new.m \in Own[c]
      BY <1>1 DEF IsRec
    <2> DEFINE old == Unpack(k)
    <2>4. old \in WantOf(want, c) /\ Rewriting(c, old, new, FALSE, call[c].sav)
      BY <1>4, <2>2
    <2> HIDE DEF old, new
    <2> QED BY <2>3, <2>4, <1>1, <1>2, RewritingInv
  <1> QED BY <1>3, <1>4 DEF RewriteFetch

\* A delete begins with a record that is there.
LEMMA DeletingInv ==
  ASSUME Disciplined, IInv, NEW c \in Client, ~Busy(c), NEW k, NEW mst, Deleting(c, k, mst),
         Unpack(k) \in WantOf(want, c), UNCHANGED <<list, file, want>>
  PROVE  IInv'
  <1> DEFINE r == Unpack(k)
             l == [Idle EXCEPT !.op = "delete", !.i = 1, !.old = r, !.new = r]
  <1>1. call' = [call EXCEPT ![c] = l]
    BY DEF Deleting, To
  <1>2. r \in WantOf(want, c) /\ IsRec(r) /\ r.m \in Own[c]
    BY Opening
  <1> HIDE DEF r
  <1>3. l = [Idle EXCEPT !.op = "delete", !.i = 1, !.old = r, !.new = r] /\ Idle.ph = ""
    BY DEF Idle
  <1> HIDE DEF l
  <1>4. /\ IsCall(l) /\ Works(l) /\ l.op = "delete" /\ l.ph = "" /\ l.i = 1 /\ l.old = r /\ l.new = r
    BY <1>3, NoWork DEF IsCall, Works
  <1>5. CallOK(c, WantOf(want, c), l)
    BY <1>2, <1>4, ChainFacts DEF CallOK
  <1>6. \A p \in DOMAIN Chain : ~(p < l.i)
    <2>1. \A p \in 1..Len(Chain) : ~(p < 1)
      BY ChainFacts
    <2> QED BY <2>1, <1>4, ChainFacts
  <1>7. \A p \in DOMAIN Chain : ~Come(l, p) /\ ~Gone(l, p)
    BY <1>4, <1>6 DEF Come, Gone
  <1>8. \A p : ~Come(call[c], p) /\ ~Gone(call[c], p)
    BY Free
  <1> QED BY <1>1, <1>5, <1>7, <1>8, Turn

\* isdelete, isdelcurr and isdelrec begin.
LEMMA CallDeleteInv ==
  ASSUME Disciplined, IInv, NEW c \in Client,
         CallDelete(c) \/ CallDelcurr(c) \/ CallDelrec(c)
  PROVE  IInv'
  <1>1. ~Busy(c) /\ UNCHANGED <<list, file, want>>
    BY DEF CallDelete, CallDelcurr, CallDelrec, CanChange
  <1>2. CASE CallDelcurr(c) \/ CallDelrec(c)
    <2>1. Current(c) /\ Deleting(c, h[c].mst.rec, h[c].mst)
      BY <1>2 DEF CallDelcurr, CallDelrec
    <2> QED BY <2>1, <1>1, CurrentIs, DeletingInv
  <1>3. CASE CallDelete(c)
    <2>1. PICK m \in Own[c] :
            LET k == Find("m", "READEQ", <<m>>)
            IN (k # None /\ Deleting(c, k, Good(k))) \/ UNCHANGED call
      BY <1>3 DEF CallDelete
    <2> DEFINE k == Find("m", "READEQ", <<m>>)
    <2>2. CASE k # None /\ Deleting(c, k, Good(k))
      <3>0. ~Come(call[c], 1) /\ ~Gone(call[c], 1)
        BY <1>1, Free
      <3>1. PICK r \in WantOf(want, c) : k = Rec("m", r)
        BY <3>0, <2>2, MasterFound
      <3>2. Unpack(k) \in WantOf(want, c)
        BY <3>1, Opening, Unpacked
      <3> HIDE DEF k
      <3> QED BY <3>2, <2>2, <1>1, DeletingInv
    <2>3. CASE UNCHANGED call
      BY <2>3, <1>1 DEF IInv
    <2> QED BY <2>1, <2>2, <2>3
  <1> QED BY <1>2, <1>3

\* A record that has come, and one that has not gone, is in the file.
LEMMA Present ==
  ASSUME NEW c, NEW f, NEW w, NEW k, Exact(c, f, w, k), NEW p \in DOMAIN Chain
  PROVE  /\ Come(k, p) => Rec(Chain[p], k.new) \in f[Chain[p]]
         /\ ~Gone(k, p) => \A r \in w : Rec(Chain[p], r) \in f[Chain[p]]
  BY DEF Exact, Here, Left, Mine

\* isrewrite has met a duplicate: a new record is taken back.
LEMMA RewriteBackInv ==
  ASSUME Disciplined, IInv, NEW c \in Client, RewriteBack(c)
  PROVE  IInv'
  <1> DEFINE k == call[c]  w == WantOf(want, c)  r == k.new  P == k.j  x == Chain[P]
             J == {q \in (P + 1)..Len(Chain) : Cmprec(Chain[q], r, k.old) = "key"}
  <1>1. /\ IsCall(k) /\ Works(k) /\ k.op = "rewrite" /\ k.ph = "back" /\ k.i \in DOMAIN Chain
        /\ IsRec(r) /\ r.m \in Own[c] /\ k.j \in 1..(k.i - 1) /\ Change(k, k.i) = "key"
        /\ Change(k, P) = "key"
    BY Opening DEF RewriteBack, At, CallOK, Works
  <1>2. P \in DOMAIN Chain /\ x \in Index /\ list = Chain /\ J \in SUBSET Nat
    BY <1>1, Opening, ChainFacts
  <1>3. \E j : /\ Following(P, J, j)
               /\ IF j < k.i THEN To(c, [k EXCEPT !.j = j]) ELSE End(c)
    <2> DEFINE j == NextIndex(P, LAMBDA y : Cmprec(y, call[c].new, call[c].old) = "key")
    <2>1. J # {} => \E q \in J : \A p \in J : q <= p
      BY <1>2, Least
    <2>2. Following(P, J, j)
      BY <1>2, <2>1 DEF NextIndex, Following
    <2>3. IF j < k.i THEN To(c, [k EXCEPT !.j = j]) ELSE End(c)
      BY <1>2 DEF RewriteBack, Rewritten
    <2> HIDE DEF j, k
    <2> QED BY <2>2, <2>3
  <1>4. PICK j : /\ Following(P, J, j)
                 /\ IF j < k.i THEN To(c, [k EXCEPT !.j = j]) ELSE End(c)
    BY <1>3
  <1>5. k.i \in J
    BY <1>1, ChainFacts DEF Change
  <1>6. j \in J /\ j <= k.i /\ \A q \in J : j <= q
    BY <1>4, <1>5 DEF Following
  <1>7. \A p \in DOMAIN Chain : ~Gone(k, p) /\ (Come(k, p) <=> P <= p /\ p < k.i /\ Change(k, p) = "key")
    BY <1>1 DEF Come, Gone
  <1>8. Come(k, P)
    BY <1>1, <1>2, <1>7
  <1>9. Rec(x, r) \in file[x]
    BY <1>2, <1>8, Opening, Present
  <1>10. Drop(x, Key(x, r)) /\ UNCHANGED <<list, want>>
    BY <1>2 DEF RewriteBack
  <1>11. Minus(file, file', c, x, r)
    BY <1>1, <1>2, <1>9, <1>10, Opening, DropIs
  <1>12. CASE j < k.i /\ To(c, [k EXCEPT !.j = j])
    <2> DEFINE l == [k EXCEPT !.j = j]
    <2>1. call' = [call EXCEPT ![c] = l]
      BY <1>12 DEF To
    <2>2. l = [k EXCEPT !.j = j]
      OBVIOUS
    <2> HIDE DEF l
    <2>3. /\ IsCall(l) /\ Works(l) /\ l.op = "rewrite" /\ l.ph = "back" /\ l.i = k.i /\ l.j = j
          /\ l.new = r /\ l.old = k.old
      BY <2>2, <1>1 DEF IsCall, Works
    <2>4. \A p : Change(l, p) = Change(k, p)
      BY <2>3 DEF Change
    <2>5. j \in 1..(l.i - 1) /\ Change(l, j) = "key"
      BY <2>3, <2>4, <1>1, <1>6, <1>12, ChainFacts DEF Change
    <2>6. k.old \in w
      BY <1>1, Opening DEF CallOK
    <2>7. CallOK(c, w, l)
      BY <2>3, <2>4, <2>5, <2>6, <1>1 DEF CallOK
    <2>8. \A p \in DOMAIN Chain : P < p /\ p < j => Change(k, p) # "key"
      BY <1>1, <1>6, ChainFacts DEF Change
    <2>9. \A p \in DOMAIN Chain : ~Gone(l, p) /\ (Come(l, p) <=> Come(k, p) /\ p # P)
      <3>1. \A p \in DOMAIN Chain : ~Gone(l, p) /\ (Come(l, p) <=> j <= p /\ p < l.i /\ Change(l, p) = "key")
        BY <2>3 DEF Come, Gone
      <3> QED BY <3>1, <2>3, <2>4, <2>8, <1>1, <1>6, <1>7, ChainFacts
    <2>10. Exact(c, file', w, l)
      BY <2>3, <2>9, <1>2, <1>7, <1>8, <1>11, Opening, ExactTaken
    <2> QED BY <2>1, <2>7, <2>10, <1>10, <1>11, LocalSame DEF Minus
  <1>13. CASE ~(j < k.i) /\ End(c)
    <2>1. call' = [call EXCEPT ![c] = Idle]
      BY <1>13 DEF End, To
    <2>2. j = k.i
      BY <1>1, <1>6, <1>13, ChainFacts
    <2>3. \A p \in DOMAIN Chain : ~(Come(k, p) /\ p # P)
      BY <2>2, <1>1, <1>6, <1>7, ChainFacts DEF Change
    <2>4. Exact(c, file', w, Idle)
      BY <2>3, <1>2, <1>7, <1>8, <1>11, Opening, ExactTaken, NoWork
    <2>5. CallOK(c, w, Idle)
      BY NoWork DEF CallOK
    <2> QED BY <2>1, <2>4, <2>5, <1>10, <1>11, LocalSame DEF Minus
  <1> QED BY <1>4, <1>12, <1>13

\* The one index in which a duplicate is no error (isrew: the key is the record).
LEMMA Replaceable ==
  ASSUME NEW x \in Index
  PROVE  (x # "m" /\ Klen[x] = Len(Fields[x])) <=> x = "d"
  <1>1. /\ Len(Fields["s"]) = 2 /\ Len(Fields["d"]) = 2 /\ Len(Fields["n"]) = 2
    BY DEF Fields
  <1>2. Klen["s"] = 1 /\ Klen["d"] = 2 /\ Klen["n"] = 1
    BY DEF Klen
  <1>3. CASE x = "s" \/ x = "n"
    <2>1. Klen[x] = 1 /\ Len(Fields[x]) = 2 /\ x # "d"
      BY <1>1, <1>2, <1>3
    <2> QED BY <2>1
  <1>4. CASE x = "d"
    <2>1. Klen[x] = 2 /\ Len(Fields[x]) = 2 /\ x # "m"
      BY <1>1, <1>2, <1>4
    <2> QED BY <2>1, <1>4
  <1>5. CASE x = "m"
    BY <1>5
  <1> QED BY <1>3, <1>4, <1>5 DEF Index

\* What RewriteNew does, with the next indexes named.
LEMMA NewStep ==
  ASSUME list = Chain, NEW c, RewriteNew(c), call[c].i \in DOMAIN Chain
  PROVE  LET k == call[c]  x == Chain[k.i]
             dup == Matching(x, Key(x, k.new)) # {}
             kept == x # "m" /\ Klen[x] = Len(Fields[x]) IN
         \E j, b, a :
           /\ Following(k.i, {q \in (k.i + 1)..Len(Chain) : Change(k, q) = "key"}, j)
           /\ Following(0, {q \in (0 + 1)..Len(Chain) : Change(k, q) = "key"}, b)
           /\ Following(0, {q \in (0 + 1)..Len(Chain) : Change(k, q) # "same"}, a)
           /\ \/ /\ ~dup \/ kept
                 /\ IF dup THEN UNCHANGED file ELSE Put(x, k.new)
                 /\ IF j # 0 THEN Go(c, "new", j) ELSE Go(c, "old", a)
              \/ /\ dup /\ ~kept /\ UNCHANGED file
                 /\ IF b = k.i THEN End(c) ELSE To(c, [k EXCEPT !.ph = "back", !.j = b])
  <1> DEFINE k == call[c]  x == Chain[k.i]
             dup == Matching(x, Key(x, k.new)) # {}
             kept == x # "m" /\ Klen[x] = Len(Fields[x])
             J == {q \in (k.i + 1)..Len(Chain) : Change(k, q) = "key"}
             B == {q \in (0 + 1)..Len(Chain) : Change(k, q) = "key"}
             A == {q \in (0 + 1)..Len(Chain) : Change(k, q) # "same"}
             j == NextIndex(k.i, LAMBDA y : Cmprec(y, call[c].new, call[c].old) = "key")
             b == NextIndex(0, LAMBDA y : Cmprec(y, call[c].new, call[c].old) = "key")
             a == NextIndex(0, LAMBDA y : Cmprec(y, call[c].new, call[c].old) # "same")
  <1>1. J \in SUBSET Nat /\ B \in SUBSET Nat /\ A \in SUBSET Nat
    BY ChainFacts
  <1>2. /\ J # {} => \E q \in J : \A p \in J : q <= p
        /\ B # {} => \E q \in B : \A p \in B : q <= p
        /\ A # {} => \E q \in A : \A p \in A : q <= p
    BY <1>1, Least
  <1>3. Following(k.i, J, j)
    BY <1>2 DEF NextIndex, Following, Change
  <1>4. Following(0, B, b)
    BY <1>2 DEF NextIndex, Following, Change
  <1>5. Following(0, A, a)
    BY <1>2 DEF NextIndex, Following, Change
  <1>6. \/ /\ ~dup \/ kept
           /\ IF dup THEN UNCHANGED file ELSE Put(x, k.new)
           /\ IF j # 0 THEN Go(c, "new", j) ELSE Go(c, "old", a)
        \/ /\ dup /\ ~kept /\ UNCHANGED file
           /\ IF b = k.i THEN End(c) ELSE To(c, [k EXCEPT !.ph = "back", !.j = b])
    BY DEF RewriteNew, Rewritten
  <1> HIDE DEF a, b, j, dup, kept, J, A, B
  <1>7. \E u, v, t :
           /\ Following(k.i, J, u) /\ Following(0, B, v) /\ Following(0, A, t)
           /\ \/ /\ ~dup \/ kept
                 /\ IF dup THEN UNCHANGED file ELSE Put(x, k.new)
                 /\ IF u # 0 THEN Go(c, "new", u) ELSE Go(c, "old", t)
              \/ /\ dup /\ ~kept /\ UNCHANGED file
                 /\ IF v = k.i THEN End(c) ELSE To(c, [k EXCEPT !.ph = "back", !.j = v])
    BY <1>3, <1>4, <1>5, <1>6
  <1> QED BY <1>7 DEF J, A, B, dup, kept

\* In the index with duplicates, where it would be no error, the new record is not
\* there before the call comes to it.
LEMMA NotThere ==
  ASSUME Disciplined, IInv, NEW c \in Client, call[c].op = "rewrite", call[c].ph = "new",
         Chain[call[c].i] = "d"
  PROVE  Matching("d", Key("d", call[c].new)) = {}
  <1> DEFINE k == call[c]  w == WantOf(want, c)  r == k.new  o == k.old
  <1>1. /\ Works(k) /\ k.i \in DOMAIN Chain /\ r.m \in Own[c] /\ o \in w
        /\ Change(k, k.i) = "key" /\ "d" \in Index
    BY Opening DEF CallOK, Works, Index
  <1>2. SUFFICES ASSUME NEW b \in Matching("d", Key("d", r)) PROVE FALSE
    OBVIOUS
  <1>3. b \in file["d"] /\ IsPrefix(Key("d", r), b)
    BY <1>2 DEF Matching, With
  <1>4. PICK q : b = Rec("d", q)
    BY <1>1, <1>3, Opening DEF Shape
  <1>5. Key("d", q) = Key("d", r)
    BY <1>1, <1>3, <1>4, Matches
  <1>6. Rec("d", q) = Rec("d", r)
    BY <1>5, DKey
  <1>7. MasterKey("d", b)[1] = r.m
    BY <1>1, <1>4, <1>6, Mastered
  <1>8. b \in Mine(file, c, "d")
    BY <1>1, <1>3, <1>7 DEF Mine
  <1>9. ~Come(k, k.i) /\ ~Gone(k, k.i) /\ \A p : ~Gone(k, p)
    BY <1>1, ChainFacts DEF Come, Gone
  <1>10. b \in {Rec("d", s) : s \in w}
    BY <1>1, <1>8, <1>9, Opening DEF Exact, Here, Left
  <1>11. PICK s \in w : b = Rec("d", s)
    BY <1>10
  <1>12. s.m = r.m
    BY <1>1, <1>4, <1>6, <1>11, SameMaster
  <1>13. Key("d", s) = Key("d", r)
    BY <1>4, <1>5, <1>11 DEF Key
  <1>14. CASE r.m = o.m
    <2>1. s = o
      BY <1>1, <1>12, <1>14, Opening DEF Once
    <2> QED BY <2>1, <1>1, <1>13, Compared DEF Change
  <1>15. CASE r.m # o.m
    <2>1. /\ Key("m", r) = <<r.m>> /\ Key("m", o) = <<o.m>> /\ Key("m", s) = <<s.m>>
      BY Keys
    <2>2. Key("m", r) # Key("m", o) /\ Key("m", s) = Key("m", r)
      BY <2>1, <1>12, <1>15
    <2>3. Change(k, 1) = "key"
      BY <2>2, Compared, ChainFacts DEF Change
    <2>4. 1 < k.i
      BY <1>1, ChainFacts
    <2>5. Come(k, 1)
      BY <2>3, <2>4, <1>1 DEF Come
    <2>6. \A t \in w : Key("m", t) # Key("m", r)
      BY <2>5, <1>9, Opening, ChainFacts DEF Exact, Left
    <2> QED BY <2>2, <2>6
  <1> QED BY <1>14, <1>15

\* isrewrite: the record with its new key goes into the next index.
LEMMA RewriteNewInv ==
  ASSUME Disciplined, IInv, NEW c \in Client, RewriteNew(c)
  PROVE  IInv'
  <1> DEFINE k == call[c]  w == WantOf(want, c)  r == k.new  i == k.i  x == Chain[i]
             dup == Matching(x, Key(x, r)) # {}
             kept == x # "m" /\ Klen[x] = Len(Fields[x])
  <1>1. /\ IsCall(k) /\ Works(k) /\ k.op = "rewrite" /\ k.ph = "new" /\ i \in DOMAIN Chain
        /\ IsRec(r) /\ r.m \in Own[c] /\ Change(k, i) = "key" /\ k.old \in w
    BY Opening DEF RewriteNew, At, CallOK, Works
  <1>2. x \in Index /\ list = Chain /\ UNCHANGED <<list, want>>
    BY <1>1, Opening, ChainFacts DEF RewriteNew
  <1>3. PICK j, b, a :
           /\ Following(i, {q \in (i + 1)..Len(Chain) : Change(k, q) = "key"}, j)
           /\ Following(0, {q \in (0 + 1)..Len(Chain) : Change(k, q) = "key"}, b)
           /\ Following(0, {q \in (0 + 1)..Len(Chain) : Change(k, q) # "same"}, a)
           /\ \/ /\ ~dup \/ kept
                 /\ IF dup THEN UNCHANGED file ELSE Put(x, r)
                 /\ IF j # 0 THEN Go(c, "new", j) ELSE Go(c, "old", a)
              \/ /\ dup /\ ~kept /\ UNCHANGED file
                 /\ IF b = i THEN End(c) ELSE To(c, [k EXCEPT !.ph = "back", !.j = b])
    BY <1>1, <1>2, NewStep
  <1>4. /\ j # 0 => j \in DOMAIN Chain /\ i < j /\ Change(k, j) = "key"
        /\ \A p \in DOMAIN Chain : i < p /\ Change(k, p) = "key" => j # 0 /\ j <= p
    BY <1>1, <1>3, ChainFacts, SMTT(60) DEF Following
  <1>5. /\ b \in DOMAIN Chain /\ b <= i /\ Change(k, b) = "key"
        /\ \A p \in DOMAIN Chain : Change(k, p) = "key" => b <= p
    BY <1>1, <1>3, ChainFacts, SMTT(60) DEF Following
  <1>6. /\ a \in DOMAIN Chain /\ Change(k, a) # "same"
        /\ \A p \in DOMAIN Chain : Change(k, p) # "same" => a <= p
    BY <1>1, <1>3, ChainFacts, SMTT(60) DEF Following
  <1>7. \A p \in DOMAIN Chain : ~Gone(k, p) /\ (Come(k, p) <=> p < i /\ Change(k, p) = "key")
    BY <1>1 DEF Come, Gone
  <1>8. dup => ~kept
    <2>1. x = "d" => ~dup
      BY <1>1, NotThere
    <2> QED BY <2>1, <1>2, Replaceable
  <1> HIDE DEF dup, kept
  <1>9. CASE ~dup /\ Put(x, r) /\ (IF j # 0 THEN Go(c, "new", j) ELSE Go(c, "old", a))
    <2>0. Matching(x, Key(x, r)) = {}
      BY <1>9 DEF dup
    <2>1. Plus(file, file', c, x, r)
      BY <2>0, <1>1, <1>2, <1>9, Opening, PutIs
    <2>2. \A q \in w : Rec(x, q) \in file[x]
      BY <1>1, <1>7, Opening, Present
    <2>3. With(file, x, Key(x, r)) = {}
      BY <2>0 DEF Matching
    <2>4. \A q \in w : Key(x, q) # Key(x, r)
      BY <2>2, <2>3, <1>2, Opening, NotFound
    <2>5. CASE j # 0 /\ Go(c, "new", j)
      <3> DEFINE l == [k EXCEPT !.ph = "new", !.i = j]
      <3>1. call' = [call EXCEPT ![c] = l]
        BY <2>5 DEF Go, To
      <3>2. l = [k EXCEPT !.ph = "new", !.i = j]
        OBVIOUS
      <3> HIDE DEF l
      <3>3. /\ IsCall(l) /\ Works(l) /\ l.op = "rewrite" /\ l.ph = "new" /\ l.i = j
            /\ l.new = r /\ l.old = k.old
        BY <3>2, <1>1 DEF IsCall, Works
      <3>4. \A p : Change(l, p) = Change(k, p)
        BY <3>3 DEF Change
      <3>5. CallOK(c, w, l)
        BY <3>3, <3>4, <2>5, <1>1, <1>4 DEF CallOK
      <3>6. \A p \in DOMAIN Chain : ~Gone(l, p) /\ (Come(l, p) <=> p < j /\ Change(k, p) = "key")
        BY <3>3, <3>4 DEF Come, Gone
      <3>7. \A p \in DOMAIN Chain : Come(l, p) <=> Come(k, p) \/ p = i
        BY <3>6, <2>5, <1>1, <1>4, <1>7, ChainFacts
      <3>8. Exact(c, file', w, l)
        BY <3>3, <3>6, <3>7, <2>1, <2>4, <1>1, <1>7, Opening, ExactPut
      <3> QED BY <3>1, <3>5, <3>8, <2>1, <1>2, LocalSame DEF Plus
    <2>6. CASE j = 0 /\ Go(c, "old", a)
      <3> DEFINE l == [k EXCEPT !.ph = "old", !.i = a]
      <3>1. call' = [call EXCEPT ![c] = l]
        BY <2>6 DEF Go, To
      <3>2. l = [k EXCEPT !.ph = "old", !.i = a]
        OBVIOUS
      <3> HIDE DEF l
      <3>3. /\ IsCall(l) /\ Works(l) /\ l.op = "rewrite" /\ l.ph = "old" /\ l.i = a
            /\ l.new = r /\ l.old = k.old
        BY <3>2, <1>1 DEF IsCall, Works
      <3>4. \A p : Change(l, p) = Change(k, p)
        BY <3>3 DEF Change
      <3>5. CallOK(c, w, l)
        BY <3>3, <3>4, <1>1, <1>6 DEF CallOK
      <3>6. \A p \in DOMAIN Chain : p < a => Change(k, p) = "same"
        BY <1>6, ChainFacts
      <3>7. \A p \in DOMAIN Chain : ~Gone(l, p) /\ (Come(l, p) <=> Change(k, p) = "key")
        BY <3>3, <3>4, <3>6 DEF Come, Gone
      <3>8. \A p \in DOMAIN Chain : Change(k, p) = "key" => p <= i
        BY <2>6, <1>1, <1>4, ChainFacts
      <3>9. \A p \in DOMAIN Chain : Come(l, p) <=> Come(k, p) \/ p = i
        BY <3>7, <3>8, <1>1, <1>7, ChainFacts
      <3>10. Exact(c, file', w, l)
        BY <3>3, <3>7, <3>9, <2>1, <2>4, <1>1, <1>7, Opening, ExactPut
      <3> QED BY <3>1, <3>5, <3>10, <2>1, <1>2, LocalSame DEF Plus
    <2> QED BY <2>5, <2>6, <1>9
  <1>10. CASE dup /\ UNCHANGED file /\ b = i /\ End(c)
    <2>1. call' = [call EXCEPT ![c] = Idle] /\ CallOK(c, w, Idle)
      BY <1>10, NoWork DEF End, To, CallOK
    <2>2. \A p \in DOMAIN Chain : ~Come(k, p)
      BY <1>1, <1>5, <1>7, <1>10, ChainFacts
    <2> QED BY <2>1, <2>2, <1>2, <1>7, <1>10, NoWork, Turn
  <1>11. CASE dup /\ UNCHANGED file /\ b # i /\ To(c, [k EXCEPT !.ph = "back", !.j = b])
    <2> DEFINE l == [k EXCEPT !.ph = "back", !.j = b]
    <2>1. call' = [call EXCEPT ![c] = l]
      BY <1>11 DEF To
    <2>2. l = [k EXCEPT !.ph = "back", !.j = b]
      OBVIOUS
    <2> HIDE DEF l
    <2>3. /\ IsCall(l) /\ Works(l) /\ l.op = "rewrite" /\ l.ph = "back" /\ l.i = i /\ l.j = b
          /\ l.new = r /\ l.old = k.old
      BY <2>2, <1>1 DEF IsCall, Works
    <2>4. \A p : Change(l, p) = Change(k, p)
      BY <2>3 DEF Change
    <2>5. b \in 1..(i - 1)
      BY <1>1, <1>5, <1>11, ChainFacts
    <2>6. CallOK(c, w, l)
      BY <2>3, <2>4, <2>5, <1>1, <1>5 DEF CallOK
    <2>7. \A p \in DOMAIN Chain : ~Gone(l, p) /\ (Come(l, p) <=> b <= p /\ p < i /\ Change(k, p) = "key")
      BY <2>3, <2>4 DEF Come, Gone
    <2>8. \A p \in DOMAIN Chain : Come(l, p) <=> Come(k, p)
      BY <2>7, <1>5, <1>7
    <2> QED BY <2>1, <2>3, <2>6, <2>7, <2>8, <1>2, <1>7, <1>11, Turn
  <1> QED BY <1>3, <1>8, <1>9, <1>10, <1>11

\* The client is exact after its old record was replaced in the P-th file.
LEMMA ExactSwap ==
  ASSUME NEW c, NEW f, NEW e, NEW g, NEW w, NEW k, NEW l, Exact(c, f, w, k), Once(w), k.old \in w,
         NEW P \in DOMAIN Chain, Minus(f, e, c, Chain[P], k.old), Plus(e, g, c, Chain[P], k.new),
         ~Gone(k, P), ~Come(k, P), l.old = k.old, l.new = k.new,
         \A q \in w \ {k.old} : Key(Chain[P], q) # Key(Chain[P], k.new),
         \A p \in DOMAIN Chain :
           /\ Gone(l, p) <=> Gone(k, p) \/ p = P
           /\ Come(l, p) <=> Come(k, p) \/ p = P
  PROVE  Exact(c, g, w, l)
  <1>1. ASSUME NEW p \in DOMAIN Chain
        PROVE  /\ Mine(g, c, Chain[p]) = {Rec(Chain[p], q) : q \in Here(w, l, p)}
               /\ Come(l, p) => \A q \in Left(w, l, p) : Key(Chain[p], q) # Key(Chain[p], l.new)
    <2>1. CASE p = P
      <3>1. \A q \in w : Rec(Chain[p], q) = Rec(Chain[p], k.old) => q = k.old
        BY SameMaster, ChainFacts DEF Once
      <3>2. Mine(f, c, Chain[p]) = {Rec(Chain[p], q) : q \in w}
        BY <2>1 DEF Exact, Here, Left
      <3>3. Here(w, l, p) = (w \ {k.old}) \cup {k.new} /\ Left(w, l, p) = w \ {k.old}
        BY <2>1 DEF Here, Left
      <3>4. Mine(g, c, Chain[p]) = (Mine(f, c, Chain[p]) \ {Rec(Chain[p], k.old)})
                                     \cup {Rec(Chain[p], k.new)}
        BY <2>1 DEF Minus, Plus
      <3>5. Mine(g, c, Chain[p]) = {Rec(Chain[p], q) : q \in Here(w, l, p)}
        BY <3>1, <3>2, <3>3, <3>4
      <3> QED BY <2>1, <3>3, <3>5
    <2>2. CASE p # P
      <3>1. Mine(g, c, Chain[p]) = Mine(f, c, Chain[p])
        BY <2>2, ChainFacts DEF Minus, Plus
      <3> QED BY <2>2, <3>1 DEF Exact, Here, Left
    <2> QED BY <2>1, <2>2
  <1> QED BY <1>1 DEF Exact

\* A call that has come to the end: what it has left.
LEMMA Rewrote ==
  ASSUME Disciplined, IInv, NEW c \in Client, NEW g, NEW l,
         LET w == WantOf(want, c) IN
           /\ Exact(c, g, w, l) /\ l.old \in w /\ IsRec(l.new) /\ l.new.m \in Own[c]
           /\ \A p \in DOMAIN Chain :
                (Gone(l, p) <=> Change(l, p) # "same") /\ (Come(l, p) <=> Change(l, p) # "same")
  PROVE  LET v == (WantOf(want, c) \ {l.old}) \cup {l.new}
         IN Exact(c, g, v, Idle) /\ Once(v)
  <1> DEFINE w == WantOf(want, c)  o == l.old  r == l.new  v == (w \ {o}) \cup {r}
  <1>1. Exact(c, g, w, l) /\ o \in w /\ Once(w)
    BY Opening
  <1>2. ASSUME NEW p \in DOMAIN Chain
        PROVE  {Rec(Chain[p], q) : q \in Here(w, l, p)} = {Rec(Chain[p], q) : q \in v}
    <2>1. CASE Change(l, p) # "same"
      BY <2>1 DEF Here, Left
    <2>2. CASE Change(l, p) = "same"
      <3>1. Here(w, l, p) = w
        BY <2>2 DEF Here, Left
      <3>2. Rec(Chain[p], r) = Rec(Chain[p], o)
        BY <2>2, Compared DEF Change
      <3> QED BY <1>1, <3>1, <3>2
    <2> QED BY <2>1, <2>2
  <1>3. ASSUME NEW q \in w \ {o} PROVE q.m # r.m
    <2>1. Key("m", q) = <<q.m>> /\ Key("m", o) = <<o.m>> /\ Key("m", r) = <<r.m>>
      BY Keys
    <2>2. CASE Change(l, 1) = "same"
      <3>1. Key("m", r) = Key("m", o)
        BY <2>2, Compared, ChainFacts DEF Change
      <3> QED BY <2>1, <3>1, <1>1 DEF Once
    <2>3. CASE Change(l, 1) # "same"
      <3>1. Come(l, 1) /\ Left(w, l, 1) = w \ {o}
        BY <2>3, ChainFacts DEF Left
      <3>2. Key("m", q) # Key("m", r)
        BY <3>1, <1>1, ChainFacts DEF Exact
      <3> QED BY <2>1, <3>2
    <2> QED BY <2>2, <2>3
  <1>4. Once(v)
    BY <1>1, <1>3 DEF Once
  <1>5. Exact(c, g, v, Idle)
    BY <1>1, <1>2, ExactDone
  <1> QED BY <1>4, <1>5

\* What RewriteOld does, with the next index named.
LEMMA OldStep ==
  ASSUME list = Chain, NEW c, RewriteOld(c), call[c].i \in DOMAIN Chain
  PROVE  LET k == call[c]  x == Chain[k.i]
             there == Matching(x, Key(x, k.new)) # {} IN
         \E j :
           /\ Following(k.i, {q \in (k.i + 1)..Len(Chain) : Change(k, q) # "same"}, j)
           /\ \/ /\ Change(k, k.i) = "key" \/ there
                 /\ IF Change(k, k.i) = "key" THEN Drop(x, Key(x, k.old))
                    ELSE file' = [file EXCEPT ![x] = (@ \ Matching(x, Key(x, k.new)))
                                                     \union {Rec(x, k.new)}]
                 /\ \/ j # 0 /\ Go(c, "old", j) /\ UNCHANGED want
                    \/ j = 0 /\ End(c) /\ want' = (want \ {k.old}) \union {k.new}
              \/ Change(k, k.i) = "data" /\ ~there
  <1> DEFINE k == call[c]  x == Chain[k.i]
             J == {q \in (k.i + 1)..Len(Chain) : Change(k, q) # "same"}
             j == NextIndex(k.i, LAMBDA y : Cmprec(y, call[c].new, call[c].old) # "same")
  <1>1. J \in SUBSET Nat
    BY ChainFacts
  <1>2. J # {} => \E q \in J : \A p \in J : q <= p
    BY <1>1, Least
  <1>3. Following(k.i, J, j)
    BY <1>2 DEF NextIndex, Following, Change
  <1>4. \/ /\ Change(k, k.i) = "key" \/ Matching(x, Key(x, k.new)) # {}
           /\ IF Change(k, k.i) = "key" THEN Drop(x, Key(x, k.old))
              ELSE file' = [file EXCEPT ![x] = (@ \ Matching(x, Key(x, k.new)))
                                               \union {Rec(x, k.new)}]
           /\ \/ j # 0 /\ Go(c, "old", j) /\ UNCHANGED want
              \/ j = 0 /\ End(c) /\ want' = (want \ {k.old}) \union {k.new}
        \/ Change(k, k.i) = "data" /\ Matching(x, Key(x, k.new)) = {}
    BY DEF RewriteOld, Rewritten, Change
  <1> HIDE DEF j, J
  <1>5. Following(k.i, J, j) /\ TRUE
    BY <1>3
  <1> QED BY <1>4, <1>5 DEF J

\* The old record of a call that replaces it, and what it is replaced by.
LEMMA SwapIs ==
  ASSUME Shape(file), Unique(file), Separate, NEW x \in Index, NEW c \in Client,
         NEW o, NEW r, IsRec(r), r.m \in Own[c], o.m \in Own[c], Rec(x, o) \in file[x],
         Key(x, o) = Key(x, r),
         file' = [file EXCEPT ![x] = (@ \ Matching(x, Key(x, r))) \union {Rec(x, r)}]
  PROVE  \E e : Minus(file, e, c, x, o) /\ Plus(e, file', c, x, r)
  <1> DEFINE e == [file EXCEPT ![x] = @ \ Matching(x, Key(x, r))]
  <1>1. Differs(file, e, c, x) /\ e[x] = file[x] \ With(file, x, Key(x, o))
    BY DEF Matching, Shape, Differs
  <1>2. Differs(e, file', c, x) /\ file'[x] = e[x] \cup {Rec(x, r)}
    BY DEF Shape, Differs
  <1>3. With(e, x, Key(x, r)) = {}
    BY <1>1 DEF With
  <1> HIDE DEF e
  <1>4. Minus(file, e, c, x, o)
    BY <1>1, Dropping DEF Minus
  <1>5. Plus(e, file', c, x, r)
    <2>1. Shape(e) /\ Unique(e)
      BY <1>4 DEF Minus
    <2>2. With(e, x, Key(x, r)) = {} /\ Differs(e, file', c, x) /\ file'[x] = e[x] \cup {Rec(x, r)}
      BY <1>2, <1>3
    <2>3. \A g : Differs(e, g, c, x) /\ g[x] = e[x] \cup {Rec(x, r)} => Plus(e, g, c, x, r)
      BY <2>1, <2>2, Putting DEF Plus
    <2> QED BY <2>2, <2>3
  <1> QED BY <1>4, <1>5

\* isrewrite: the old key is deleted, or the record of the same key replaced.
LEMMA RewriteOldInv ==
  ASSUME Disciplined, IInv, NEW c \in Client, RewriteOld(c)
  PROVE  IInv'
  <1> DEFINE k == call[c]  w == WantOf(want, c)  r == k.new  o == k.old  i == k.i  x == Chain[i]
             there == Matching(x, Key(x, r)) # {}
             v == (w \ {o}) \cup {r}
  <1>1. /\ IsCall(k) /\ Works(k) /\ k.op = "rewrite" /\ k.ph = "old" /\ i \in DOMAIN Chain
        /\ IsRec(r) /\ r.m \in Own[c] /\ Change(k, i) # "same" /\ o \in w
    BY Opening DEF RewriteOld, At, CallOK, Works
  <1>2. x \in Index /\ list = Chain /\ list' = list /\ IsRec(o) /\ o.m \in Own[c]
    BY <1>1, Opening, ChainFacts DEF RewriteOld
  <1>3. PICK j :
           /\ Following(i, {q \in (i + 1)..Len(Chain) : Change(k, q) # "same"}, j)
           /\ \/ /\ Change(k, i) = "key" \/ there
                 /\ IF Change(k, i) = "key" THEN Drop(x, Key(x, o))
                    ELSE file' = [file EXCEPT ![x] = (@ \ Matching(x, Key(x, r))) \union {Rec(x, r)}]
                 /\ \/ j # 0 /\ Go(c, "old", j) /\ UNCHANGED want
                    \/ j = 0 /\ End(c) /\ want' = (want \ {o}) \union {r}
              \/ Change(k, i) = "data" /\ ~there
    BY <1>1, <1>2, OldStep
  <1>4. /\ j # 0 => j \in DOMAIN Chain /\ i < j /\ Change(k, j) # "same"
        /\ \A p \in DOMAIN Chain : i < p /\ Change(k, p) # "same" => j # 0 /\ j <= p
    BY <1>1, <1>3, ChainFacts, SMTT(60) DEF Following
  <1>5. \A p : Change(k, p) \in {"key", "data", "same"}
    BY DEF Change, Cmprec
  <1>6. \A p \in DOMAIN Chain :
          /\ Gone(k, p) <=> p < i /\ Change(k, p) # "same"
          /\ Come(k, p) <=> Change(k, p) = "key" \/ (p < i /\ Change(k, p) = "data")
    BY <1>1 DEF Come, Gone
  <1>7. ~Gone(k, i) /\ Rec(x, o) \in file[x]
    <2>1. ~Gone(k, i)
      BY <1>1, <1>6, ChainFacts
    <2> QED BY <2>1, <1>1, Opening, Present
  <1>8. Change(k, i) = "data" => there
    <2>1. Change(k, i) = "data" => Key(x, o) = Key(x, r)
      BY Compared DEF Change
    <2>2. Rec(x, o) \in Matching(x, Key(x, o))
      BY <1>2, <1>7, Matches DEF Matching, With
    <2> QED BY <2>1, <2>2
  <1> HIDE DEF there, v
  \* l: the call behind this index, gone or come to the end.
  <1>9. ASSUME NEW l, l.old = o, l.new = r,
               \A p \in DOMAIN Chain :
                 /\ Gone(l, p) <=> Gone(k, p) \/ p = i
                 /\ Come(l, p) <=> Come(k, p) \/ p = i
        PROVE  Exact(c, file', w, l) /\ Shape(file') /\ Unique(file') /\ Others(file, file', c)
    <2>1. CASE Change(k, i) = "key"
      <3>1. Drop(x, Key(x, o))
        BY <2>1, <1>3
      <3>2. Minus(file, file', c, x, o)
        BY <3>1, <1>2, <1>7, Opening, DropIs
      <3>3. Come(k, i)
        BY <2>1, <1>1, <1>6
      <3>4. \A p \in DOMAIN Chain : (Gone(l, p) <=> Gone(k, p) \/ p = i) /\ (Come(l, p) <=> Come(k, p))
        BY <3>3, <1>9
      <3>5. Exact(c, file', w, l)
        BY <3>2, <3>4, <1>1, <1>7, <1>9, Opening, ExactGone
      <3> QED BY <3>2, <3>5 DEF Minus
    <2>2. CASE Change(k, i) = "data"
      <3>1. Key(x, o) = Key(x, r)
        BY <2>2, Compared DEF Change
      <3>2. file' = [file EXCEPT ![x] = (@ \ Matching(x, Key(x, r))) \union {Rec(x, r)}]
        BY <2>2, <1>3, <1>8
      <3>3. PICK e : Minus(file, e, c, x, o) /\ Plus(e, file', c, x, r)
        BY <3>1, <3>2, <1>1, <1>2, <1>7, Opening, SwapIs
      <3>4. ~Come(k, i)
        BY <2>2, <1>1, <1>6, ChainFacts
      <3>5. ASSUME NEW q \in w \ {o} PROVE Key(x, q) # Key(x, r)
        <4>1. Rec(x, q) \in file[x]
          BY <1>1, <1>7, Opening, Present
        <4>2. Key(x, q) = Key(x, o) => Rec(x, q) = Rec(x, o)
          BY <4>1, <1>2, <1>7, Opening DEF Unique, Key
        <4>3. Rec(x, q) = Rec(x, o) => q.m = o.m
          BY <1>2, SameMaster
        <4> QED BY <4>2, <4>3, <3>1, <1>1, Opening DEF Once
      <3>6. Exact(c, file', w, l)
        BY <3>3, <3>4, <3>5, <1>1, <1>7, <1>9, Opening, ExactSwap
      <3>7. Others(file, file', c)
        BY <3>3 DEF Minus, Plus, Others
      <3> QED BY <3>3, <3>6, <3>7 DEF Plus
    <2> QED BY <2>1, <2>2, <1>1, <1>5
  <1>10. CASE j # 0 /\ Go(c, "old", j) /\ UNCHANGED want
    <2> DEFINE l == [k EXCEPT !.ph = "old", !.i = j]
    <2>1. call' = [call EXCEPT ![c] = l]
      BY <1>10 DEF Go, To
    <2>2. l = [k EXCEPT !.ph = "old", !.i = j]
      OBVIOUS
    <2> HIDE DEF l
    <2>3. /\ IsCall(l) /\ Works(l) /\ l.op = "rewrite" /\ l.ph = "old" /\ l.i = j
          /\ l.new = r /\ l.old = o
      BY <2>2, <1>1 DEF IsCall, Works
    <2>4. \A p : Change(l, p) = Change(k, p)
      BY <2>3 DEF Change
    <2>5. CallOK(c, w, l)
      BY <2>3, <2>4, <1>1, <1>4, <1>10 DEF CallOK
    <2>6. \A p \in DOMAIN Chain :
            /\ Gone(l, p) <=> p < j /\ Change(k, p) # "same"
            /\ Come(l, p) <=> Change(k, p) = "key" \/ (p < j /\ Change(k, p) = "data")
      BY <2>3, <2>4 DEF Come, Gone
    <2>7. \A p \in DOMAIN Chain : p < j /\ Change(k, p) # "same" <=> (p < i /\ Change(k, p) # "same") \/ p = i
      BY <1>1, <1>4, <1>10, ChainFacts
    <2>8. \A p \in DOMAIN Chain : (Gone(l, p) <=> Gone(k, p) \/ p = i) /\ (Come(l, p) <=> Come(k, p) \/ p = i)
      BY <2>6, <2>7, <1>1, <1>5, <1>6
    <2> QED BY <2>1, <2>3, <2>5, <2>8, <1>2, <1>9, <1>10, LocalSame
  <1>11. CASE j = 0 /\ End(c) /\ want' = (want \ {o}) \union {r}
    <2> DEFINE l == [k EXCEPT !.i = Len(Chain) + 1]
    <2>1. l = [k EXCEPT !.i = Len(Chain) + 1]
      OBVIOUS
    <2> HIDE DEF l
    <2>2. Works(l) /\ l.ph = "old" /\ l.i = Len(Chain) + 1 /\ l.new = r /\ l.old = o
      BY <2>1, <1>1 DEF IsCall, Works
    <2>3. \A p : Change(l, p) = Change(k, p)
      BY <2>2 DEF Change
    <2>4. \A p \in DOMAIN Chain : p < l.i
      BY <2>2, ChainFacts
    <2>5. \A p \in DOMAIN Chain :
            (Gone(l, p) <=> Change(l, p) # "same") /\ (Come(l, p) <=> Change(l, p) # "same")
      BY <2>2, <2>3, <2>4, <1>5 DEF Come, Gone
    <2>6. \A p \in DOMAIN Chain : Change(k, p) # "same" => p < i \/ p = i
      BY <1>1, <1>4, <1>11, ChainFacts
    <2>7. \A p \in DOMAIN Chain : (Gone(l, p) <=> Gone(k, p) \/ p = i) /\ (Come(l, p) <=> Come(k, p) \/ p = i)
      BY <2>3, <2>5, <2>6, <1>1, <1>5, <1>6
    <2>8. Exact(c, file', w, l) /\ Shape(file') /\ Unique(file') /\ Others(file, file', c)
      BY <2>2, <2>7, <1>9
    <2>9. Exact(c, file', v, Idle) /\ Once(v)
      BY <2>2, <2>5, <2>8, <1>1, Rewrote DEF v
    <2>10. call' = [call EXCEPT ![c] = Idle] /\ CallOK(c, v, Idle)
      BY <1>11, NoWork DEF End, To, CallOK
    <2> DEFINE A == {o} B == {r}
    <2>11. /\ Becomes(want, want', A, B) /\ Becomes(w, v, A, B)
           /\ Records(A, c) /\ Records(B, c)
      BY <1>1, <1>2, <1>11 DEF Becomes, Records, v
    <2> HIDE DEF A, B
    <2> QED BY <2>8, <2>9, <2>10, <2>11, <1>2, Opening, LocalWant
  <1> QED BY <1>3, <1>8, <1>10, <1>11

\* The index behind i.
LEMMA Behind ==
  ASSUME NEW i \in DOMAIN Chain
  PROVE  /\ ~(i < i)
         /\ \A p \in DOMAIN Chain : p < i + 1 <=> p < i \/ p = i
         /\ i < Len(Chain) => i + 1 \in DOMAIN Chain
         /\ i = Len(Chain) => \A p \in DOMAIN Chain : p < i \/ p = i
  <1>1. i \in 1..Len(Chain) /\ Len(Chain) \in Nat /\ DOMAIN Chain = 1..Len(Chain)
    BY ChainFacts
  <1>2. \A p \in 1..Len(Chain) : p < i + 1 <=> p < i \/ p = i
    BY <1>1
  <1>3. i < Len(Chain) => i + 1 \in 1..Len(Chain)
    BY <1>1
  <1>4. i = Len(Chain) => \A p \in 1..Len(Chain) : p < i \/ p = i
    <2>1. \A n \in Nat : \A p \in 1..n : p < n \/ p = n
      OBVIOUS
    <2> QED BY <2>1, <1>1
  <1> QED BY <1>1, <1>2, <1>3, <1>4

\* isdelete: the record leaves the next file, the master first.
LEMMA DeleteInv ==
  ASSUME Disciplined, IInv, NEW c \in Client, Delete(c)
  PROVE  IInv'
  <1> DEFINE k == call[c]  w == WantOf(want, c)  o == k.old  i == k.i  x == Chain[i]  v == w \ {o}
  <1>1. /\ IsCall(k) /\ Works(k) /\ k.op = "delete" /\ k.ph = "" /\ i \in DOMAIN Chain /\ o \in w
        /\ IsRec(k.new) /\ k.new.m \in Own[c]
    BY Opening DEF Delete, CallOK, Works
  <1>2. x \in Index /\ list = Chain /\ list' = list /\ IsRec(o) /\ o.m \in Own[c]
    BY <1>1, Opening, ChainFacts DEF Delete
  <1>3. \A p \in DOMAIN Chain : ~Come(k, p) /\ (Gone(k, p) <=> p < i)
    BY <1>1 DEF Come, Gone
  <1>4. ~Gone(k, i)
    <2>1. ~(i < i)
      BY <1>1, Behind
    <2> QED BY <2>1, <1>1, <1>3
  <1>5. Rec(x, o) \in file[x]
    BY <1>1, <1>4, Opening, Present
  <1>6. Drop(x, Key(x, o))
    <2>1. Drop(x, IF x = "m" THEN Rec("m", o) ELSE Key(x, o))
      BY <1>2 DEF Delete
    <2>2. CASE x = "m"
      <3>1. Matching("m", Key("m", o)) = {Rec("m", o)}
        BY <2>2, <1>2, <1>5, Opening, Found DEF Matching
      <3>2. Rec("m", o) \in Matching("m", Rec("m", o))
        <4>1. IsPrefix(Rec("m", o), Rec("m", o))
          BY Recs DEF IsPrefix
        <4> QED BY <4>1, <2>2, <1>5 DEF Matching, With
      <3>3. ASSUME NEW b \in Matching("m", Rec("m", o)) PROVE b = Rec("m", o)
        <4>1. PICK q : b = Rec("m", q)
          BY <3>3, <2>2, <1>2, Opening DEF Matching, With, Shape
        <4> QED BY <4>1, <3>3, WholeStart DEF Matching, With
      <3>4. Matching("m", Rec("m", o)) = Matching("m", Key("m", o))
        BY <3>1, <3>2, <3>3
      <3> QED BY <3>4, <2>1, <2>2 DEF Drop
    <2>3. CASE x # "m"
      BY <2>1, <2>3
    <2> QED BY <2>2, <2>3
  <1>7. Minus(file, file', c, x, o)
    BY <1>2, <1>5, <1>6, Opening, DropIs
  <1>8. CASE i < Len(list) /\ Go(c, "", i + 1) /\ UNCHANGED want
    <2> DEFINE l == [k EXCEPT !.ph = "", !.i = i + 1]
    <2>1. call' = [call EXCEPT ![c] = l]
      BY <1>8 DEF Go, To
    <2>2. l = [k EXCEPT !.ph = "", !.i = i + 1]
      OBVIOUS
    <2> HIDE DEF l
    <2>3. /\ IsCall(l) /\ Works(l) /\ l.op = "delete" /\ l.ph = "" /\ l.i = i + 1
          /\ l.new = k.new /\ l.old = o
      BY <2>2, <1>1 DEF IsCall, Works
    <2>4. l.i \in DOMAIN Chain
      <3>1. i < Len(Chain)
        BY <1>2, <1>8
      <3>2. i + 1 \in DOMAIN Chain
        BY <3>1, <1>1, Behind
      <3> QED BY <3>2, <2>3
    <2>5. CallOK(c, w, l)
      BY <2>3, <2>4, <1>1 DEF CallOK
    <2>6. \A p \in DOMAIN Chain : p < i + 1 <=> p < i \/ p = i
      BY <1>1, Behind
    <2>7. \A p \in DOMAIN Chain : (Gone(l, p) <=> Gone(k, p) \/ p = i) /\ (Come(l, p) <=> Come(k, p))
      BY <2>3, <2>6, <1>3 DEF Come, Gone
    <2>8. Exact(c, file', w, l)
      BY <2>3, <2>7, <1>1, <1>4, <1>7, Opening, ExactGone
    <2> QED BY <2>1, <2>5, <2>8, <1>2, <1>7, <1>8, LocalSame DEF Minus
  <1>9. CASE i = Len(list) /\ End(c) /\ want' = want \ {o}
    <2> DEFINE l == [k EXCEPT !.i = i + 1]
    <2>1. l = [k EXCEPT !.i = i + 1]
      OBVIOUS
    <2> HIDE DEF l
    <2>2. Works(l) /\ l.op = "delete" /\ l.ph = "" /\ l.i = i + 1 /\ l.new = k.new /\ l.old = o
      BY <2>1, <1>1 DEF IsCall, Works
    <2>3. \A p \in DOMAIN Chain : p < i + 1 /\ (p < i \/ p = i)
      <3>1. i = Len(Chain)
        BY <1>2, <1>9
      <3>2. \A p \in DOMAIN Chain : p < i \/ p = i
        BY <3>1, <1>1, Behind
      <3>3. \A p \in DOMAIN Chain : p < i + 1 <=> p < i \/ p = i
        BY <1>1, Behind
      <3> QED BY <3>2, <3>3
    <2>4. \A p \in DOMAIN Chain : Gone(l, p) /\ ~Come(l, p)
      BY <2>2, <2>3 DEF Come, Gone
    <2>5. \A p \in DOMAIN Chain : (Gone(l, p) <=> Gone(k, p) \/ p = i) /\ (Come(l, p) <=> Come(k, p))
      BY <2>3, <2>4, <1>3
    <2>6. Exact(c, file', w, l)
      BY <2>2, <2>5, <1>1, <1>4, <1>7, Opening, ExactGone
    <2>7. \A p \in DOMAIN Chain : Here(w, l, p) = v
      BY <2>2, <2>4 DEF Here, Left
    <2>8. Exact(c, file', v, Idle)
      BY <2>6, <2>7, ExactDone
    <2>9. Once(v)
      BY Opening DEF Once
    <2>10. call' = [call EXCEPT ![c] = Idle] /\ CallOK(c, v, Idle)
      BY <1>9, NoWork DEF End, To, CallOK
    <2> DEFINE A == {o} B == {}
    <2>11. /\ Becomes(want, want', A, B) /\ Becomes(w, v, A, B)
           /\ Records(A, c) /\ Records(B, c)
      BY <1>2, <1>9 DEF Becomes, Records
    <2> HIDE DEF A, B, v
    <2> QED BY <2>8, <2>9, <2>10, <2>11, <1>2, <1>7, Opening, LocalWant DEF Minus
  <1>10. \/ i < Len(list) /\ Go(c, "", i + 1) /\ UNCHANGED want
         \/ i = Len(list) /\ End(c) /\ want' = want \ {o}
    BY DEF Delete
  <1> QED BY <1>8, <1>9, <1>10

\* The invariant holds of an empty file, and every step keeps it.
LEMMA InitInv ==
  ASSUME Init
  PROVE  IInv
  <1>1. \A c \in Client : call[c] = Idle /\ WantOf(want, c) = {}
    BY DEF Init, WantOf
  <1>2. \A c \in Client : CallOK(c, {}, Idle)
    BY NoWork DEF CallOK
  <1>3. \A x \in Index : file[x] = {}
    BY DEF Init
  <1>4. ASSUME NEW c \in Client PROVE Exact(c, file, {}, Idle)
    <2>1. \A p : Here({}, Idle, p) = {} /\ ~Come(Idle, p)
      BY NoWork DEF Here, Left
    <2>2. \A p \in DOMAIN Chain : Mine(file, c, Chain[p]) = {}
      BY <1>3, ChainFacts DEF Mine
    <2> QED BY <2>1, <2>2 DEF Exact
  <1>5. Shape(file) /\ Unique(file)
    BY <1>3 DEF Init, Shape, Unique
  <1>6. list = Chain /\ call = [c \in Client |-> call[c]] /\ want = {}
    BY DEF Init
  <1> QED BY <1>1, <1>2, <1>4, <1>5, <1>6 DEF IInv

LEMMA NextInv ==
  ASSUME Disciplined, IInv, [Next]_vars
  PROVE  IInv'
  <1>1. CASE UNCHANGED vars
    BY <1>1 DEF vars, IInv
  <1>2. ASSUME NEW c \in Client,
               \/ CallWrite(c) \/ WriteNumber(c) \/ WritePut(c) \/ WriteUnnumber(c) \/ WriteUndo(c)
        PROVE  IInv'
    BY <1>2, CallWriteInv, WriteNumberInv, WritePutInv, WriteUnnumberInv, WriteUndoInv
  <1>3. ASSUME NEW c \in Client,
               \/ CallRewcurr(c) \/ CallRewrite(c) \/ CallRewrec(c) \/ RewriteFetch(c)
               \/ RewriteNew(c) \/ RewriteBack(c) \/ RewriteOld(c)
        PROVE  IInv'
    BY <1>3, CallRewcurrInv, CallRewriteInv, CallRewrecInv, RewriteFetchInv,
       RewriteNewInv, RewriteBackInv, RewriteOldInv
  <1>4. ASSUME NEW c \in Client, CallDelcurr(c) \/ CallDelete(c) \/ CallDelrec(c) \/ Delete(c)
        PROVE  IInv'
    BY <1>4, CallDeleteInv, DeleteInv
  <1>5. ASSUME NEW c \in Client,
               \/ Start(c) \/ Read(c) \/ ReadMaster(c)
               \/ CallUnique(c) \/ UniqueLast(c) \/ UniqueWrite(c) \/ UniqueLower(c) \/ Die(c)
        PROVE  IInv'
    BY <1>5, RestInv, DieInv
  <1>6. ~Bcheck /\ \A x : ~AddIndex(x) /\ ~DelIndex(x)
    BY DEF Disciplined, Bcheck, AddIndex, DelIndex, Alone
  <1> QED BY <1>1, <1>2, <1>3, <1>4, <1>5, <1>6 DEF Next

\* The indexes agree: what a file holds of a master no call is about comes from a
\* client without work on it, whose records it holds exactly.
LEMMA Agree ==
  ASSUME IInv
  PROVE  IndexesAgree
  <1>1. SUFFICES ASSUME NEW p \in DOMAIN Chain
                 PROVE  LET x == Chain[p] IN
                        {k \in file[x] : MasterKey(x, k)[1] \notin Changing} = {Rec(x, r) : r \in Settled}
    BY DEF IndexesAgree, IInv, ToSet
  <1> DEFINE x == Chain[p]
  <1>2. x \in Index
    BY ChainFacts
  <1>3. \A c \in Client : call[c].new.m \in Changing /\ call[c].old.m \in Changing
    BY DEF Changing
  <1>4. ASSUME NEW k \in file[x], MasterKey(x, k)[1] \notin Changing
        PROVE  k \in {Rec(x, r) : r \in Settled}
    <2>1. PICK q : k = Rec(x, q) /\ q.m \in Master
      BY <1>2, <1>4 DEF IInv, Shape
    <2>2. MasterKey(x, k)[1] = q.m
      BY <1>2, <2>1, Mastered
    <2>3. PICK c \in Client : q.m \in Own[c]
      BY <2>1 DEF Master
    <2>4. k \in Mine(file, c, x)
      BY <1>4, <2>2, <2>3 DEF Mine
    <2>5. k \in {Rec(x, r) : r \in Here(WantOf(want, c), call[c], p)}
      BY <2>4 DEF IInv, Exact
    <2>6. PICK r \in Here(WantOf(want, c), call[c], p) : k = Rec(x, r)
      BY <2>5
    <2>7. r.m = q.m
      BY <1>2, <2>1, <2>6, SameMaster
    <2>8. r # call[c].new
      BY <1>3, <1>4, <2>2, <2>7
    <2>9. r \in want
      BY <2>6, <2>8 DEF Here, Left, WantOf
    <2> QED BY <1>4, <2>2, <2>6, <2>7, <2>9 DEF Settled
  <1>5. ASSUME NEW r \in Settled
        PROVE  Rec(x, r) \in file[x] /\ MasterKey(x, Rec(x, r))[1] \notin Changing
    <2>1. r \in want /\ r.m \notin Changing /\ r.m \in Master
      BY DEF Settled, IInv
    <2>2. PICK c \in Client : r.m \in Own[c]
      BY <2>1 DEF Master
    <2>3. r \in Here(WantOf(want, c), call[c], p)
      BY <1>3, <2>1, <2>2 DEF Here, Left, WantOf
    <2>4. Rec(x, r) \in Mine(file, c, x)
      BY <2>3 DEF IInv, Exact
    <2>5. MasterKey(x, Rec(x, r))[1] = r.m
      BY <1>2, Mastered
    <2> QED BY <2>1, <2>4, <2>5 DEF Mine
  <1> HIDE DEF x
  <1>6. {k \in file[x] : MasterKey(x, k)[1] \notin Changing} = {Rec(x, r) : r \in Settled}
    BY <1>4, <1>5
  <1> QED BY <1>6 DEF x

\* isrewrite: where the old master record has gone the new one has come.
LEMMA Kept ==
  ASSUME IInv
  PROVE  RewriteKeepsRecord
  <1>1. SUFFICES ASSUME NEW c \in Client, call[c].op = "rewrite", call[c].old.m # 0
                 PROVE  Rec("m", call[c].old) \in file["m"] \/ Rec("m", call[c].new) \in file["m"]
    BY DEF RewriteKeepsRecord
  <1> DEFINE k == call[c]  w == WantOf(want, c)
  <1>2. CallOK(c, w, k) /\ Exact(c, file, w, k)
    BY DEF IInv
  <1>3. Works(k) /\ k.ph \in {"fetch", "new", "back", "old"}
    BY <1>1, <1>2 DEF Works, CallOK
  <1>4. k.ph # "fetch"
    <2>1. k.ph = "fetch" => k.old = NoRec
      BY <1>2, <1>3 DEF CallOK
    <2>2. NoRec.m = 0
      BY DEF NoRec
    <2> QED BY <2>1, <2>2, <1>1
  <1>5. k.old \in w
    BY <1>2, <1>3, <1>4 DEF CallOK
  <1>6. Gone(k, 1) => Come(k, 1)
    <2>1. Change(k, 1) \in {"key", "data", "same"}
      BY DEF Change, Cmprec
    <2> QED BY <2>1, <1>3 DEF Gone, Come
  <1>7. Come(k, 1) => Rec("m", k.new) \in file["m"]
    BY <1>2, Present, ChainFacts
  <1>8. ~Gone(k, 1) => Rec("m", k.old) \in file["m"]
    BY <1>2, <1>5, Present, ChainFacts
  <1> QED BY <1>6, <1>7, <1>8

\* However many clients change records of their own at once, over any list of
\* indexes, and wherever one of them may have ended: what no call is about is in the
\* master file and in every index, and nothing else is (iswrite, isrew, isdelete and
\* their undo loops).
THEOREM ClientsKeepIndexes ==
  ASSUME Disciplined
  PROVE  Spec => []IndexesAgree
  <1>1. Init => IInv
    BY InitInv
  <1>2. IInv /\ [Next]_vars => IInv'
    BY NextInv
  <1>3. IInv => IndexesAgree
    BY Agree
  <1> QED BY <1>1, <1>2, <1>3, PTL DEF Spec

\* The ids in the control file above, or not below, the one a call of isuniqueid is
\* at; such a call deletes an id only where there is a higher one.
Above(u, k) == \E i \in u : k.i < i
Level(u, k) == \E i \in u : k.i <= i
LowersOK(u, k) ==
  /\ k.ph \in {"last", "write"} => k.j = 0
  /\ k.ph = "write" => k.i \in 1..MaxNum
  /\ k.ph = "lower" => /\ k.i \in 1..MaxNum /\ k.j \in {0, 1}
                       /\ k.j = 1 => Above(u, k)
                       /\ k.j = 0 => Level(u, k)
\* The inductive invariant of the ids.
IdInv ==
  /\ uid \subseteq 1..MaxNum /\ ids \in Seq(1..MaxNum) /\ LastIdKept
  /\ \A c \in Client : call[c].op = "unique" => LowersOK(uid, call[c])

\* What a client that asks for no id leaves alone.
NoIds == UNCHANGED <<uid, ids>> /\ \A d \in Client : call'[d].op = "unique" => call'[d] = call[d]

\* A call that is none of isuniqueid leaves the ids and the calls for them alone:
LEMMA ToOther ==
  ASSUME IInv, NEW c \in Client, NEW l, UNCHANGED <<uid, ids>>, To(c, l), l.op # "unique"
  PROVE  NoIds
  BY DEF IInv, To, NoIds

\* at its end,
LEMMA EndOther ==
  ASSUME IInv, NEW c \in Client, UNCHANGED <<uid, ids>>, End(c)
  PROVE  NoIds
  <1>1. Idle.op # "unique"
    BY DEF Idle
  <1> QED BY <1>1, ToOther DEF End

\* from index to index,
LEMMA GoOther ==
  ASSUME IInv, NEW c \in Client, UNCHANGED <<uid, ids>>, NEW ph, NEW i, Go(c, ph, i), call[c].op # "unique"
  PROVE  NoIds
  <1> DEFINE l == [call[c] EXCEPT !.ph = ph, !.i = i]
  <1>1. To(c, l)
    BY DEF Go
  <1>2. IsCall(call[c])
    BY DEF IInv, CallOK
  <1>3. l.op = call[c].op
    BY <1>2 DEF IsCall
  <1> HIDE DEF l
  <1> QED BY <1>1, <1>3, ToOther

\* in isrew,
LEMMA RewritingOther ==
  ASSUME IInv, NEW c \in Client, UNCHANGED <<uid, ids>>, NEW o, NEW r, NEW keep, NEW sav,
         Rewriting(c, o, r, keep, sav)
  PROVE  NoIds
  <1> DEFINE to == [Idle EXCEPT !.op = "rewrite", !.keep = keep, !.sav = sav, !.new = r, !.old = o]
  <1>1. (\E j : To(c, [to EXCEPT !.ph = "new", !.i = j])) \/ (\E k : To(c, [to EXCEPT !.ph = "old", !.i = k]))
          \/ End(c)
    BY DEF Rewriting
  <1>2. to = [Idle EXCEPT !.op = "rewrite", !.keep = keep, !.sav = sav, !.new = r, !.old = o]
    OBVIOUS
  <1> HIDE DEF to
  <1>3. IsCall(to) /\ to.op = "rewrite"
    BY <1>2, NoWork DEF IsCall
  <1>4. ASSUME NEW ph, NEW j, To(c, [to EXCEPT !.ph = ph, !.i = j]) PROVE NoIds
    <2> DEFINE l == [to EXCEPT !.ph = ph, !.i = j]
    <2>1. To(c, l) /\ l.op = "rewrite"
      BY <1>3, <1>4 DEF IsCall
    <2> HIDE DEF l
    <2> QED BY <2>1, ToOther
  <1> QED BY <1>1, <1>4, EndOther

\* when it begins,
LEMMA CallsNoIds ==
  ASSUME IInv, NEW c \in Client,
         \/ CallWrite(c) \/ CallRewcurr(c) \/ CallRewrite(c) \/ CallRewrec(c)
         \/ CallDelcurr(c) \/ CallDelete(c) \/ CallDelrec(c)
  PROVE  NoIds
  <1>1. UNCHANGED <<uid, ids>>
    BY DEF CallWrite, CallRewcurr, CallRewrite, CallRewrec, CallDelcurr, CallDelete, CallDelrec
  <1>2. IsCall(Idle)
    BY NoWork
  <1>3. CASE CallWrite(c)
    <2>1. PICK ph, keep, new : To(c, [Idle EXCEPT !.op = "write", !.ph = ph, !.i = 1, !.keep = keep, !.new = new])
      BY <1>3 DEF CallWrite
    <2> DEFINE l == [Idle EXCEPT !.op = "write", !.ph = ph, !.i = 1, !.keep = keep, !.new = new]
    <2>2. To(c, l) /\ l.op = "write"
      BY <1>2, <2>1 DEF IsCall
    <2> HIDE DEF l
    <2> QED BY <1>1, <2>2, ToOther
  <1>4. CASE CallRewcurr(c)
    BY <1>1, <1>4, RewritingOther DEF CallRewcurr
  <1>5. CASE CallRewrite(c) \/ CallRewrec(c)
    <2>1. PICK sav, new : To(c, [Idle EXCEPT !.op = "rewrite", !.ph = "fetch", !.sav = sav, !.new = new])
      BY <1>5 DEF CallRewrite, CallRewrec
    <2> DEFINE l == [Idle EXCEPT !.op = "rewrite", !.ph = "fetch", !.sav = sav, !.new = new]
    <2>2. To(c, l) /\ l.op = "rewrite"
      BY <1>2, <2>1 DEF IsCall
    <2> HIDE DEF l
    <2> QED BY <1>1, <2>2, ToOther
  <1>6. ASSUME NEW k, NEW mst, Deleting(c, k, mst) PROVE NoIds
    <2> DEFINE l == [Idle EXCEPT !.op = "delete", !.i = 1, !.old = Unpack(k), !.new = Unpack(k)]
    <2>1. To(c, l) /\ l.op = "delete"
      BY <1>2, <1>6 DEF Deleting, IsCall
    <2> HIDE DEF l
    <2> QED BY <1>1, <2>1, ToOther
  <1>7. CASE CallDelcurr(c) \/ CallDelrec(c)
    BY <1>6, <1>7 DEF CallDelcurr, CallDelrec
  <1>8. CASE CallDelete(c)
    <2>1. UNCHANGED call \/ \E k, mst : Deleting(c, k, mst)
      BY <1>8 DEF CallDelete
    <2> QED BY <1>1, <1>6, <2>1 DEF NoIds
  <1> QED BY <1>3, <1>4, <1>5, <1>7, <1>8

\* and at each later request.
LEMMA StepsNoIds ==
  ASSUME IInv, NEW c \in Client,
         \/ WriteNumber(c) \/ WritePut(c) \/ WriteUnnumber(c) \/ WriteUndo(c)
         \/ RewriteFetch(c) \/ RewriteNew(c) \/ RewriteBack(c) \/ RewriteOld(c) \/ Delete(c)
         \/ Start(c) \/ Read(c) \/ ReadMaster(c) \/ Die(c)
  PROVE  NoIds
  <1> DEFINE k == call[c]
  <1>1. UNCHANGED <<uid, ids>>
    BY DEF WriteNumber, WritePut, WriteUnnumber, WriteUndo, RewriteFetch, RewriteNew, RewriteBack,
           RewriteOld, Delete, Start, Read, ReadMaster, Die
  <1>2. IsCall(Idle) /\ IsCall(k)
    BY NoWork DEF IInv, CallOK
  <1>3. UNCHANGED call => NoIds
    BY <1>1 DEF NoIds
  <1>4. ASSUME NEW new, NEW ph, NEW j, k.op # "unique",
               \/ To(c, [k EXCEPT !.new = new, !.ph = ph]) \/ To(c, [k EXCEPT !.ph = ph, !.j = j])
               \/ To(c, [k EXCEPT !.j = j]) \/ To(c, [k EXCEPT !.op = "dead"])
        PROVE  NoIds
    <2> DEFINE l1 == [k EXCEPT !.new = new, !.ph = ph]  l2 == [k EXCEPT !.ph = ph, !.j = j]
               l3 == [k EXCEPT !.j = j]  l4 == [k EXCEPT !.op = "dead"]
    <2>1. l1.op = k.op /\ l2.op = k.op /\ l3.op = k.op /\ l4.op = "dead"
      BY <1>2 DEF IsCall
    <2>2. To(c, l1) \/ To(c, l2) \/ To(c, l3) \/ To(c, l4)
      BY <1>4
    <2> HIDE DEF l1, l2, l3, l4
    <2> QED BY <1>1, <1>4, <2>1, <2>2, ToOther
  <1>5. CASE WriteNumber(c)
    <2>1. UNCHANGED call \/ \E new : To(c, [k EXCEPT !.new = new, !.ph = "put"])
      BY <1>5 DEF WriteNumber
    <2>2. k.op # "unique"
      BY <1>5 DEF WriteNumber, At
    <2> QED BY <2>1, <2>2, <1>3, <1>4
  <1>6. CASE WritePut(c)
    <2>1. \/ \E j : Go(c, "put", j)
          \/ End(c)
          \/ \E ph : To(c, [k EXCEPT !.ph = ph, !.j = 2])
      BY <1>6 DEF WritePut
    <2>2. k.op # "unique"
      BY <1>6 DEF WritePut, At
    <2> QED BY <2>1, <2>2, <1>1, <1>4, EndOther, GoOther
  <1>7. CASE WriteUnnumber(c)
    <2>1. Go(c, "undo", k.i) \/ End(c)
      BY <1>7 DEF WriteUnnumber
    <2>2. k.op # "unique"
      BY <1>7 DEF WriteUnnumber, At
    <2> QED BY <2>1, <2>2, <1>1, EndOther, GoOther
  <1>8. CASE WriteUndo(c)
    <2>1. To(c, [k EXCEPT !.j = k.j + 1]) \/ End(c)
      BY <1>8 DEF WriteUndo
    <2>2. k.op # "unique"
      BY <1>8 DEF WriteUndo, At
    <2> QED BY <2>1, <2>2, <1>1, <1>4, EndOther
  <1>9. CASE RewriteFetch(c)
    <2>1. End(c) \/ \E o, r : Rewriting(c, o, r, FALSE, k.sav)
      BY <1>9 DEF RewriteFetch
    <2> QED BY <2>1, <1>1, EndOther, RewritingOther
  <1>10. CASE RewriteNew(c)
    <2>1. \/ \E ph, j : Go(c, ph, j)
          \/ End(c)
          \/ \E b : To(c, [k EXCEPT !.ph = "back", !.j = b])
      BY <1>10 DEF RewriteNew, Rewritten
    <2>2. k.op # "unique"
      BY <1>10 DEF RewriteNew, At
    <2> QED BY <2>1, <2>2, <1>1, <1>4, EndOther, GoOther
  <1>11. CASE RewriteBack(c)
    <2>1. End(c) \/ \E j : To(c, [k EXCEPT !.j = j])
      BY <1>11 DEF RewriteBack, Rewritten
    <2>2. k.op # "unique"
      BY <1>11 DEF RewriteBack, At
    <2> QED BY <2>1, <2>2, <1>1, <1>4, EndOther
  <1>12. CASE RewriteOld(c)
    <2>1. End(c) \/ \E j : Go(c, "old", j)
      BY <1>12 DEF RewriteOld, Rewritten
    <2>2. k.op # "unique"
      BY <1>12 DEF RewriteOld, At
    <2> QED BY <2>1, <2>2, <1>1, EndOther, GoOther
  <1>13. CASE Delete(c)
    <2>1. End(c) \/ Go(c, "", k.i + 1)
      BY <1>13 DEF Delete
    <2>2. k.op # "unique"
      BY <1>13 DEF Delete
    <2> QED BY <2>1, <2>2, <1>1, EndOther, GoOther
  <1>14. CASE Start(c)
    BY <1>3, <1>14 DEF Start
  <1>15. ASSUME NEW ph, To(c, [Idle EXCEPT !.op = "read", !.ph = ph]) PROVE NoIds
    <2> DEFINE l == [Idle EXCEPT !.op = "read", !.ph = ph]
    <2>1. To(c, l) /\ l.op = "read"
      BY <1>2, <1>15 DEF IsCall
    <2> HIDE DEF l
    <2> QED BY <1>1, <2>1, ToOther
  <1>16. ASSUME NEW mode, NEW op, NEW q, KeyRead(c, mode, op, q) PROVE NoIds
    <2>1. End(c) \/ To(c, [Idle EXCEPT !.op = "read", !.ph = mode])
      BY <1>16 DEF KeyRead
    <2> QED BY <2>1, <1>1, <1>15, EndOther
  <1>17. CASE Read(c)
    <2>1. To(c, [Idle EXCEPT !.op = "read", !.ph = "CURR"]) \/ \E mode, op, q : KeyRead(c, mode, op, q)
      BY <1>17 DEF Read
    <2> QED BY <2>1, <1>15, <1>16
  <1>18. CASE ReadMaster(c)
    <2>1. End(c) \/ \E mode, op, q : KeyRead(c, mode, op, q)
      BY <1>18 DEF ReadMaster
    <2> QED BY <2>1, <1>1, <1>16, EndOther
  <1>19. CASE Die(c)
    <2>1. To(c, [k EXCEPT !.op = "dead"]) /\ k.op # "unique"
      BY <1>19 DEF Die
    <2> QED BY <2>1, <1>4
  <1> QED BY <1>5, <1>6, <1>7, <1>8, <1>9, <1>10, <1>11, <1>12, <1>13, <1>14, <1>17, <1>18, <1>19

\* Such a step keeps the ids.
LEMMA KeepIds ==
  ASSUME IdInv, NoIds
  PROVE  IdInv'
  BY DEF IdInv, NoIds, LastIdKept

\* One call changes, and the ids.
LEMMA OneAsks ==
  ASSUME IInv, NEW c \in Client, NEW l, To(c, l), uid' \subseteq 1..MaxNum, ids' \in Seq(1..MaxNum),
         LastIdKept', l.op = "unique" => LowersOK(uid', l),
         \A d \in Client \ {c} : call[d].op = "unique" => LowersOK(uid', call[d])
  PROVE  IdInv'
  <1>1. \A d \in Client : call'[d] = IF d = c THEN l ELSE call[d]
    BY DEF IInv, To
  <1> QED BY <1>1 DEF IdInv

\* isuniqueid reads the last id.
LEMMA LastAsks ==
  ASSUME IInv, IdInv, NEW c \in Client, CallUnique(c) \/ UniqueLast(c)
  PROVE  IdInv'
  <1>1. UNCHANGED <<uid, ids>>
    BY DEF CallUnique, UniqueLast
  <1>2. /\ uid' \subseteq 1..MaxNum /\ ids' \in Seq(1..MaxNum) /\ LastIdKept'
        /\ \A d \in Client \ {c} : call[d].op = "unique" => LowersOK(uid', call[d])
    BY <1>1 DEF IdInv, LastIdKept
  <1>3. IsCall(call[c]) /\ IsCall(Idle)
    BY NoWork DEF IInv, CallOK
  <1>4. CASE CallUnique(c)
    <2> DEFINE l == [Idle EXCEPT !.op = "unique", !.ph = "last"]
    <2>1. To(c, l)
      BY <1>4 DEF CallUnique
    <2>2. l.ph = "last" /\ l.j = 0
      BY DEF Idle
    <2> HIDE DEF l
    <2>3. LowersOK(uid', l)
      BY <2>2 DEF LowersOK
    <2> QED BY <2>1, <2>3, <1>2, OneAsks
  <1>5. CASE UniqueLast(c)
    <2> DEFINE m == Max({0} \cup uid)  l == [call[c] EXCEPT !.ph = "write", !.i = m + 1]
    <2>1. To(c, l) /\ m < MaxNum /\ call[c].op = "unique" /\ call[c].ph = "last"
      BY <1>5 DEF UniqueLast, At, Go
    <2>2. {0} \cup uid \in SUBSET (0..MaxNum) /\ {0} \cup uid # {}
      BY NumAssumption DEF IdInv
    <2>3. m \in 0..MaxNum
      BY <2>2, NumAssumption, Greatest
    <2> HIDE DEF m
    <2>4. m + 1 \in 1..MaxNum
      BY <2>1, <2>3, NumAssumption
    <2>5. l.ph = "write" /\ l.i = m + 1 /\ l.j = call[c].j
      BY <1>3 DEF IsCall
    <2> HIDE DEF l
    <2>6. call[c].j = 0
      BY <2>1 DEF IdInv, LowersOK
    <2>7. LowersOK(uid', l)
      BY <2>4, <2>5, <2>6 DEF LowersOK
    <2> QED BY <2>1, <2>7, <1>2, OneAsks
  <1> QED BY <1>4, <1>5

\* isuniqueid writes the next one.
LEMMA WriteAsks ==
  ASSUME IInv, IdInv, NEW c \in Client, UniqueWrite(c)
  PROVE  IdInv'
  <1> DEFINE k == call[c]  i == k.i
  <1>1. /\ IsCall(k) /\ k.op = "unique" /\ k.ph = "write" /\ k.j = 0 /\ i \in 1..MaxNum
    BY DEF IInv, CallOK, UniqueWrite, At, IdInv, LowersOK
  <1>2. CASE i \in uid /\ Go(c, "last", 0) /\ UNCHANGED <<uid, ids>>
    <2> DEFINE l == [k EXCEPT !.ph = "last", !.i = 0]
    <2>1. To(c, l)
      BY <1>2 DEF Go
    <2>2. l.ph = "last" /\ l.j = 0
      BY <1>1 DEF IsCall
    <2> HIDE DEF l
    <2>3. LowersOK(uid', l)
      BY <2>2 DEF LowersOK
    <2>4. /\ uid' \subseteq 1..MaxNum /\ ids' \in Seq(1..MaxNum) /\ LastIdKept'
          /\ \A d \in Client \ {c} : call[d].op = "unique" => LowersOK(uid', call[d])
      BY <1>2 DEF IdInv, LastIdKept
    <2> QED BY <2>1, <2>3, <2>4, OneAsks
  <1>3. CASE i \notin uid /\ Go(c, "lower", i) /\ uid' = uid \union {i} /\ ids' = Append(ids, i)
    <2> DEFINE l == [k EXCEPT !.ph = "lower", !.i = i]
    <2>1. To(c, l)
      BY <1>3 DEF Go
    <2>2. l.ph = "lower" /\ l.i = i /\ l.j = 0
      BY <1>1 DEF IsCall
    <2> HIDE DEF l
    <2>3. i <= i
      BY <1>1
    <2>4. LowersOK(uid', l)
      BY <2>2, <2>3, <1>1, <1>3 DEF LowersOK, Level
    <2>5. uid' \subseteq 1..MaxNum /\ ids' \in Seq(1..MaxNum)
      <3> DEFINE X == 1..MaxNum
      <3>1. i \in X /\ uid \subseteq X /\ ids \in Seq(X)
        BY <1>1 DEF IdInv
      <3> HIDE DEF X
      <3>2. uid' \subseteq X /\ ids' \in Seq(X)
        BY <3>1, <1>3
      <3> QED BY <3>2 DEF X
    <2>6. \A d \in Client \ {c} : call[d].op = "unique" => LowersOK(uid', call[d])
      <3>1. \A d : (Above(uid, call[d]) => Above(uid', call[d])) /\ (Level(uid, call[d]) => Level(uid', call[d]))
        BY <1>3 DEF Above, Level
      <3> QED BY <3>1 DEF IdInv, LowersOK
    <2>7. ASSUME NEW n \in DOMAIN ids' PROVE \E u \in uid' : ids'[n] <= u
      <3>1. ids \in Seq(1..MaxNum) /\ DOMAIN ids' = 1..(Len(ids) + 1) /\ DOMAIN ids = 1..Len(ids)
        BY <1>1, <1>3 DEF IdInv
      <3>2. CASE n \in DOMAIN ids
        <4>1. ids'[n] = ids[n]
          BY <3>1, <3>2, <1>1, <1>3
        <4> QED BY <4>1, <3>2, <1>3 DEF IdInv, LastIdKept
      <3>3. CASE n = Len(ids) + 1
        <4>1. ids'[n] = i
          BY <3>1, <3>3, <1>1, <1>3
        <4> QED BY <4>1, <2>3, <1>3
      <3> QED BY <3>1, <3>2, <3>3
    <2>8. LastIdKept'
      BY <2>7 DEF LastIdKept
    <2> QED BY <2>1, <2>4, <2>5, <2>6, <2>8, OneAsks
  <1> QED BY <1>2, <1>3 DEF UniqueWrite

\* isuniqueid deletes the lower ones: never the highest.
LEMMA LowerAsks ==
  ASSUME IInv, IdInv, NEW c \in Client, UniqueLower(c)
  PROVE  IdInv'
  <1> DEFINE k == call[c]  low == {i \in uid : i < k.i}
  <1>1. /\ IsCall(k) /\ k.op = "unique" /\ k.ph = "lower" /\ k.i \in 1..MaxNum
        /\ uid \subseteq 1..MaxNum /\ ids \in Seq(1..MaxNum) /\ ids' = ids
    BY DEF IInv, CallOK, UniqueLower, At, IdInv, LowersOK
  <1>2. Idle.op # "unique"
    BY DEF Idle
  <1>3. CASE k.j = 1 /\ uid' = uid \ {k.i} /\ (IF k.i \in uid THEN To(c, [k EXCEPT !.j = 0]) ELSE End(c))
    <2> DEFINE l == [k EXCEPT !.j = 0]
    <2>1. PICK v \in uid : k.i < v
      BY <1>1, <1>3 DEF IdInv, LowersOK, Above
    <2>2. v \in uid' /\ v \in Int /\ k.i \in Int
      BY <2>1, <1>1, <1>3
    <2>3. ASSUME NEW a \in Int, NEW u \in uid, a <= u PROVE \E t \in uid' : a <= t
      BY <2>1, <2>2, <2>3, <1>1, <1>3
    <2>4. ASSUME NEW a \in Int, NEW u \in uid, a < u PROVE \E t \in uid' : a < t
      BY <2>1, <2>2, <2>4, <1>1, <1>3
    <2>5. LastIdKept'
      <3>1. \A n \in DOMAIN ids : ids[n] \in Int
        <4> DEFINE X == 1..MaxNum
        <4>1. ids \in Seq(X) /\ X \subseteq Int
          BY <1>1, NumAssumption
        <4> HIDE DEF X
        <4>2. \A n \in DOMAIN ids : ids[n] \in X
          BY <4>1, ElementOfSeq, LenProperties
        <4> QED BY <4>1, <4>2
      <3> QED BY <3>1, <2>3, <1>1 DEF IdInv, LastIdKept
    <2>6. \A d \in Client \ {c} : call[d].op = "unique" => LowersOK(uid', call[d])
      BY <2>3, <2>4 DEF IdInv, LowersOK, Above, Level
    <2>7. l.ph = "lower" /\ l.i = k.i /\ l.j = 0
      BY <1>1 DEF IsCall
    <2> HIDE DEF l
    <2>8. LowersOK(uid', l)
      <3>1. k.i <= v
        BY <2>1, <2>2
      <3> QED BY <3>1, <2>2, <2>7, <1>1 DEF LowersOK, Level
    <2>9. To(c, l) \/ To(c, Idle)
      BY <1>3 DEF End, l
    <2> QED BY <2>5, <2>6, <2>8, <2>9, <1>1, <1>2, <1>3, OneAsks
  <1>4. CASE k.j = 0 /\ uid' = uid /\ (IF low = {} THEN End(c) ELSE To(c, [k EXCEPT !.i = Max(low), !.j = 1]))
    <2>1. LastIdKept' /\ \A d \in Client \ {c} : call[d].op = "unique" => LowersOK(uid', call[d])
      BY <1>1, <1>4 DEF IdInv, LastIdKept
    <2>2. CASE End(c)
      BY <2>1, <2>2, <1>1, <1>2, <1>4, OneAsks DEF End
    <2>3. CASE low # {} /\ To(c, [k EXCEPT !.i = Max(low), !.j = 1])
      <3> DEFINE m == Max(low)  l == [k EXCEPT !.i = m, !.j = 1]
      <3>1. low \in SUBSET (0..MaxNum)
        <4>1. \A n \in 1..MaxNum : n \in 0..MaxNum
          BY NumAssumption
        <4> QED BY <4>1, <1>1
      <3>2. m \in low
        BY <3>1, <2>3, NumAssumption, Greatest
      <3>3. m \in uid /\ m < k.i /\ m \in 1..MaxNum
        BY <3>2, <1>1
      <3>4. To(c, l)
        BY <2>3
      <3> HIDE DEF m
      <3>5. l.ph = "lower" /\ l.i = m /\ l.j = 1
        BY <1>1 DEF IsCall
      <3> HIDE DEF l
      <3>6. PICK v \in uid : k.i <= v
        BY <1>1, <1>4 DEF IdInv, LowersOK, Level
      <3>7. m < v
        BY <3>3, <3>6, <1>1
      <3>8. LowersOK(uid', l)
        BY <3>3, <3>5, <3>7, <1>4 DEF LowersOK, Above
      <3> QED BY <3>4, <3>8, <2>1, <1>1, <1>4, OneAsks
    <2> QED BY <2>2, <2>3, <1>4
  <1> QED BY <1>3, <1>4 DEF UniqueLower

\* The invariant of the ids holds at the start, and every step keeps it.
LEMMA InitIds ==
  ASSUME Init
  PROVE  IdInv
  <1>1. uid = {} /\ ids = <<>> /\ \A c \in Client : call[c] = Idle
    BY DEF Init
  <1>2. Idle.op # "unique"
    BY DEF Idle
  <1>3. ids \in Seq(1..MaxNum) /\ DOMAIN ids = {}
    BY <1>1
  <1>4. LastIdKept
    BY <1>3 DEF LastIdKept
  <1> QED BY <1>1, <1>2, <1>3, <1>4 DEF IdInv

LEMMA NextIds ==
  ASSUME Disciplined, IInv, IdInv, [Next]_vars
  PROVE  IdInv'
  <1>1. CASE UNCHANGED vars
    BY <1>1 DEF vars, IdInv, LastIdKept
  <1>2. ASSUME NEW c \in Client,
               \/ CallWrite(c) \/ CallRewcurr(c) \/ CallRewrite(c) \/ CallRewrec(c)
               \/ CallDelcurr(c) \/ CallDelete(c) \/ CallDelrec(c)
        PROVE  IdInv'
    BY <1>2, CallsNoIds, KeepIds
  <1>3. ASSUME NEW c \in Client,
               \/ WriteNumber(c) \/ WritePut(c) \/ WriteUnnumber(c) \/ WriteUndo(c)
               \/ RewriteFetch(c) \/ RewriteNew(c) \/ RewriteBack(c) \/ RewriteOld(c) \/ Delete(c)
               \/ Start(c) \/ Read(c) \/ ReadMaster(c) \/ Die(c)
        PROVE  IdInv'
    BY <1>3, StepsNoIds, KeepIds
  <1>4. ASSUME NEW c \in Client, CallUnique(c) \/ UniqueLast(c) \/ UniqueWrite(c) \/ UniqueLower(c)
        PROVE  IdInv'
    BY <1>4, LastAsks, WriteAsks, LowerAsks
  <1>5. ~Bcheck /\ \A x : ~AddIndex(x) /\ ~DelIndex(x)
    BY DEF Disciplined, Bcheck, AddIndex, DelIndex, Alone
  <1> QED BY <1>1, <1>2, <1>3, <1>4, <1>5 DEF Next

\* At every request of every client a record that isrewrite replaces is in the
\* master file, as it was or as it is to be, and the last id handed out, or one above
\* it, is in the control file (isrew, isuniqueid).
THEOREM ReplacedStays ==
  ASSUME Disciplined
  PROVE  Spec => []ReplacedKept
  <1>1. Init => IInv /\ IdInv
    BY InitInv, InitIds
  <1>2. IInv /\ IdInv /\ [Next]_vars => (IInv /\ IdInv)'
    BY NextInv, NextIds
  <1>3. IInv /\ IdInv => ReplacedKept
    BY Kept DEF IdInv, ReplacedKept
  <1> QED BY <1>1, <1>2, <1>3, PTL DEF Spec
-----------------------------------------------------------------------------
\* Scans.  The order of the records of a file is that of the numbers in them.
Numbered == S \subseteq Int /\ D \subseteq Int /\ Master \subseteq Int
Z == [m : Int, s : Int, d : Int, n : Int]

\* The unique key of p comes before that of q in the file of x; k is where a client
\* stands at p: at the record, or at its key where the rest is lost.
Before(x, p, q)   == Below(Key(x, p), Key(x, q))
Standing(x, k, p) == k = Rec(x, p) \/ k = Key(x, p)

\* The order of keys and records of two fields at most, and of a whole record.
LEMMA Order ==
  ASSUME NEW a \in Int, NEW b \in Int, NEW u \in Int, NEW v \in Int
  PROVE  /\ Below(<<a>>, <<u>>) <=> a < u
         /\ Below(<<a, b>>, <<u, v>>) <=> a < u \/ (a = u /\ b < v)
         /\ a < u => Below(<<a>>, <<u, v>>)
         /\ a # u => (Below(<<a, b>>, <<u, v>>) <=> a < u)
         /\ \A s, t : a < u => Below(<<a>>, <<u, v, s, t>>)
         /\ \A s, t, y, z : a # u => (Below(<<a, b, y, z>>, <<u, v, s, t>>) <=> a < u)
  <1>1. Below(<<a>>, <<u>>) <=> a < u
    BY DEF Below
  <1>2. Below(<<a, b>>, <<u, v>>) <=> a < u \/ (a = u /\ b < v)
    <2> DEFINE k == <<a, b>>  l == <<u, v>>
    <2>1. /\ DOMAIN k \cap DOMAIN l = {1, 2} /\ k[1] = a /\ k[2] = b /\ l[1] = u /\ l[2] = v
          /\ 1..(1 - 1) = {} /\ 1..(2 - 1) = {1}
      OBVIOUS
    <2> HIDE DEF k, l
    <2>2. Below(k, l) <=> \/ k[1] < l[1] /\ \A j \in 1..(1 - 1) : k[j] = l[j]
                          \/ k[2] < l[2] /\ \A j \in 1..(2 - 1) : k[j] = l[j]
      BY <2>1 DEF Below
    <2>3. Below(k, l) <=> k[1] < l[1] \/ (k[2] < l[2] /\ k[1] = l[1])
      BY <2>1, <2>2
    <2> QED BY <2>1, <2>3 DEF k, l
  <1>3. ASSUME NEW k, NEW l, 1 \in DOMAIN k, 1 \in DOMAIN l, k[1] < l[1]
        PROVE  Below(k, l)
    BY <1>3 DEF Below
  <1>4. ASSUME NEW k, NEW l, NEW n \in Nat, DOMAIN k = 1..n, k[1] # l[1], k[1] \in Int, l[1] \in Int,
               Below(k, l)
        PROVE  k[1] < l[1]
    <2>1. PICK i \in DOMAIN k \cap DOMAIN l : k[i] < l[i] /\ \A j \in 1..(i - 1) : k[j] = l[j]
      BY <1>4 DEF Below
    <2>2. i \in Int /\ 1 <= i
      BY <1>4, <2>1
    <2>3. CASE i = 1
      BY <2>1, <2>3
    <2>4. CASE i # 1
      <3>1. 1 \in 1..(i - 1)
        BY <2>2, <2>4
      <3> QED BY <3>1, <2>1, <1>4
    <2> QED BY <2>3, <2>4
  <1>5. a < u => Below(<<a>>, <<u, v>>)
    <2>1. 1 \in DOMAIN <<a>> /\ 1 \in DOMAIN <<u, v>> /\ <<a>>[1] = a /\ <<u, v>>[1] = u
      OBVIOUS
    <2> QED BY <2>1, <1>3
  <1>6. ASSUME NEW s, NEW t PROVE a < u => Below(<<a>>, <<u, v, s, t>>)
    <2>1. 1 \in DOMAIN <<a>> /\ 1 \in DOMAIN <<u, v, s, t>> /\ <<a>>[1] = a /\ <<u, v, s, t>>[1] = u
      OBVIOUS
    <2> QED BY <2>1, <1>3
  <1>7. a # u => (Below(<<a, b>>, <<u, v>>) <=> a < u)
    BY <1>2
  <1>8. ASSUME NEW s, NEW t, NEW y, NEW z
        PROVE  a # u => (Below(<<a, b, y, z>>, <<u, v, s, t>>) <=> a < u)
    <2> DEFINE k == <<a, b, y, z>>  l == <<u, v, s, t>>
    <2>1. /\ DOMAIN k = 1..4 /\ 4 \in Nat /\ k[1] = a /\ l[1] = u /\ 1 \in DOMAIN k /\ 1 \in DOMAIN l
      OBVIOUS
    <2> HIDE DEF k, l
    <2>2. a # u /\ Below(k, l) => a < u
      BY <2>1, <1>4
    <2>3. a < u => Below(k, l)
      BY <2>1, <1>3
    <2> QED BY <2>2, <2>3 DEF k, l
  <1> QED BY <1>1, <1>2, <1>5, <1>6, <1>7, <1>8

\* Before is the order of the numbers in the keys.
LEMMA Befores ==
  ASSUME NEW p \in Z, NEW q \in Z
  PROVE  /\ Before("m", p, q) <=> p.m < q.m
         /\ Before("s", p, q) <=> p.s < q.s
         /\ Before("d", p, q) <=> p.d < q.d \/ (p.d = q.d /\ p.m < q.m)
         /\ Before("n", p, q) <=> p.n < q.n
  <1>1. /\ p.m \in Int /\ p.s \in Int /\ p.d \in Int /\ p.n \in Int
        /\ q.m \in Int /\ q.s \in Int /\ q.d \in Int /\ q.n \in Int
    BY DEF Z
  <1>2. /\ Key("m", p) = <<p.m>> /\ Key("s", p) = <<p.s>> /\ Key("d", p) = <<p.d, p.m>> /\ Key("n", p) = <<p.n>>
        /\ Key("m", q) = <<q.m>> /\ Key("s", q) = <<q.s>> /\ Key("d", q) = <<q.d, q.m>> /\ Key("n", q) = <<q.n>>
    BY Keys
  <1>3. Below(<<p.m>>, <<q.m>>) <=> p.m < q.m
    BY <1>1, Order
  <1>4. Below(<<p.s>>, <<q.s>>) <=> p.s < q.s
    BY <1>1, Order
  <1>5. Below(<<p.n>>, <<q.n>>) <=> p.n < q.n
    BY <1>1, Order
  <1>6. Below(<<p.d, p.m>>, <<q.d, q.m>>) <=> p.d < q.d \/ (p.d = q.d /\ p.m < q.m)
    BY <1>1, Order
  <1> QED BY <1>2, <1>3, <1>4, <1>5, <1>6 DEF Before

\* The order of the keys is that of numbers, and that of the records.
LEMMA Ordered ==
  ASSUME NEW x \in Index, NEW p \in Z, NEW q \in Z
  PROVE  /\ ~(Before(x, p, q) /\ Before(x, q, p))
         /\ Key(x, p) # Key(x, q) => Before(x, p, q) \/ Before(x, q, p)
         /\ Key(x, p) # Key(x, q) => (Below(Rec(x, p), Rec(x, q)) <=> Before(x, p, q))
         /\ Before(x, p, q) => Below(Key(x, p), Rec(x, q)) /\ Key(x, p) # Key(x, q)
  <1>1. /\ p.m \in Int /\ p.s \in Int /\ p.d \in Int /\ p.n \in Int
        /\ q.m \in Int /\ q.s \in Int /\ q.d \in Int /\ q.n \in Int
    BY DEF Z
  <1>2. /\ Rec("m", p) = <<p.m, p.s, p.d, p.n>> /\ Rec("s", p) = <<p.s, p.m>>
        /\ Rec("d", p) = <<p.d, p.m>> /\ Rec("n", p) = <<p.n, p.m>>
        /\ Rec("m", q) = <<q.m, q.s, q.d, q.n>> /\ Rec("s", q) = <<q.s, q.m>>
        /\ Rec("d", q) = <<q.d, q.m>> /\ Rec("n", q) = <<q.n, q.m>>
    BY Recs
  <1>3. /\ Key("m", p) = <<p.m>> /\ Key("s", p) = <<p.s>> /\ Key("d", p) = <<p.d, p.m>> /\ Key("n", p) = <<p.n>>
        /\ Key("m", q) = <<q.m>> /\ Key("s", q) = <<q.s>> /\ Key("d", q) = <<q.d, q.m>> /\ Key("n", q) = <<q.n>>
    BY Keys
  <1>4. \A P, Q \in Z : /\ Before("m", P, Q) <=> P.m < Q.m
                        /\ Before("s", P, Q) <=> P.s < Q.s
                        /\ Before("d", P, Q) <=> P.d < Q.d \/ (P.d = Q.d /\ P.m < Q.m)
                        /\ Before("n", P, Q) <=> P.n < Q.n
    BY Befores
  <1>5. CASE x = "m"
    <2>1. p.m # q.m => (Below(<<p.m, p.s, p.d, p.n>>, <<q.m, q.s, q.d, q.n>>) <=> p.m < q.m)
      BY <1>1, Order
    <2>2. p.m < q.m => Below(<<p.m>>, <<q.m, q.s, q.d, q.n>>)
      BY <1>1, Order
    <2>3. <<p.m>> = <<q.m>> <=> p.m = q.m
      OBVIOUS
    <2> QED BY <2>1, <2>2, <2>3, <1>1, <1>2, <1>3, <1>4, <1>5
  <1>6. CASE x = "s"
    <2>1. p.s # q.s => (Below(<<p.s, p.m>>, <<q.s, q.m>>) <=> p.s < q.s)
      BY <1>1, Order
    <2>2. p.s < q.s => Below(<<p.s>>, <<q.s, q.m>>)
      BY <1>1, Order
    <2>3. <<p.s>> = <<q.s>> <=> p.s = q.s
      OBVIOUS
    <2> QED BY <2>1, <2>2, <2>3, <1>1, <1>2, <1>3, <1>4, <1>6
  <1>7. CASE x = "n"
    <2>1. p.n # q.n => (Below(<<p.n, p.m>>, <<q.n, q.m>>) <=> p.n < q.n)
      BY <1>1, Order
    <2>2. p.n < q.n => Below(<<p.n>>, <<q.n, q.m>>)
      BY <1>1, Order
    <2>3. <<p.n>> = <<q.n>> <=> p.n = q.n
      OBVIOUS
    <2> QED BY <2>1, <2>2, <2>3, <1>1, <1>2, <1>3, <1>4, <1>7
  <1>8. CASE x = "d"
    <2>1. Below(<<p.d, p.m>>, <<q.d, q.m>>) <=> p.d < q.d \/ (p.d = q.d /\ p.m < q.m)
      BY <1>1, Order
    <2>2. <<p.d, p.m>> = <<q.d, q.m>> <=> p.d = q.d /\ p.m = q.m
      OBVIOUS
    <2> QED BY <2>1, <2>2, <1>1, <1>2, <1>3, <1>4, <1>8
  <1> QED BY <1>5, <1>6, <1>7, <1>8 DEF Index

\* What comes before something comes before all that follow it.
LEMMA Chained ==
  ASSUME NEW x \in Index, NEW p \in Z, NEW q \in Z, NEW r \in Z, Before(x, p, q), Before(x, q, r)
  PROVE  Before(x, p, r)
  <1>4. \A P, Q \in Z : /\ Before("m", P, Q) <=> P.m < Q.m
                        /\ Before("s", P, Q) <=> P.s < Q.s
                        /\ Before("d", P, Q) <=> P.d < Q.d \/ (P.d = Q.d /\ P.m < Q.m)
                        /\ Before("n", P, Q) <=> P.n < Q.n
    BY Befores
  <1> QED BY <1>4 DEF Z, Index

\* A finite set that is ordered has a first element.
LEMMA First ==
  ASSUME NEW R, IsFiniteSet(R), R # {}, NEW T,
         \A a \in R : <<a, a>> \notin T,
         \A a, b \in R : a # b => <<a, b>> \in T \/ <<b, a>> \in T,
         \A a, b, e \in R : <<a, b>> \in T /\ <<b, e>> \in T => <<a, e>> \in T
  PROVE  \E a \in R : \A b \in R \ {a} : <<a, b>> \in T
  <1> DEFINE L(a) == {b \in R : <<b, a>> \in T}
             J == {Cardinality(L(a)) : a \in R}
  <1>1. \A a \in R : IsFiniteSet(L(a)) /\ Cardinality(L(a)) \in Nat
    BY FS_Subset, FS_CardinalityType
  <1>2. J \in SUBSET Nat /\ J # {}
    <2>1. PICK a : a \in R
      OBVIOUS
    <2>2. Cardinality(L(a)) \in J
      BY <2>1
    <2>3. ASSUME NEW n \in J PROVE n \in Nat
      <3>1. PICK b \in R : n = Cardinality(L(b))
        OBVIOUS
      <3> QED BY <3>1, <1>1
    <2> HIDE DEF J, L
    <2> QED BY <2>2, <2>3
  <1>3. PICK j \in J : \A k \in J : j <= k
    BY <1>2, Least
  <1>4. PICK a \in R : j = Cardinality(L(a))
    BY <1>3
  <1>5. ASSUME NEW b \in R \ {a}, <<a, b>> \notin T PROVE FALSE
    <2>1. <<b, a>> \in T
      BY <1>5
    <2>2. L(b) \in SUBSET L(a) /\ b \in L(a) /\ b \notin L(b)
      BY <2>1
    <2>3. IsFiniteSet(L(a)) /\ IsFiniteSet(L(b)) /\ Cardinality(L(a)) \in Nat /\ Cardinality(L(b)) \in Nat
      BY <1>1
    <2>4. Cardinality(L(a)) <= Cardinality(L(b))
      <3>1. Cardinality(L(b)) \in J
        OBVIOUS
      <3> HIDE DEF J, L
      <3> QED BY <3>1, <1>3, <1>4
    <2> HIDE DEF L
    <2>5. Cardinality(L(b)) <= Cardinality(L(a)) /\ (Cardinality(L(a)) = Cardinality(L(b)) => L(a) = L(b))
      BY <2>2, <2>3, FS_Subset
    <2> QED BY <2>2, <2>3, <2>4, <2>5
  <1> QED BY <1>5

\* The records of users with numbers in them, no two with the same unique key.
Numbers(R, x) ==
  /\ IsFiniteSet(R) /\ \A k \in R : \E r \in Z : k = Rec(x, r)
  /\ \A k, l \in R : Prefix(k, Klen[x]) = Prefix(l, Klen[x]) => k = l

\* No record comes before itself.
LEMMA Irreflexive ==
  ASSUME NEW x \in Index, NEW p \in Z
  PROVE  ~Below(Rec(x, p), Rec(x, p))
  <1>1. p.m \in Int /\ p.s \in Int /\ p.d \in Int /\ p.n \in Int
    BY DEF Z
  <1>2. /\ Rec("m", p) = <<p.m, p.s, p.d, p.n>> /\ Rec("s", p) = <<p.s, p.m>>
        /\ Rec("d", p) = <<p.d, p.m>> /\ Rec("n", p) = <<p.n, p.m>>
    BY Recs
  <1>3. /\ \A i \in DOMAIN <<p.m, p.s, p.d, p.n>> : <<p.m, p.s, p.d, p.n>>[i] \in Int
        /\ \A i \in DOMAIN <<p.s, p.m>> : <<p.s, p.m>>[i] \in Int
        /\ \A i \in DOMAIN <<p.d, p.m>> : <<p.d, p.m>>[i] \in Int
        /\ \A i \in DOMAIN <<p.n, p.m>> : <<p.n, p.m>>[i] \in Int
    BY <1>1
  <1>4. \A i \in DOMAIN Rec(x, p) : Rec(x, p)[i] \in Int
    BY <1>2, <1>3 DEF Index
  <1>5. \A i \in DOMAIN Rec(x, p) : ~(Rec(x, p)[i] < Rec(x, p)[i])
    BY <1>4
  <1> QED BY <1>5 DEF Below

\* What a read finds: the lowest, or the highest, of the records it may find.
LEMMA Extremes ==
  ASSUME NEW x \in Index, NEW R, Numbers(R, x), R # {}
  PROVE  /\ Lowest(R) \in R /\ \A b \in R \ {Lowest(R)} : Below(Lowest(R), b)
         /\ Highest(R) \in R
  <1>1. \A a \in R : ~Below(a, a)
    BY Irreflexive DEF Numbers
  <1>2. ASSUME NEW a \in R, NEW b \in R, a # b
        PROVE  Below(a, b) \/ Below(b, a)
    <2>1. PICK p \in Z, q \in Z : a = Rec(x, p) /\ b = Rec(x, q)
      BY DEF Numbers
    <2>2. Key(x, p) # Key(x, q)
      BY <1>2, <2>1 DEF Numbers, Key
    <2> QED BY <2>1, <2>2, Ordered
  <1>3. ASSUME NEW a \in R, NEW b \in R, NEW e \in R, Below(a, b), Below(b, e)
        PROVE  Below(a, e)
    <2>1. PICK p \in Z, q \in Z, r \in Z : a = Rec(x, p) /\ b = Rec(x, q) /\ e = Rec(x, r)
      BY DEF Numbers
    <2>2. a # b /\ b # e
      BY <1>1, <1>3
    <2>3. Key(x, p) # Key(x, q) /\ Key(x, q) # Key(x, r)
      BY <2>1, <2>2 DEF Numbers, Key
    <2>4. Before(x, p, q) /\ Before(x, q, r)
      BY <1>3, <2>1, <2>3, Ordered
    <2>5. Before(x, p, r)
      BY <2>4, Chained
    <2>6. Key(x, p) # Key(x, r)
      BY <2>5, Ordered
    <2> QED BY <2>1, <2>5, <2>6, Ordered
  <1>4. \E a \in R : \A b \in R \ {a} : Below(a, b)
    <2> DEFINE T == {t \in R \X R : Below(t[1], t[2])}
    <2>1. \A a, b \in R : <<a, b>> \in T <=> Below(a, b)
      OBVIOUS
    <2> HIDE DEF T
    <2>2. /\ \A a \in R : <<a, a>> \notin T
          /\ \A a, b \in R : a # b => <<a, b>> \in T \/ <<b, a>> \in T
          /\ \A a, b, e \in R : <<a, b>> \in T /\ <<b, e>> \in T => <<a, e>> \in T
      BY <1>1, <1>2, <1>3, <2>1
    <2>3. \E a \in R : \A b \in R \ {a} : <<a, b>> \in T
      BY <2>2, First DEF Numbers
    <2> QED BY <2>1, <2>3
  <1>5. \E a \in R : \A b \in R \ {a} : Below(b, a)
    <2> DEFINE T == {t \in R \X R : Below(t[2], t[1])}
    <2>1. \A a, b \in R : <<a, b>> \in T <=> Below(b, a)
      OBVIOUS
    <2> HIDE DEF T
    <2>2. /\ \A a \in R : <<a, a>> \notin T
          /\ \A a, b \in R : a # b => <<a, b>> \in T \/ <<b, a>> \in T
          /\ \A a, b, e \in R : <<a, b>> \in T /\ <<b, e>> \in T => <<a, e>> \in T
      BY <1>1, <1>2, <1>3, <2>1
    <2>3. \E a \in R : \A b \in R \ {a} : <<a, b>> \in T
      BY <2>2, First DEF Numbers
    <2> QED BY <2>1, <2>3
  <1>6. Lowest(R) \in R /\ \A b \in R \ {Lowest(R)} : Below(Lowest(R), b)
    BY <1>4 DEF Lowest
  <1>7. Highest(R) \in R
    BY <1>5 DEF Highest
  <1> QED BY <1>6, <1>7

-----------------------------------------------------------------------------
\* The fields of the history of a scan, of a buffer and of a handle.
IsScan(s) == s = [on |-> s.on, last |-> s.last, seen |-> s.seen, must |-> s.must]
IsBuf(b)  == b = [rec |-> b.rec, ok |-> b.ok]
IsHandle(v) ==
  /\ v = [cur |-> v.cur, start |-> v.start, mst |-> v.mst, pos |-> v.pos, recno |-> v.recno]
  /\ IsBuf(v.mst) /\ IsBuf(v.pos) /\ v.recno \in Int
Typed(v, k, s) ==
  /\ IsHandle(v) /\ IsScan(s) /\ k.new \in Z /\ k.old \in Z
  /\ ~Works(k) => k.new = NoRec /\ k.old = NoRec
\* What a scan has to meet is not about to change.
MustOK(s, M) == \A r \in s.must : r \in Settled /\ r.m # 0 /\ r.m \notin M

\* Where a client is in its current index, and that the records the scan s has still
\* to meet come behind p, or behind k.
Place(v) == Buffer(v, v.cur).rec
Past(x, s, p)  == \A q \in s.must : q.m \in s.seen \/ Before(x, p, q)
Ahead(x, s, k) == \E p \in Z : Standing(x, k, p) /\ Past(x, s, p)
\* The same where the record at k is about to be met.
Reached(x, s, k) ==
  \E p \in Z : k = Rec(x, p) /\ \A q \in s.must : q.m \in s.seen \/ q.m = p.m \/ Before(x, p, q)
\* A scan that has begun goes on from where the client is, or will be when its call has
\* restored the position.
Going(v, k, s) ==
  /\ k.op \in {"idle", "unique"} => Ahead(v.cur, s, Place(v))
  /\ k.op = "write" => k.keep /\ Ahead(v.cur, s, Place(v))
  /\ k.op = "rewrite" /\ k.sav = <<>> =>
       /\ k.ph \in {"new", "back", "old"} /\ k.keep /\ Ahead(v.cur, s, Place(v))
       /\ Prefix(Place(v), Klen[v.cur]) = Key(v.cur, k.old)
  /\ k.op = "rewrite" /\ k.sav # <<>> => Ahead(v.cur, s, k.sav[1])
  /\ k.op # "delete"
  /\ k.op = "read" /\ k.ph \in {"FIRST", "NEXT"} => Reached(v.cur, s, Place(v))
ScanOK(v, k, s) ==
  /\ v.start = "LAST" /\ s.seen # {} => \A r \in s.must : r.m \in s.seen
  /\ s.on => v.start \in {"FIRST", "CURR"}
  /\ s.on /\ v.start = "CURR" => Going(v, k, s)
  /\ k.op = "read" => v.start = "CURR" /\ v.cur # "m"
  /\ k.op = "read" /\ k.ph = "FIRST" => s.on
  /\ v.cur \in Index /\ \E p \in DOMAIN Chain : Chain[p] = v.cur
\* The inductive invariant of scans, beside IInv.
ScanInv ==
  /\ want \subseteq Z
  /\ \A x \in Index : IsFiniteSet(file[x]) /\ \A k \in file[x] : \E r \in Z : k = Rec(x, r)
  /\ h = [c \in Client |-> h[c]] /\ scan = [c \in Client |-> scan[c]]
  /\ \A c \in Client : /\ Typed(h[c], call[c], scan[c]) /\ MustOK(scan[c], {})
                       /\ ScanOK(h[c], call[c], scan[c])

\* What a step of client c leaves to the others: their scans have to meet no record of
\* M any more, and all they have to meet stays.
Thins(s, t, M) ==
  IsScan(t) /\ t.on = s.on /\ t.seen = s.seen /\ \A r \in t.must : r \in s.must /\ r.m \notin M
Scans(c, M) ==
  scan' = [d \in Client |-> scan'[d]] /\ \A d \in Client \ {c} : Thins(scan[d], scan'[d], M)
Handles(c) == h' = [d \in Client |-> h'[d]] /\ \A d \in Client \ {c} : h'[d] = h[d]
Calls(c)   == \A d \in Client \ {c} : call'[d] = call[d]
Files(c) ==
  \A x \in Index : \A k \in file'[x] : \/ k \in file[x]
                                       \/ k = Rec(x, call[c].new) \/ k = Rec(x, call'[c].new)
Wants(c) ==
  /\ \A r \in want' : r \in want \/ r = call[c].new
  /\ \A r \in want : r \in want' \/ r.m \in Changing
About(c, M) == /\ call'[c].new.m \in Changing \cup M \cup {0}
               /\ call'[c].old.m \in Changing \cup M \cup {0}

\* A scan that has less to meet.
LEMMA Thinner ==
  ASSUME NEW s, NEW t, NEW M, Thins(s, t, M), NEW v, NEW k
  PROVE  /\ ScanOK(v, k, s) => ScanOK(v, k, t)
         /\ Going(v, k, s) => Going(v, k, t)
         /\ \A x, l : Ahead(x, s, l) => Ahead(x, t, l)
         /\ MustOK(s, {}) => MustOK(t, M)
  <1>1. \A x, p : Past(x, s, p) => Past(x, t, p)
    BY DEF Thins, Past
  <1>2. \A x, l : Ahead(x, s, l) => Ahead(x, t, l)
    BY <1>1 DEF Ahead
  <1>3. \A x, l : Reached(x, s, l) => Reached(x, t, l)
    BY DEF Thins, Reached
  <1>4. Going(v, k, s) => Going(v, k, t)
    BY <1>2, <1>3 DEF Going
  <1>5. ScanOK(v, k, s) => ScanOK(v, k, t)
    BY <1>4 DEF ScanOK, Thins
  <1>6. MustOK(s, {}) => MustOK(t, M)
    BY DEF MustOK, Thins
  <1> QED BY <1>2, <1>4, <1>5, <1>6

\* A step of one client keeps the invariant if the client keeps its part of it.
LEMMA Together ==
  ASSUME ScanInv, NEW c \in Client, NEW M,
         Scans(c, M), Handles(c), Calls(c), Files(c), Wants(c), About(c, M),
         Typed(h'[c], call'[c], scan'[c]), MustOK(scan'[c], M), ScanOK(h'[c], call'[c], scan'[c])
  PROVE  ScanInv'
  <1>1. want' \subseteq Z
    BY DEF Wants, ScanInv, Typed
  <1>2. ASSUME NEW x \in Index
        PROVE  IsFiniteSet(file'[x]) /\ \A k \in file'[x] : \E r \in Z : k = Rec(x, r)
    <2> DEFINE A == file[x] \cup {Rec(x, call[c].new)}  B == A \cup {Rec(x, call'[c].new)}
    <2>1. IsFiniteSet(file[x])
      BY DEF ScanInv
    <2>2. IsFiniteSet(A)
      BY <2>1, FS_AddElement
    <2>3. IsFiniteSet(B)
      BY <2>2, FS_AddElement
    <2>4. file'[x] \in SUBSET B
      BY DEF Files
    <2>5. IsFiniteSet(file'[x])
      BY <2>3, <2>4, FS_Subset
    <2>6. call[c].new \in Z /\ call'[c].new \in Z
      BY DEF ScanInv, Typed
    <2>7. \A k \in file'[x] : \E r \in Z : k = Rec(x, r)
      BY <2>6 DEF Files, ScanInv
    <2> QED BY <2>5, <2>7
  <1>3. ASSUME NEW d \in Client \ {c}
        PROVE  /\ Typed(h'[d], call'[d], scan'[d]) /\ MustOK(scan'[d], M)
               /\ ScanOK(h'[d], call'[d], scan'[d])
    <2>1. /\ h'[d] = h[d] /\ call'[d] = call[d] /\ Thins(scan[d], scan'[d], M)
          /\ Typed(h[d], call[d], scan[d]) /\ MustOK(scan[d], {}) /\ ScanOK(h[d], call[d], scan[d])
      BY DEF Handles, Calls, Scans, ScanInv
    <2>2. Typed(h'[d], call'[d], scan'[d])
      BY <2>1 DEF Typed, Thins
    <2>3. MustOK(scan'[d], M)
      BY <2>1, Thinner
    <2>4. ScanOK(h'[d], call'[d], scan'[d])
      BY <2>1, Thinner
    <2> QED BY <2>2, <2>3, <2>4
  <1>4. Changing' \subseteq Changing \cup M \cup {0}
    <2>1. ASSUME NEW m \in Changing' PROVE m \in Changing \cup M \cup {0}
      <3>1. PICK d \in Client : m = call'[d].new.m \/ m = call'[d].old.m
        BY <2>1 DEF Changing
      <3>2. CASE d = c
        BY <3>1, <3>2 DEF About
      <3>3. CASE d # c
        <4>1. call'[d] = call[d]
          BY <3>3 DEF Calls
        <4> QED BY <3>1, <4>1 DEF Changing
      <3> QED BY <3>2, <3>3
    <2> QED BY <2>1
  <1>5. ASSUME NEW d \in Client, NEW r \in scan'[d].must PROVE r \in Settled' /\ r.m # 0
    <2>1. MustOK(scan'[d], M)
      BY <1>3
    <2>2. r \in Settled /\ r.m # 0 /\ r.m \notin M
      BY <2>1, <1>5 DEF MustOK
    <2>3. r \in want /\ r.m \notin Changing
      BY <2>2 DEF Settled
    <2>4. r \in want' /\ r.m \notin Changing'
      BY <2>2, <2>3, <1>4 DEF Wants
    <2> QED BY <2>2, <2>4 DEF Settled
  <1>6. \A d \in Client : MustOK(scan[d], {})'
    BY <1>5 DEF MustOK
  <1>7. \A d \in Client : Typed(h'[d], call'[d], scan'[d]) /\ ScanOK(h'[d], call'[d], scan'[d])
    BY <1>3
  <1> QED BY <1>1, <1>2, <1>6, <1>7 DEF ScanInv, Handles, Scans

\* What Touch does.
LEMMA TouchIs ==
  ASSUME ScanInv, NEW c \in Client, NEW M, NEW keep, Touch(c, M, keep)
  PROVE  /\ Scans(c, M)
         /\ keep => Thins(scan[c], scan'[c], M)
         /\ ~keep => scan'[c] = NoScan
  <1>1. \A d \in Client : IsScan(scan[d])
    BY DEF ScanInv, Typed
  <1>2. ASSUME NEW d \in Client PROVE Thins(scan[d], [scan[d] EXCEPT !.must = {r \in @ : r.m \notin M}], M)
    <2>1. ASSUME NEW s, IsScan(s), NEW N
          PROVE  LET t == [s EXCEPT !.must = N] IN
                 t.on = s.on /\ t.seen = s.seen /\ t.must = N /\ IsScan(t)
      BY <2>1 DEF IsScan
    <2>3. IsScan(scan[d])
      BY <1>1
    <2> DEFINE t == [scan[d] EXCEPT !.must = {r \in @ : r.m \notin M}]
    <2>4. t.on = scan[d].on /\ t.seen = scan[d].seen /\ t.must = {r \in scan[d].must : r.m \notin M} /\ IsScan(t)
      BY <2>1, <2>3
    <2> HIDE DEF t
    <2>5. Thins(scan[d], t, M)
      BY <2>4 DEF Thins
    <2> QED BY <2>5 DEF t
  <1>3. \A d \in Client : scan'[d] = IF d = c /\ ~keep THEN NoScan
                                     ELSE [scan[d] EXCEPT !.must = {r \in @ : r.m \notin M}]
    BY DEF Touch
  <1>4. scan' = [d \in Client |-> scan'[d]]
    BY DEF Touch
  <1>5. \A d \in Client \ {c} : Thins(scan[d], scan'[d], M)
    BY <1>2, <1>3
  <1>6. keep => Thins(scan[c], scan'[c], M)
    BY <1>2, <1>3
  <1> QED BY <1>3, <1>4, <1>5, <1>6 DEF Scans

\* A step without effect on the scans of others.
LEMMA ScansRest ==
  ASSUME ScanInv, NEW c \in Client
  PROVE  /\ scan' = scan => Scans(c, {}) /\ Thins(scan[c], scan'[c], {})
         /\ \A t : scan' = [scan EXCEPT ![c] = t] => Scans(c, {}) /\ scan'[c] = t
  <1>1. scan = [d \in Client |-> scan[d]] /\ \A d \in Client : IsScan(scan[d])
    BY DEF ScanInv, Typed
  <1>2. \A d \in Client : Thins(scan[d], scan[d], {})
    BY <1>1 DEF Thins
  <1>3. scan' = scan => Scans(c, {}) /\ Thins(scan[c], scan'[c], {})
    BY <1>1, <1>2 DEF Scans
  <1>4. ASSUME NEW t, scan' = [scan EXCEPT ![c] = t] PROVE Scans(c, {}) /\ scan'[c] = t
    <2>1. scan'[c] = t /\ \A d \in Client \ {c} : scan'[d] = scan[d]
      BY <1>1, <1>4
    <2>2. scan' = [d \in Client |-> scan'[d]]
      BY <1>1, <1>4
    <2> QED BY <2>1, <2>2, <1>2 DEF Scans
  <1> QED BY <1>3, <1>4

\* The client keeps its part by a step that reads nothing: its scan has ended, or goes on.
LEMMA Quiet ==
  ASSUME ScanInv, NEW c \in Client, NEW v, NEW l, NEW t, NEW M,
         v.cur = h[c].cur, v.start = h[c].start \/ v.start = "CURR", l.op # "read",
         \/ t = NoScan
         \/ Thins(scan[c], t, M) /\ (t.on /\ v.start = "CURR" => Going(v, l, t))
  PROVE  ScanOK(v, l, t) /\ MustOK(t, M) /\ IsScan(t)
  <1>1. ScanOK(h[c], call[c], scan[c]) /\ MustOK(scan[c], {})
    BY DEF ScanInv
  <1>2. CASE t = NoScan
    <2>1. t.on = FALSE /\ t.seen = {} /\ t.must = {} /\ IsScan(t)
      BY <1>2 DEF NoScan, IsScan
    <2> QED BY <2>1, <1>1 DEF ScanOK, MustOK
  <1>3. CASE Thins(scan[c], t, M) /\ (t.on /\ v.start = "CURR" => Going(v, l, t))
    <2>1. MustOK(t, M) /\ IsScan(t)
      BY <1>1, <1>3, Thinner DEF Thins
    <2>2. v.start = "LAST" => h[c].start = "LAST"
      OBVIOUS
    <2>3. ScanOK(v, l, t)
      BY <1>1, <1>3, <2>2 DEF ScanOK, Thins
    <2> QED BY <2>1, <2>3
  <1> QED BY <1>2, <1>3

\* What a buffer holds after Set, and where Back leaves the client.
LEMMA SetIs ==
  ASSUME NEW v, IsHandle(v), NEW b, IsBuf(b), NEW x
  PROVE  /\ IsHandle(Set(v, x, b))
         /\ Set(v, x, b).cur = v.cur /\ Set(v, x, b).start = v.start
         /\ x = v.cur => Place(Set(v, x, b)) = b.rec
         /\ x # v.cur => Place(Set(v, x, b)) = Place(v)
  <1> DEFINE s == [v EXCEPT !.mst = b]  t == [v EXCEPT !.pos = b]
  <1>1. /\ IsHandle(s) /\ s.cur = v.cur /\ s.start = v.start /\ s.mst = b /\ s.pos = v.pos
    BY DEF IsHandle
  <1>2. /\ IsHandle(t) /\ t.cur = v.cur /\ t.start = v.start /\ t.pos = b /\ t.mst = v.mst
    BY DEF IsHandle
  <1>3. /\ x = "m" => Set(v, x, b) = s
        /\ x # "m" /\ x = v.cur => Set(v, x, b) = t
        /\ x # "m" /\ x # v.cur => Set(v, x, b) = v
    BY DEF Set
  <1> HIDE DEF s, t
  <1>4. CASE x = "m"
    BY <1>1, <1>3, <1>4 DEF Place, Buffer
  <1>5. CASE x # "m" /\ x = v.cur
    BY <1>2, <1>3, <1>5 DEF Place, Buffer
  <1>6. CASE x # "m" /\ x # v.cur
    BY <1>3, <1>6
  <1> QED BY <1>4, <1>5, <1>6

LEMMA BackIs ==
  ASSUME NEW c, NEW v, IsHandle(v), NEW b, IsBuf(b)
  PROVE  /\ IsHandle(Back(c, v, b))
         /\ Back(c, v, b).cur = v.cur /\ Back(c, v, b).start = v.start
  <1> DEFINE a == [b EXCEPT !.rec = call[c].sav[1]]
             e == IF call[c].sav = <<>> THEN b ELSE a
  <1>1. IsBuf(a) /\ a.rec = call[c].sav[1]
    BY DEF IsBuf
  <1>2. Back(c, v, b) = Set(v, v.cur, e)
    BY DEF Back
  <1> HIDE DEF a
  <1>3. IsBuf(e)
    BY <1>1
  <1>4. /\ IsHandle(Set(v, v.cur, e)) /\ Set(v, v.cur, e).cur = v.cur
        /\ Set(v, v.cur, e).start = v.start /\ Place(Set(v, v.cur, e)) = e.rec
    BY <1>3, SetIs
  <1> QED BY <1>1, <1>2, <1>4

LEMMA BackPlace ==
  ASSUME NEW c, NEW v, IsHandle(v), NEW b, IsBuf(b)
  PROVE  Place(Back(c, v, b)) = IF call[c].sav = <<>> THEN b.rec ELSE call[c].sav[1]
  <1> DEFINE a == [b EXCEPT !.rec = call[c].sav[1]]
             e == IF call[c].sav = <<>> THEN b ELSE a
  <1>1. IsBuf(a) /\ a.rec = call[c].sav[1]
    BY DEF IsBuf
  <1>2. Back(c, v, b) = Set(v, v.cur, e)
    BY DEF Back
  <1> HIDE DEF a
  <1>3. IsBuf(e)
    BY <1>1
  <1>4. /\ IsHandle(Set(v, v.cur, e)) /\ Set(v, v.cur, e).cur = v.cur
        /\ Set(v, v.cur, e).start = v.start /\ Place(Set(v, v.cur, e)) = e.rec
    BY <1>3, SetIs
  <1> QED BY <1>1, <1>2, <1>4

\* The buffers of a handle are buffers.
LEMMA Buffers ==
  ASSUME NEW v, IsHandle(v)
  PROVE  (\A x : IsBuf(Buffer(v, x))) /\ \A k : IsBuf(Good(k)) /\ IsBuf(Bad(k)) /\ Good(k).rec = k /\ Bad(k).rec = k
  BY DEF IsHandle, Buffer, IsBuf, Good, Bad

\* The moves of a call.
Same(k, l) ==
  l.op = k.op /\ l.keep = k.keep /\ l.sav = k.sav /\ l.new = k.new /\ l.old = k.old
LEMMA ToIs ==
  ASSUME IInv, NEW c \in Client
  PROVE  /\ \A l : To(c, l) => Calls(c) /\ call'[c] = l
         /\ End(c) => Calls(c) /\ call'[c] = Idle
         /\ call' = call => Calls(c) /\ call'[c] = call[c]
         /\ \A a, b : Go(c, a, b) => Calls(c) /\ Same(call[c], call'[c]) /\ call'[c].ph = a
         /\ \A a, b : To(c, [call[c] EXCEPT !.ph = a, !.j = b])
                        => Calls(c) /\ Same(call[c], call'[c]) /\ call'[c].ph = a
         /\ \A b : To(c, [call[c] EXCEPT !.j = b])
                        => Calls(c) /\ Same(call[c], call'[c]) /\ call'[c].ph = call[c].ph
  <1> DEFINE k == call[c]
  <1>1. call = [d \in Client |-> call[d]] /\ IsCall(k)
    BY DEF IInv, CallOK
  <1>2. \A l : To(c, l) => Calls(c) /\ call'[c] = l
    BY <1>1 DEF To, Calls
  <1>3. \A a, b : LET l == [k EXCEPT !.ph = a, !.i = b] IN Same(k, l) /\ l.ph = a
    BY <1>1 DEF IsCall, Same
  <1>4. \A a, b : LET l == [k EXCEPT !.ph = a, !.j = b] IN Same(k, l) /\ l.ph = a
    BY <1>1 DEF IsCall, Same
  <1>5. \A b : LET l == [k EXCEPT !.j = b] IN Same(k, l) /\ l.ph = k.ph
    BY <1>1 DEF IsCall, Same
  <1>6. End(c) => Calls(c) /\ call'[c] = Idle
    BY <1>2 DEF End
  <1>7. call' = call => Calls(c) /\ call'[c] = call[c]
    BY DEF Calls
  <1>8. ASSUME NEW a, NEW b, Go(c, a, b) PROVE Calls(c) /\ Same(k, call'[c]) /\ call'[c].ph = a
    <2> DEFINE l == [k EXCEPT !.ph = a, !.i = b]
    <2>1. To(c, l) /\ Same(k, l) /\ l.ph = a
      BY <1>8, <1>3 DEF Go
    <2> HIDE DEF l
    <2>2. Calls(c) /\ call'[c] = l
      BY <2>1, <1>2
    <2> QED BY <2>1, <2>2
  <1>9. ASSUME NEW a, NEW b, To(c, [k EXCEPT !.ph = a, !.j = b]) PROVE Calls(c) /\ Same(k, call'[c]) /\ call'[c].ph = a
    <2> DEFINE l == [k EXCEPT !.ph = a, !.j = b]
    <2>1. To(c, l) /\ Same(k, l) /\ l.ph = a
      BY <1>9, <1>4 
    <2> HIDE DEF l
    <2>2. Calls(c) /\ call'[c] = l
      BY <2>1, <1>2
    <2> QED BY <2>1, <2>2
  <1>10. \A b : To(c, [k EXCEPT !.j = b]) => Calls(c) /\ Same(k, call'[c]) /\ call'[c].ph = k.ph
    BY <1>2, <1>5
  <1> QED BY <1>2, <1>6, <1>7, <1>8, <1>9, <1>10

\* The moves of a handle.
LEMMA HandleIs ==
  ASSUME ScanInv, NEW c \in Client
  PROVE  /\ h' = h => Handles(c) /\ h'[c] = h[c]
         /\ \A v : h' = [h EXCEPT ![c] = v] => Handles(c) /\ h'[c] = v
  BY DEF ScanInv, Handles

\* The moves of a file, and of what the clients have left.
LEMMA FileIs ==
  ASSUME Shape(file), NEW c
  PROVE  /\ file' = file => Files(c)
         /\ \A x, k : Drop(x, k) => Files(c)
         /\ \A x : Put(x, call[c].new) \/ Put(x, call'[c].new) => Files(c)
         /\ want' = want => Wants(c)
  <1>1. file = [x \in Index |-> file[x]]
    BY DEF Shape
  <1>2. file' = file => Files(c)
    BY DEF Files
  <1>3. ASSUME NEW x, NEW k, Drop(x, k) PROVE Files(c)
    BY <1>1, <1>3 DEF Drop, Files
  <1>4. ASSUME NEW x, NEW r, Put(x, r), r = call[c].new \/ r = call'[c].new PROVE Files(c)
    BY <1>1, <1>4 DEF Put, Files
  <1>5. want' = want => Wants(c)
    BY DEF Wants
  <1> QED BY <1>2, <1>3, <1>4, <1>5

\* No call.
LEMMA Nothing ==
  /\ Idle.op = "idle" /\ Idle.new = NoRec /\ Idle.old = NoRec /\ NoRec \in Z /\ NoRec.m = 0
  /\ Idle.ph = "" /\ Idle.sav = <<>> /\ Idle.keep = FALSE
  BY DEF Idle, NoRec, Z

\* The call goes on with the records it is about, or ends.
LEMMA Onward ==
  ASSUME ScanInv, NEW c \in Client, Same(call[c], call'[c]) \/ call'[c] = Idle,
         IsHandle(h'[c]), IsScan(scan'[c]), NEW M
  PROVE  Typed(h'[c], call'[c], scan'[c]) /\ About(c, M)
  <1>1. Typed(h[c], call[c], scan[c])
    BY DEF ScanInv
  <1>2. call[c].new.m \in Changing /\ call[c].old.m \in Changing
    BY DEF Changing
  <1> QED BY <1>1, <1>2, Nothing DEF Typed, About, Same, Works

\* A scan that has begun was going on from where the client stood.
LEMMA Was ==
  ASSUME ScanInv, NEW c \in Client, NEW t, NEW M, Thins(scan[c], t, M), t.on, h[c].start = "CURR"
  PROVE  Going(h[c], call[c], t)
  <1>1. ScanOK(h[c], call[c], scan[c]) /\ scan[c].on
    BY DEF ScanInv, Thins
  <1>2. Going(h[c], call[c], scan[c])
    BY <1>1 DEF ScanOK
  <1> QED BY <1>2, Thinner

\* A new record of a client is made of numbers.
LEMMA NewRec ==
  ASSUME Numbered, NEW c \in Client, NEW m \in Own[c], NEW s \in S, NEW d \in D, NEW n \in Int
  PROVE  [m |-> m, s |-> s, d |-> d, n |-> n] \in Z
  <1>1. m \in Master
    BY DEF Master
  <1> QED BY <1>1 DEF Numbered, Z

\* iswrite begins.
LEMMA CallWriteScan ==
  ASSUME Disciplined, Numbered, IInv, ScanInv, NEW c \in Client, CallWrite(c)
  PROVE  ScanInv'
  <1>1. PICK m \in Own[c], s \in S, d \in D, keep \in BOOLEAN :
          /\ To(c, [Idle EXCEPT !.op = "write", !.ph = IF Has("n") THEN "number" ELSE "put",
                      !.i = 1, !.keep = keep, !.new = [m |-> m, s |-> s, d |-> d, n |-> 0]])
          /\ Touch(c, {m}, keep)
    BY DEF CallWrite
  <1>2. ~Busy(c) /\ file' = file /\ h' = h /\ want' = want
    BY DEF CallWrite, CanChange
  <1> DEFINE r == [m |-> m, s |-> s, d |-> d, n |-> 0]
             l == [Idle EXCEPT !.op = "write", !.ph = IF Has("n") THEN "number" ELSE "put",
                     !.i = 1, !.keep = keep, !.new = r]
  <1>3. r \in Z /\ r.m = m
    BY NewRec
  <1>4. l.op = "write" /\ l.keep = keep /\ l.new = r /\ l.old = NoRec
    BY DEF Idle
  <1>5. To(c, l)
    BY <1>1
  <1> HIDE DEF l, r
  <1>6. Calls(c) /\ call'[c] = l
    BY <1>5, ToIs
  <1>7. Handles(c) /\ h'[c] = h[c] /\ Files(c) /\ Wants(c)
    BY <1>2, HandleIs, FileIs DEF IInv
  <1>8. Scans(c, {m}) /\ (keep => Thins(scan[c], scan'[c], {m})) /\ (~keep => scan'[c] = NoScan)
    BY <1>1, TouchIs
  <1>9. ASSUME keep, scan'[c].on, h[c].start = "CURR" PROVE Going(h[c], l, scan'[c])
    <2>1. Going(h[c], call[c], scan'[c])
      BY <1>8, <1>9, Was
    <2> QED BY <2>1, <1>2, <1>4, <1>9 DEF Going, Busy
  <1>10. ScanOK(h[c], l, scan'[c]) /\ MustOK(scan'[c], {m}) /\ IsScan(scan'[c])
    BY <1>4, <1>8, <1>9, Quiet
  <1>11. Typed(h[c], l, scan'[c])
    BY <1>3, <1>4, <1>10, Nothing DEF ScanInv, Typed, Works
  <1>12. About(c, {m})
    BY <1>3, <1>4, <1>6, Nothing DEF About
  <1> QED BY <1>6, <1>7, <1>8, <1>10, <1>11, <1>12, Together

\* What Written leaves in the buffers.
LEMMA WrittenIs ==
  ASSUME ScanInv, NEW c \in Client, NEW p, Written(c, p)
  PROVE  /\ Handles(c) /\ IsHandle(h'[c]) /\ h'[c].cur = h[c].cur /\ h'[c].start = h[c].start
         /\ call[c].keep => Place(h'[c]) = Place(h[c])
  <1> DEFINE b(y) == [rec |-> Rec(y, call[c].new), ok |-> p = 0 \/ list[p] # y]
             met == p = 0 \/ h[c].cur = "n" \/ \E i \in 1..p : list[i] = h[c].cur
             e == IF call[c].keep \/ ~met THEN Cur(c) ELSE b(h[c].cur)
             s == Set(h[c], "m", b("m"))
             v == Set(s, h[c].cur, e)
  <1>1. IsHandle(h[c])
    BY DEF ScanInv, Typed
  <1>2. h' = [h EXCEPT ![c] = v]
    BY DEF Written
  <1>3. \A y : IsBuf(b(y))
    BY DEF IsBuf
  <1>4. IsBuf(Cur(c)) /\ Cur(c).rec = Place(h[c])
    BY <1>1, Buffers DEF Cur, Place
  <1> HIDE DEF b
  <1>5. IsBuf(e)
    BY <1>3, <1>4
  <1>6. call[c].keep => e.rec = Place(h[c])
    BY <1>4
  <1> HIDE DEF e
  <1>7. IsHandle(s) /\ s.cur = h[c].cur /\ s.start = h[c].start
    BY <1>1, <1>3, SetIs
  <1> HIDE DEF s
  <1>8. IsHandle(v) /\ v.cur = h[c].cur /\ v.start = h[c].start /\ Place(v) = e.rec
    BY <1>5, <1>7, SetIs
  <1> HIDE DEF v
  <1>9. Handles(c) /\ h'[c] = v
    BY <1>2, HandleIs
  <1> QED BY <1>6, <1>8, <1>9

\* The steps of iswrite: a scan goes on where the position is kept.
LEMMA Writing ==
  ASSUME ScanInv, NEW c \in Client, call[c].op = "write", scan' = scan,
         call'[c] = Idle \/ (call'[c].op = "write" /\ call'[c].keep = call[c].keep),
         h'[c].cur = h[c].cur, h'[c].start = h[c].start,
         call[c].keep => Place(h'[c]) = Place(h[c])
  PROVE  /\ ScanOK(h'[c], call'[c], scan'[c]) /\ MustOK(scan'[c], {}) /\ IsScan(scan'[c])
         /\ Scans(c, {})
  <1>1. Scans(c, {}) /\ Thins(scan[c], scan'[c], {})
    BY ScansRest
  <1>2. ASSUME scan'[c].on, h'[c].start = "CURR" PROVE Going(h'[c], call'[c], scan'[c])
    <2>1. Going(h[c], call[c], scan'[c])
      BY <1>1, <1>2, Was
    <2>2. call[c].keep /\ Ahead(h'[c].cur, scan'[c], Place(h'[c]))
      BY <2>1 DEF Going
    <2>3. call'[c].op \in {"idle", "write"} /\ (call'[c].op = "write" => call'[c].keep)
      BY <2>2, Nothing
    <2> QED BY <2>2, <2>3 DEF Going
  <1>3. call'[c].op # "read"
    BY Nothing
  <1> QED BY <1>1, <1>2, <1>3, Quiet

LEMMA WritePutScan ==
  ASSUME Disciplined, Numbered, IInv, ScanInv, NEW c \in Client, WritePut(c) \/ WriteUnnumber(c) \/ WriteUndo(c)
  PROVE  ScanInv'
  <1> DEFINE k == call[c]
  <1>1. k.op = "write" /\ scan' = scan
    BY DEF WritePut, WriteUnnumber, WriteUndo, At
  <1>2. \/ h' = h /\ want' = want /\ \E a, b : \/ Go(c, a, b) \/ To(c, [k EXCEPT !.ph = a, !.j = b])
                                           \/ To(c, [k EXCEPT !.j = b])
        \/ \E p : End(c) /\ Written(c, p) /\ (want' = want \/ want' = want \union {k.new})
    <2>1. CASE WritePut(c)
      BY <2>1 DEF WritePut
    <2>2. CASE WriteUnnumber(c)
      BY <2>2 DEF WriteUnnumber
    <2>3. CASE WriteUndo(c)
      BY <2>3 DEF WriteUndo
    <2> QED BY <2>1, <2>2, <2>3
  <1>3. file' = file \/ (\E x : Put(x, k.new)) \/ \E x, l : Drop(x, l)
    <2>1. CASE WritePut(c)
      BY <2>1 DEF WritePut
    <2>2. CASE WriteUnnumber(c)
      BY <2>2 DEF WriteUnnumber
    <2>3. CASE WriteUndo(c)
      BY <2>3 DEF WriteUndo
    <2> QED BY <2>1, <2>2, <2>3
  <1>4. Files(c)
    BY <1>3, FileIs DEF IInv
  <1>5. Wants(c)
    BY <1>2 DEF Wants
  <1>6. /\ Calls(c) /\ (Same(k, call'[c]) \/ call'[c] = Idle)
        /\ Handles(c) /\ IsHandle(h'[c]) /\ h'[c].cur = h[c].cur /\ h'[c].start = h[c].start
        /\ k.keep => Place(h'[c]) = Place(h[c])
    <2>1. CASE h' = h /\ \E a, b : \/ Go(c, a, b) \/ To(c, [k EXCEPT !.ph = a, !.j = b])
                                   \/ To(c, [k EXCEPT !.j = b])
      <3>1. Calls(c) /\ Same(k, call'[c])
        BY <2>1, ToIs
      <3>2. Handles(c) /\ h'[c] = h[c]
        BY <2>1, HandleIs
      <3> QED BY <3>1, <3>2 DEF ScanInv, Typed
    <2>2. ASSUME NEW p, End(c), Written(c, p)
          PROVE  /\ Calls(c) /\ call'[c] = Idle
                 /\ Handles(c) /\ IsHandle(h'[c]) /\ h'[c].cur = h[c].cur /\ h'[c].start = h[c].start
                 /\ k.keep => Place(h'[c]) = Place(h[c])
      <3>1. Calls(c) /\ call'[c] = Idle
        BY <2>2, ToIs
      <3>2. /\ Handles(c) /\ IsHandle(h'[c]) /\ h'[c].cur = h[c].cur /\ h'[c].start = h[c].start
            /\ k.keep => Place(h'[c]) = Place(h[c])
        BY <2>2, WrittenIs
      <3> QED BY <3>1, <3>2
    <2> QED BY <2>1, <2>2, <1>2
  <1>7. ScanOK(h'[c], call'[c], scan'[c]) /\ MustOK(scan'[c], {}) /\ IsScan(scan'[c]) /\ Scans(c, {})
    BY <1>1, <1>6, Writing DEF Same
  <1>8. Typed(h'[c], call'[c], scan'[c]) /\ About(c, {})
    BY <1>6, <1>7, Onward
  <1> QED BY <1>4, <1>5, <1>6, <1>7, <1>8, Together

\* iswrite takes the next record number.
LEMMA WriteNumberScan ==
  ASSUME Disciplined, Numbered, IInv, ScanInv, NEW c \in Client, WriteNumber(c)
  PROVE  ScanInv'
  <1> DEFINE k == call[c]  n == h[c].recno + 1  r == [k.new EXCEPT !.n = n]
  <1>1. k.op = "write" /\ scan' = scan /\ want' = want
    BY DEF WriteNumber, At
  <1>2. Typed(h[c], k, scan[c])
    BY DEF ScanInv
  <1>3. r \in Z /\ r.m = k.new.m /\ n \in Int
    BY <1>2 DEF Typed, IsHandle, Z
  <1>4. ASSUME NEW e \in Int, h' = [h EXCEPT ![c].recno = e]
        PROVE  /\ Handles(c) /\ IsHandle(h'[c]) /\ h'[c].cur = h[c].cur /\ h'[c].start = h[c].start
               /\ Place(h'[c]) = Place(h[c])
    <2> DEFINE v == [h[c] EXCEPT !.recno = e]
    <2>1. IsHandle(v) /\ v.cur = h[c].cur /\ v.start = h[c].start /\ v.mst = h[c].mst /\ v.pos = h[c].pos
      BY <1>2 DEF Typed, IsHandle
    <2>2. h' = [h EXCEPT ![c] = v]
      BY <1>4
    <2> HIDE DEF v
    <2>3. Handles(c) /\ h'[c] = v
      BY <2>2, HandleIs
    <2> QED BY <2>1, <2>3 DEF Place, Buffer
  <1>5. \/ /\ Put("n", r) /\ h' = [h EXCEPT ![c].recno = n]
           /\ To(c, [k EXCEPT !.new = r, !.ph = "put"])
        \/ /\ Matching("n", Key("n", r)) # {} /\ h' = [h EXCEPT ![c].recno = Highest(file["n"])[1]]
           /\ file' = file /\ call' = call
    BY DEF WriteNumber
  <1>6. CASE /\ Put("n", r) /\ h' = [h EXCEPT ![c].recno = n]
             /\ To(c, [k EXCEPT !.new = r, !.ph = "put"])
    <2> DEFINE l == [k EXCEPT !.new = r, !.ph = "put"]
    <2>1. IsCall(k)
      BY DEF IInv, CallOK
    <2> HIDE DEF r
    <2>2. l.op = "write" /\ l.keep = k.keep /\ l.new = r /\ l.old = k.old
      BY <2>1, <1>1 DEF IsCall
    <2>3. To(c, l)
      BY <1>6
    <2> HIDE DEF l
    <2>4. Calls(c) /\ call'[c] = l
      BY <2>3, ToIs
    <2>5. /\ Handles(c) /\ IsHandle(h'[c]) /\ h'[c].cur = h[c].cur /\ h'[c].start = h[c].start
          /\ Place(h'[c]) = Place(h[c])
      BY <1>3, <1>4, <1>6
    <2>6. Files(c) /\ Wants(c)
      BY <2>2, <2>4, <1>1, <1>6, FileIs DEF IInv
    <2>7. /\ ScanOK(h'[c], call'[c], scan'[c]) /\ MustOK(scan'[c], {}) /\ IsScan(scan'[c])
          /\ Scans(c, {})
      BY <2>2, <2>4, <2>5, <1>1, Writing
    <2>8. Typed(h'[c], call'[c], scan'[c])
      BY <2>2, <2>4, <2>5, <2>7, <1>2, <1>3 DEF Typed, Works
    <2>9. About(c, {})
      BY <2>2, <2>4, <1>3 DEF About, Changing
    <2> QED BY <2>4, <2>5, <2>6, <2>7, <2>8, <2>9, Together
  <1>7. CASE /\ Matching("n", Key("n", r)) # {} /\ h' = [h EXCEPT ![c].recno = Highest(file["n"])[1]]
             /\ file' = file /\ call' = call
    <2>1. file["n"] # {} /\ "n" \in Index
      BY <1>7 DEF Matching, With, Index
    <2>2. Numbers(file["n"], "n")
      BY <2>1 DEF ScanInv, IInv, Unique, Numbers
    <2>3. Highest(file["n"]) \in file["n"]
      BY <2>1, <2>2, Extremes
    <2>4. PICK q \in Z : Highest(file["n"]) = Rec("n", q)
      BY <2>2, <2>3 DEF Numbers
    <2>5. Rec("n", q) = <<q.n, q.m>> /\ q.n \in Int
      BY Recs DEF Z
    <2>6. Highest(file["n"])[1] \in Int
      BY <2>4, <2>5
    <2>7. /\ Handles(c) /\ IsHandle(h'[c]) /\ h'[c].cur = h[c].cur /\ h'[c].start = h[c].start
          /\ Place(h'[c]) = Place(h[c])
      BY <2>6, <1>4, <1>7
    <2>8. Calls(c) /\ call'[c] = k /\ Same(k, call'[c])
      BY <1>7, ToIs DEF Same
    <2>9. Files(c) /\ Wants(c)
      BY <1>1, <1>7, FileIs DEF IInv
    <2>10. /\ ScanOK(h'[c], call'[c], scan'[c]) /\ MustOK(scan'[c], {}) /\ IsScan(scan'[c])
           /\ Scans(c, {})
      BY <2>7, <2>8, <1>1, Writing
    <2>11. Typed(h'[c], call'[c], scan'[c]) /\ About(c, {})
      BY <2>7, <2>8, <2>10, Onward
    <2> QED BY <2>7, <2>8, <2>9, <2>10, <2>11, Together
  <1> QED BY <1>5, <1>6, <1>7

\* isdelete, isdelcurr and isdelrec move the position: the scan ends.
LEMMA DeletingScan ==
  ASSUME IInv, ScanInv, NEW c \in Client, NEW k, NEW b, Deleting(c, k, b),
         IsBuf(b), Unpack(k) \in Z, file' = file, want' = want
  PROVE  ScanInv'
  <1> DEFINE u == Unpack(k)
             l == [Idle EXCEPT !.op = "delete", !.i = 1, !.old = u, !.new = u]
             e == h[c]
             v == [e EXCEPT !.mst = b, !.start = "CURR"]
  <1>1. l.op = "delete" /\ l.new = u /\ l.old = u
    BY DEF Idle
  <1>2. u.m = k[1]
    BY DEF Unpack
  <1> HIDE DEF u
  <1>3. To(c, l) /\ h' = [h EXCEPT ![c] = v] /\ Touch(c, {k[1]}, FALSE)
    <2>1. h' = [h EXCEPT ![c].mst = b, ![c].start = "CURR"]
      BY DEF Deleting
    <2>2. h' = [h EXCEPT ![c] = v]
      BY <2>1 DEF ScanInv
    <2> QED BY <2>2 DEF Deleting, u
  <1>4. IsHandle(v) /\ v.cur = h[c].cur /\ v.start = "CURR"
    <2>1. IsHandle(e)
      BY DEF ScanInv, Typed
    <2> HIDE DEF e
    <2> DEFINE a == [e EXCEPT !.mst = b]
               w == [a EXCEPT !.start = "CURR"]
    <2>2. IsHandle(a) /\ a.cur = e.cur
      BY <2>1 DEF IsHandle
    <2>3. v = w
      BY <2>1 DEF IsHandle
    <2> HIDE DEF a, v
    <2>4. IsHandle(w) /\ w.cur = a.cur /\ w.start = "CURR"
      BY <2>2 DEF IsHandle
    <2> HIDE DEF w
    <2> QED BY <2>2, <2>3, <2>4 DEF e
  <1> HIDE DEF l, v, e
  <1>5. Calls(c) /\ call'[c] = l
    BY <1>3, ToIs
  <1>6. Handles(c) /\ h'[c] = v
    BY <1>3, HandleIs
  <1>7. Files(c) /\ Wants(c)
    BY FileIs DEF IInv
  <1>8. Scans(c, {k[1]}) /\ scan'[c] = NoScan
    BY <1>3, TouchIs
  <1>9. ScanOK(v, l, scan'[c]) /\ MustOK(scan'[c], {k[1]}) /\ IsScan(scan'[c])
    BY <1>1, <1>4, <1>8, Quiet
  <1>10. Typed(v, l, scan'[c])
    BY <1>1, <1>4, <1>9 DEF Typed, Works, u
  <1>11. About(c, {k[1]})
    BY <1>1, <1>2, <1>5 DEF About
  <1> QED BY <1>5, <1>6, <1>7, <1>8, <1>9, <1>10, <1>11, Together

LEMMA CallDeleteScan ==
  ASSUME Disciplined, Numbered, IInv, ScanInv, NEW c \in Client,
         CallDelete(c) \/ CallDelcurr(c) \/ CallDelrec(c)
  PROVE  ScanInv'
  <1>1. ~Busy(c) /\ file' = file /\ want' = want
    BY DEF CallDelete, CallDelcurr, CallDelrec, CanChange
  <1>2. IsHandle(h[c]) /\ \A b : IsBuf(Good(b)) /\ IsBuf(Bad(b)) /\ IsBuf(h[c].mst)
    BY Buffers DEF ScanInv, Typed, IsHandle
  <1>3. CASE CallDelcurr(c) \/ CallDelrec(c)
    <2>1. Current(c) /\ Deleting(c, h[c].mst.rec, h[c].mst)
      BY <1>3 DEF CallDelcurr, CallDelrec
    <2>2. Unpack(h[c].mst.rec) \in Z
      BY <2>1, <1>1, CurrentIs DEF WantOf, ScanInv
    <2> QED BY <2>1, <2>2, <1>1, <1>2, DeletingScan
  <1>4. CASE CallDelete(c)
    <2>1. PICK m \in Own[c] :
            LET k == Find("m", "READEQ", <<m>>)
            IN \/ k # None /\ Deleting(c, k, Good(k))
               \/ /\ call' = call /\ h' = [h EXCEPT ![c].mst = Bad(<<m>>)]
                  /\ Touch(c, {}, h[c].cur # "m")
      BY <1>4 DEF CallDelete
    <2> DEFINE k == Find("m", "READEQ", <<m>>)
    <2>2. CASE k # None /\ Deleting(c, k, Good(k))
      <3>0. ~Come(call[c], 1) /\ ~Gone(call[c], 1)
        BY <1>1, Free
      <3>1. PICK r \in WantOf(want, c) : k = Rec("m", r)
        BY <3>0, <2>2, MasterFound
      <3>2. Unpack(k) \in Z
        BY <3>1, Opening, Unpacked DEF WantOf, ScanInv
      <3> HIDE DEF k
      <3> QED BY <3>2, <2>2, <1>1, <1>2, DeletingScan
    <2>3. CASE /\ call' = call /\ h' = [h EXCEPT ![c].mst = Bad(<<m>>)]
               /\ Touch(c, {}, h[c].cur # "m")
      <3> DEFINE b == Bad(<<m>>)  v == [h[c] EXCEPT !.mst = b]
      <3>1. IsBuf(b)
        BY <1>2
      <3>2. h' = [h EXCEPT ![c] = v]
        BY <2>3
      <3> HIDE DEF b
      <3>3. IsHandle(v) /\ v.cur = h[c].cur /\ v.start = h[c].start /\ v.pos = h[c].pos
        BY <3>1, <1>2 DEF IsHandle
      <3> HIDE DEF v
      <3>4. Handles(c) /\ h'[c] = v
        BY <3>2, HandleIs
      <3>5. /\ Scans(c, {}) /\ (h[c].cur # "m" => Thins(scan[c], scan'[c], {}))
            /\ (h[c].cur = "m" => scan'[c] = NoScan)
        BY <2>3, TouchIs
      <3>6. ASSUME h[c].cur # "m", scan'[c].on, v.start = "CURR" PROVE Going(v, call[c], scan'[c])
        <4>1. Going(h[c], call[c], scan'[c])
          BY <3>3, <3>5, <3>6, Was
        <4>2. Place(v) = Place(h[c])
          BY <3>3, <3>6 DEF Place, Buffer
        <4> QED BY <4>1, <4>2, <3>3, <1>1 DEF Going, Busy
      <3>7. ScanOK(v, call[c], scan'[c]) /\ MustOK(scan'[c], {}) /\ IsScan(scan'[c])
        BY <3>3, <3>5, <3>6, <1>1, Quiet DEF Busy
      <3>8. Calls(c) /\ call'[c] = call[c]
        BY <2>3, ToIs
      <3>9. Typed(h'[c], call'[c], scan'[c]) /\ About(c, {})
        BY <3>3, <3>4, <3>7, <3>8, Onward DEF Same
      <3>10. Files(c) /\ Wants(c)
        BY <1>1, FileIs DEF IInv
      <3> QED BY <3>4, <3>5, <3>7, <3>8, <3>9, <3>10, Together
    <2> QED BY <2>1, <2>2, <2>3
  <1> QED BY <1>3, <1>4

\* The requests of a delete: no scan is under way.
LEMMA DeleteScan ==
  ASSUME Disciplined, Numbered, IInv, ScanInv, NEW c \in Client, Delete(c)
  PROVE  ScanInv'
  <1> DEFINE k == call[c]
  <1>1. k.op = "delete" /\ scan' = scan
    BY DEF Delete
  <1>2. PICK x, ok, l : h' = [h EXCEPT ![c] = Set(h[c], x, [rec |-> Rec(x, k.old), ok |-> ok])] /\ Drop(x, l)
    BY DEF Delete, ScanInv
  <1>3. \/ (\E a, b : Go(c, a, b)) /\ want' = want
        \/ End(c) /\ want' = want \ {k.old}
    BY DEF Delete
  <1> DEFINE b == [rec |-> Rec(x, k.old), ok |-> ok]  v == Set(h[c], x, b)
  <1>4. IsHandle(h[c]) /\ IsBuf(b)
    BY DEF ScanInv, Typed, IsBuf
  <1> HIDE DEF b
  <1>5. IsHandle(v) /\ v.cur = h[c].cur /\ v.start = h[c].start
    BY <1>4, SetIs
  <1>6. Handles(c) /\ h'[c] = v
    BY <1>2, HandleIs DEF b
  <1> HIDE DEF v
  <1>7. Calls(c) /\ (Same(k, call'[c]) \/ call'[c] = Idle)
    BY <1>3, ToIs
  <1>8. Files(c)
    BY <1>2, FileIs DEF IInv
  <1>9. Wants(c)
    BY <1>3 DEF Wants, Changing
  <1>10. Scans(c, {}) /\ Thins(scan[c], scan'[c], {})
    BY <1>1, ScansRest
  <1>11. ~(scan'[c].on /\ v.start = "CURR")
    BY <1>1, <1>5, <1>10, Was DEF Going
  <1>12. call'[c].op # "read"
    BY <1>1, <1>7, Nothing DEF Same
  <1>13. ScanOK(v, call'[c], scan'[c]) /\ MustOK(scan'[c], {}) /\ IsScan(scan'[c])
    BY <1>5, <1>10, <1>11, <1>12, Quiet
  <1>14. Typed(h'[c], call'[c], scan'[c]) /\ About(c, {})
    BY <1>5, <1>6, <1>7, <1>13, Onward
  <1> QED BY <1>6, <1>7, <1>8, <1>9, <1>10, <1>13, <1>14, Together

\* A client ends, or asks for a unique id: neither moves a position.
LEMMA DieScan ==
  ASSUME Disciplined, Numbered, IInv, ScanInv, NEW c \in Client, Die(c)
  PROVE  ScanInv'
  <1> DEFINE k == call[c]  l == [k EXCEPT !.op = "dead"]
  <1>1. /\ Works(k) /\ To(c, l) /\ file' = file /\ h' = h /\ want' = want /\ scan' = scan
    BY DEF Die, Works
  <1>2. IsCall(k)
    BY DEF IInv, CallOK
  <1>3. l.op = "dead" /\ l.new = k.new /\ l.old = k.old
    BY <1>2 DEF IsCall
  <1> HIDE DEF l
  <1>4. Calls(c) /\ call'[c] = l /\ Handles(c) /\ h'[c] = h[c] /\ Files(c) /\ Wants(c)
    BY <1>1, ToIs, HandleIs, FileIs DEF IInv
  <1>5. Scans(c, {}) /\ Thins(scan[c], scan'[c], {})
    BY <1>1, ScansRest
  <1>6. Going(h[c], l, scan'[c])
    BY <1>3 DEF Going
  <1>7. ScanOK(h[c], l, scan'[c]) /\ MustOK(scan'[c], {}) /\ IsScan(scan'[c])
    BY <1>3, <1>5, <1>6, Quiet
  <1>8. Typed(h[c], l, scan'[c])
    BY <1>3, <1>7 DEF Typed, ScanInv, Works
  <1>9. About(c, {})
    BY <1>3, <1>4 DEF About, Changing
  <1> QED BY <1>4, <1>5, <1>7, <1>8, <1>9, Together

LEMMA UniqueScan ==
  ASSUME Disciplined, Numbered, IInv, ScanInv, NEW c \in Client,
         CallUnique(c) \/ UniqueLast(c) \/ UniqueWrite(c) \/ UniqueLower(c)
  PROVE  ScanInv'
  <1> DEFINE k == call[c]
  <1>1. file' = file /\ h' = h /\ want' = want /\ scan' = scan /\ k.op \in {"idle", "unique"}
    BY DEF CallUnique, UniqueLast, UniqueWrite, UniqueLower, CanChange, Busy, At
  <1>2. Typed(h[c], k, scan[c]) /\ IsCall(k) /\ k.new = NoRec /\ k.old = NoRec
    BY <1>1 DEF ScanInv, Typed, Works, IInv, CallOK
  <1>3. /\ Calls(c) /\ call'[c].op \in {"idle", "unique"}
        /\ call'[c].new = NoRec /\ call'[c].old = NoRec
    <2>1. CASE CallUnique(c)
      <3> DEFINE l == [Idle EXCEPT !.op = "unique", !.ph = "last"]
      <3>1. l.op = "unique" /\ l.new = NoRec /\ l.old = NoRec
        BY DEF Idle
      <3>2. To(c, l)
        BY <2>1 DEF CallUnique
      <3> HIDE DEF l
      <3> QED BY <3>1, <3>2, ToIs
    <2>2. ASSUME k.op = "unique", \/ \E a, b : Go(c, a, b)
                                  \/ \E b : To(c, [k EXCEPT !.j = b])
                                  \/ End(c)
          PROVE  /\ Calls(c) /\ call'[c].op \in {"idle", "unique"}
                 /\ call'[c].new = NoRec /\ call'[c].old = NoRec
      <3>1. Calls(c) /\ (Same(k, call'[c]) \/ call'[c] = Idle)
        BY <2>2, ToIs
      <3> QED BY <3>1, <2>2, <1>2, Nothing DEF Same
    <2>3. CASE UniqueLast(c)
      BY <2>2, <2>3 DEF UniqueLast, At
    <2>4. CASE UniqueWrite(c)
      BY <2>2, <2>4 DEF UniqueWrite, At
    <2>5. ASSUME NEW a, NEW b, k.op = "unique", To(c, [k EXCEPT !.i = a, !.j = b])
          PROVE  /\ Calls(c) /\ call'[c].op \in {"idle", "unique"}
                 /\ call'[c].new = NoRec /\ call'[c].old = NoRec
      <3> DEFINE l == [k EXCEPT !.i = a, !.j = b]
      <3>1. l.op = "unique" /\ l.new = NoRec /\ l.old = NoRec
        BY <2>5, <1>2 DEF IsCall
      <3>2. To(c, l)
        BY <2>5
      <3> HIDE DEF l
      <3> QED BY <3>1, <3>2, ToIs
    <2>6. CASE UniqueLower(c)
      BY <2>2, <2>5, <2>6 DEF UniqueLower, At
    <2> QED BY <2>1, <2>3, <2>4, <2>6
  <1>4. Handles(c) /\ h'[c] = h[c] /\ Files(c) /\ Wants(c)
    BY <1>1, HandleIs, FileIs DEF IInv
  <1>5. Scans(c, {}) /\ Thins(scan[c], scan'[c], {})
    BY <1>1, ScansRest
  <1>6. ASSUME scan'[c].on, h[c].start = "CURR" PROVE Going(h[c], call'[c], scan'[c])
    <2>1. Going(h[c], k, scan'[c])
      BY <1>5, <1>6, Was
    <2> QED BY <2>1, <1>1, <1>3 DEF Going
  <1>7. ScanOK(h[c], call'[c], scan'[c]) /\ MustOK(scan'[c], {}) /\ IsScan(scan'[c])
    BY <1>3, <1>5, <1>6, Quiet
  <1>8. Typed(h[c], call'[c], scan'[c])
    BY <1>2, <1>3, <1>7, Nothing DEF Typed
  <1>9. About(c, {})
    BY <1>3, Nothing DEF About
  <1> QED BY <1>3, <1>4, <1>5, <1>7, <1>8, <1>9, Together

\* What isrew does first: the call goes on with these records, or nothing changes.
LEMMA RewritingIs ==
  ASSUME IInv, NEW c \in Client, NEW old, NEW new, NEW keep, NEW sav, Rewriting(c, old, new, keep, sav)
  PROVE  /\ Calls(c)
         /\ \/ call'[c] = Idle /\ Rec("m", new) = Rec("m", old)
            \/ /\ call'[c].op = "rewrite" /\ call'[c].ph \in {"new", "old"} /\ call'[c].keep = keep
               /\ call'[c].sav = sav /\ call'[c].new = new /\ call'[c].old = old
  <1> DEFINE K == {q \in (0 + 1)..Len(list) : Cmprec(list[q], new, old) # "same"}
             to == [Idle EXCEPT !.op = "rewrite", !.keep = keep, !.sav = sav, !.new = new, !.old = old]
  <1>0. list = Chain /\ K \in SUBSET Nat
    <2>1. list = Chain
      BY DEF IInv
    <2>2. Len(Chain) \in Nat /\ \A q \in (0 + 1)..Len(Chain) : q \in Nat
      BY ChainFacts
    <2> QED BY <2>1, <2>2
  <1>1. K # {} => \E q \in K : \A p \in K : q <= p
    BY <1>0, Least
  <1>2. \/ \E j : To(c, [to EXCEPT !.ph = "new", !.i = j]) \/ To(c, [to EXCEPT !.ph = "old", !.i = j])
        \/ End(c) /\ K = {}
    <2> DEFINE j == NextIndex(0, LAMBDA x : Cmprec(x, new, old) = "key")
               k == NextIndex(0, LAMBDA x : Cmprec(x, new, old) # "same")
    <2>1. K # {} => k # 0
      BY <1>0, <1>1, SMTT(60) DEF NextIndex
    <2>3. \/ j # 0 /\ To(c, [to EXCEPT !.ph = "new", !.i = j])
          \/ j = 0 /\ k # 0 /\ To(c, [to EXCEPT !.ph = "old", !.i = k])
          \/ j = 0 /\ k = 0 /\ End(c)
      BY DEF Rewriting
    <2> HIDE DEF j, k, to
    <2> QED BY <2>1, <2>3
  <1>4. to = [Idle EXCEPT !.op = "rewrite", !.keep = keep, !.sav = sav, !.new = new, !.old = old]
    OBVIOUS
  <1> HIDE DEF to
  <1>5. IsCall(to) /\ to.op = "rewrite" /\ to.keep = keep /\ to.sav = sav /\ to.new = new /\ to.old = old
    BY <1>4, NoWork DEF IsCall
  <1>6. ASSUME NEW j, NEW ph \in {"new", "old"}, To(c, [to EXCEPT !.ph = ph, !.i = j])
        PROVE  /\ Calls(c) /\ call'[c].op = "rewrite" /\ call'[c].ph = ph /\ call'[c].keep = keep
               /\ call'[c].sav = sav /\ call'[c].new = new /\ call'[c].old = old
    <2> DEFINE l == [to EXCEPT !.ph = ph, !.i = j]
    <2>1. /\ l.op = "rewrite" /\ l.ph = ph /\ l.keep = keep
          /\ l.sav = sav /\ l.new = new /\ l.old = old
      BY <1>5 DEF IsCall
    <2>2. To(c, l)
      BY <1>6
    <2> HIDE DEF l
    <2> QED BY <2>1, <2>2, ToIs
  <1>7. ASSUME End(c), K = {}
        PROVE  Calls(c) /\ call'[c] = Idle /\ Rec("m", new) = Rec("m", old)
    <2>1. Calls(c) /\ call'[c] = Idle
      BY <1>7, ToIs
    <2>2. Cmprec(list[1], new, old) = "same"
      BY <1>0, <1>7, ChainFacts
    <2>3. list[1] = "m"
      BY <1>0, ChainFacts
    <2> QED BY <2>1, <2>2, <2>3, Compared
  <1> QED BY <1>2, <1>6, <1>7

\* isrewcurr begins: a scan goes on where the position is kept.
LEMMA CallRewcurrScan ==
  ASSUME Disciplined, Numbered, IInv, ScanInv, NEW c \in Client, CallRewcurr(c)
  PROVE  ScanInv'
  <1> DEFINE old == Unpack(h[c].mst.rec)
  <1>1. PICK new \in Record, keep \in BOOLEAN :
          /\ Rewriting(c, old, new, keep, <<>>)
          /\ Touch(c, {old.m, new.m}, keep /\ Prefix(Cur(c).rec, Klen[h[c].cur]) = Key(h[c].cur, old))
    BY DEF CallRewcurr
  <1>2. ~Busy(c) /\ Current(c) /\ file' = file /\ h' = h /\ want' = want
    BY DEF CallRewcurr, CanChange
  <1>3. old \in Z
    BY <1>2, CurrentIs DEF WantOf, ScanInv
  <1>4. new \in Z
    <2>1. new \in [m : Master, s : S, d : D, n : 0..MaxNum] /\ \A n \in 0..MaxNum : n \in Int
      BY NumAssumption DEF Record
    <2>2. new.m \in Int /\ new.s \in Int /\ new.d \in Int /\ new.n \in Int
      BY <2>1 DEF Numbered
    <2>3. new = [m |-> new.m, s |-> new.s, d |-> new.d, n |-> new.n]
      BY <2>1
    <2> QED BY <2>2, <2>3 DEF Z
  <1> HIDE DEF old
  <1> DEFINE M == {old.m, new.m}
             stay == keep /\ Prefix(Cur(c).rec, Klen[h[c].cur]) = Key(h[c].cur, old)
  <1>5. Calls(c) /\ \/ call'[c] = Idle
                    \/ /\ call'[c].op = "rewrite" /\ call'[c].ph \in {"new", "old"} /\ call'[c].keep = keep
                       /\ call'[c].sav = <<>> /\ call'[c].new = new /\ call'[c].old = old
    BY <1>1, RewritingIs
  <1>6. Handles(c) /\ h'[c] = h[c] /\ Files(c) /\ Wants(c)
    BY <1>2, HandleIs, FileIs DEF IInv
  <1>7. Scans(c, M) /\ (stay => Thins(scan[c], scan'[c], M)) /\ (~stay => scan'[c] = NoScan)
    BY <1>1, TouchIs
  <1>8. ASSUME stay, scan'[c].on, h[c].start = "CURR" PROVE Going(h[c], call'[c], scan'[c])
    <2>1. Going(h[c], call[c], scan'[c])
      BY <1>7, <1>8, Was
    <2>2. Ahead(h[c].cur, scan'[c], Place(h[c]))
      BY <2>1, <1>2 DEF Going, Busy
    <2>3. keep /\ Prefix(Place(h[c]), Klen[h[c].cur]) = Key(h[c].cur, old)
      BY <1>8 DEF Cur, Place
    <2> QED BY <2>2, <2>3, <1>5, Nothing DEF Going
  <1>9. call'[c].op # "read"
    BY <1>5, Nothing
  <1>10. ScanOK(h[c], call'[c], scan'[c]) /\ MustOK(scan'[c], M) /\ IsScan(scan'[c])
    BY <1>7, <1>8, <1>9, Quiet
  <1>11. Typed(h[c], call'[c], scan'[c])
    BY <1>3, <1>4, <1>5, <1>10, Nothing DEF ScanInv, Typed, Works
  <1>12. About(c, M)
    BY <1>5, Nothing DEF About
  <1> QED BY <1>5, <1>6, <1>7, <1>10, <1>11, <1>12, Together

\* Where only the key of a position is kept it is still the same position.
LEMMA KeyStands ==
  ASSUME NEW x \in Index, NEW k, NEW p, Standing(x, k, p)
  PROVE  Prefix(k, Klen[x]) = Key(x, p)
  <1>1. Prefix(Rec(x, p), Klen[x]) = Key(x, p)
    BY DEF Key
  <1>2. Prefix(Key(x, p), Klen[x]) = Key(x, p)
    <2>1. Klen["m"] = 1 /\ Klen["s"] = 1 /\ Klen["d"] = 2 /\ Klen["n"] = 1
      BY DEF Klen
    <2>2. ASSUME NEW a PROVE Prefix(<<a>>, 1) = <<a>>
      <3> DEFINE s == <<a>>
      <3>1. s \in Seq({a}) /\ Len(s) = 1
        OBVIOUS
      <3> HIDE DEF s
      <3>2. Prefix(s, 1) = SubSeq(s, 1, Len(s))
        BY <3>1 DEF Prefix
      <3>3. Prefix(s, 1) = s
        BY <3>1, <3>2, SubSeqFull
      <3> QED BY <3>3 DEF s
    <2>3. Prefix(<<p.d, p.m>>, 2) = <<p.d, p.m>>
      BY Firsts
    <2>4. /\ Key("m", p) = <<p.m>> /\ Key("s", p) = <<p.s>>
          /\ Key("d", p) = <<p.d, p.m>> /\ Key("n", p) = <<p.n>>
      BY Keys
    <2> QED BY <2>1, <2>2, <2>3, <2>4 DEF Index
  <1> QED BY <1>1, <1>2 DEF Standing

LEMMA KeyAhead ==
  ASSUME NEW x \in Index, NEW s, NEW k, Ahead(x, s, k)
  PROVE  Ahead(x, s, Prefix(k, Klen[x]))
  <1>1. PICK p \in Z : Standing(x, k, p) /\ Past(x, s, p)
    BY DEF Ahead
  <1>2. Prefix(k, Klen[x]) = Key(x, p)
    BY <1>1, KeyStands
  <1> QED BY <1>1, <1>2 DEF Ahead, Standing

\* isrewrite and isrewrec begin: the position to be restored is that of the scan.
LEMMA FetchScan ==
  ASSUME IInv, ScanInv, NEW c \in Client, ~Busy(c), NEW sav, NEW new \in Z, NEW y,
         sav = IF h[c].cur = y THEN <<>> ELSE Position(c),
         To(c, [Idle EXCEPT !.op = "rewrite", !.ph = "fetch", !.sav = sav, !.new = new]),
         Touch(c, {new.m}, h[c].cur # y), file' = file, h' = h, want' = want
  PROVE  ScanInv'
  <1> DEFINE l == [Idle EXCEPT !.op = "rewrite", !.ph = "fetch", !.sav = sav, !.new = new]
             v == h[c]
             k == Prefix(Place(v), Klen[v.cur])
  <1>1. l.op = "rewrite" /\ l.sav = sav /\ l.new = new /\ l.old = NoRec
    BY DEF Idle
  <1>2. To(c, l)
    OBVIOUS
  <1> HIDE DEF l
  <1>3. Calls(c) /\ call'[c] = l /\ Handles(c) /\ h'[c] = v /\ Files(c) /\ Wants(c)
    BY <1>2, ToIs, HandleIs, FileIs DEF IInv
  <1>4. /\ Scans(c, {new.m}) /\ (v.cur # y => Thins(scan[c], scan'[c], {new.m}))
        /\ (v.cur = y => scan'[c] = NoScan)
    BY TouchIs
  <1>5. v.cur # y => sav = <<k>>
    BY DEF Position, Cur, Place
  <1>6. v.cur \in Index
    BY DEF ScanInv, ScanOK
  <1>7. ASSUME v.cur # y, scan'[c].on, v.start = "CURR" PROVE Going(v, l, scan'[c])
    <2>1. Going(v, call[c], scan'[c])
      BY <1>4, <1>7, Was
    <2>2. Ahead(v.cur, scan'[c], Place(v))
      BY <2>1 DEF Going, Busy
    <2>3. Ahead(v.cur, scan'[c], k)
      BY <2>2, <1>6, KeyAhead
    <2> HIDE DEF k, v
    <2>4. sav # <<>> /\ sav[1] = k
      BY <1>5, <1>7
    <2> QED BY <2>3, <2>4, <1>1 DEF Going
  <1>8. ScanOK(v, l, scan'[c]) /\ MustOK(scan'[c], {new.m}) /\ IsScan(scan'[c])
    BY <1>1, <1>4, <1>7, Quiet, ZenonT(60)
  <1>9. Typed(v, l, scan'[c])
    BY <1>1, <1>8, Nothing DEF ScanInv, Typed, Works
  <1>10. About(c, {new.m})
    BY <1>1, <1>3, Nothing DEF About
  <1> QED BY <1>3, <1>4, <1>8, <1>9, <1>10, Together

LEMMA CallRewriteScan ==
  ASSUME Disciplined, Numbered, IInv, ScanInv, NEW c \in Client, CallRewrite(c)
  PROVE  ScanInv'
  <1>1. PICK m \in Own[c], s \in S, d \in D :
          LET new == [m |-> m, s |-> s, d |-> d, n |-> 0]
              sav == IF h[c].cur = "m" THEN <<>> ELSE Position(c)
          IN /\ To(c, [Idle EXCEPT !.op = "rewrite", !.ph = "fetch", !.sav = sav, !.new = new])
             /\ Touch(c, {m}, h[c].cur # "m")
    BY DEF CallRewrite
  <1> DEFINE new == [m |-> m, s |-> s, d |-> d, n |-> 0]
             sav == IF h[c].cur = "m" THEN <<>> ELSE Position(c)
  <1>2. new \in Z /\ new.m = m
    BY NewRec
  <1>3. /\ To(c, [Idle EXCEPT !.op = "rewrite", !.ph = "fetch", !.sav = sav, !.new = new])
        /\ Touch(c, {new.m}, h[c].cur # "m")
    BY <1>1
  <1>4. ~Busy(c) /\ file' = file /\ h' = h /\ want' = want
    BY DEF CallRewrite, CanChange
  <1>5. sav = IF h[c].cur = "m" THEN <<>> ELSE Position(c)
    OBVIOUS
  <1> HIDE DEF new, sav
  <1> QED BY <1>2, <1>3, <1>4, <1>5, FetchScan

LEMMA CallRewrecScan ==
  ASSUME Disciplined, Numbered, IInv, ScanInv, NEW c \in Client, CallRewrec(c)
  PROVE  ScanInv'
  <1> DEFINE to(n, s, d, m, sav) ==
        To(c, [Idle EXCEPT !.op = "rewrite", !.ph = "fetch", !.sav = sav,
                           !.new = [m |-> m, s |-> s, d |-> d, n |-> n]])
             save == IF h[c].cur = "n" THEN <<>> ELSE Position(c)
  <1>1. PICK n \in 1..MaxNum, s \in S, d \in D : \E m \in Own[c] : to(n, s, d, m, save) /\ Touch(c, {m}, h[c].cur # "n")
    <2>1. \E n \in 1..MaxNum, s \in S, d \in D :
            /\ MasterKey("n", Find("n", "READEQ", <<n>>))[1] \in Own[c]
            /\ to(n, s, d, MasterKey("n", Find("n", "READEQ", <<n>>))[1], save)
            /\ Touch(c, {MasterKey("n", Find("n", "READEQ", <<n>>))[1]}, h[c].cur # "n")
      BY DEF CallRewrec
    <2> HIDE DEF to, save
    <2> QED BY <2>1
  <1>2. PICK m \in Own[c] : to(n, s, d, m, save) /\ Touch(c, {m}, h[c].cur # "n")
    BY <1>1
  <1> DEFINE new == [m |-> m, s |-> s, d |-> d, n |-> n]
  <1>3. n \in Int
    BY NumAssumption
  <1>4. new \in Z /\ new.m = m
    BY <1>3, NewRec
  <1> DEFINE sav == save
  <1>5. /\ To(c, [Idle EXCEPT !.op = "rewrite", !.ph = "fetch", !.sav = sav, !.new = new])
        /\ Touch(c, {new.m}, h[c].cur # "n")
    BY <1>2
  <1>6. ~Busy(c) /\ file' = file /\ h' = h /\ want' = want
    BY DEF CallRewrec, CanChange
  <1>7. sav = IF h[c].cur = "n" THEN <<>> ELSE Position(c)
    OBVIOUS
  <1> HIDE DEF new, sav, save, to
  <1> QED BY <1>4, <1>5, <1>6, <1>7, FetchScan

\* isrewrite has read the record: the position goes with the call until it is restored.
LEMMA RewriteFetchScan ==
  ASSUME Disciplined, Numbered, IInv, ScanInv, NEW c \in Client, RewriteFetch(c)
  PROVE  ScanInv'
  <1> DEFINE m == call[c].new.m  k == Find("m", "READEQ", <<m>>)
             new == [call[c].new EXCEPT !.n = k[4]]
             e == h[c]
             got == [e EXCEPT !.mst = Good(k), !.start = "CURR"]
             not == [e EXCEPT !.mst = Bad(<<m>>)]
             bn == Back(c, not, Buffer(not, e.cur))
             bg == Back(c, got, Buffer(got, e.cur))
  <1>1. /\ call[c].op = "rewrite" /\ call[c].ph = "fetch" /\ m \in Own[c]
        /\ file' = file /\ want' = want
    BY Opening DEF RewriteFetch, At, CallOK, Works
  <1>2. IsHandle(e) /\ \A a : IsBuf(Good(a)) /\ IsBuf(Bad(a))
    BY Buffers DEF ScanInv, Typed
  <1>3. \/ /\ k = None /\ End(c) /\ scan' = scan
           /\ h' = [h EXCEPT ![c] = bn]
        \/ /\ k # None
           /\ h' = [h EXCEPT ![c] = IF new = Unpack(k) THEN bg ELSE got]
           /\ Rewriting(c, Unpack(k), new, FALSE, call[c].sav)
           /\ scan' = [scan EXCEPT ![c] = IF e.start = "CURR" THEN scan[c] ELSE NoScan]
    BY DEF RewriteFetch, ScanInv
  <1>4. Files(c) /\ Wants(c)
    BY <1>1, FileIs DEF IInv
  \* What a scan that has begun needs is in sav.
  <1>5. ASSUME NEW t, Thins(scan[c], t, {}), t.on, e.start = "CURR"
        PROVE  call[c].sav # <<>> /\ Ahead(e.cur, t, call[c].sav[1])
    <2>1. Going(e, call[c], t)
      BY <1>5, Was
    <2> HIDE DEF e
    <2> QED BY <2>1, <1>1 DEF Going
  <1>6. CASE /\ k = None /\ End(c) /\ scan' = scan
             /\ h' = [h EXCEPT ![c] = bn]
    <2> DEFINE b == Bad(<<m>>)
    <2>0. IsBuf(b)
      BY <1>2
    <2> HIDE DEF b, e
    <2>1. IsHandle(not) /\ not.cur = e.cur /\ not.start = e.start
      BY <1>2, <2>0 DEF IsHandle, b
    <2> HIDE DEF not
    <2>2. IsBuf(Buffer(not, e.cur))
      BY <2>1, Buffers
    <2>3. /\ IsHandle(bn) /\ bn.cur = e.cur /\ bn.start = e.start
          /\ call[c].sav # <<>> => Place(bn) = call[c].sav[1]
      <3> DEFINE q == Buffer(not, e.cur)
      <3>1. IsBuf(q) /\ bn = Back(c, not, q)
        BY <2>2
      <3> HIDE DEF q, bn
      <3>2. /\ IsHandle(Back(c, not, q))
            /\ Back(c, not, q).cur = not.cur /\ Back(c, not, q).start = not.start
        BY <3>1, <2>1, BackIs
      <3>3. Place(Back(c, not, q)) = IF call[c].sav = <<>> THEN q.rec ELSE call[c].sav[1]
        BY <3>1, <2>1, BackPlace
      <3> QED BY <3>1, <3>2, <3>3, <2>1
    <2>4. Handles(c) /\ h'[c] = bn
      BY <1>6, HandleIs
    <2> HIDE DEF bn
    <2>5. Calls(c) /\ call'[c] = Idle
      BY <1>6, ToIs
    <2>6. Scans(c, {}) /\ Thins(scan[c], scan'[c], {})
      BY <1>6, ScansRest
    <2>7. ASSUME scan'[c].on, bn.start = "CURR" PROVE Going(bn, Idle, scan'[c])
      <3>1. Ahead(bn.cur, scan'[c], Place(bn))
        BY <2>3, <2>6, <2>7, <1>5
      <3> QED BY <3>1, Nothing DEF Going
    <2>8. ScanOK(bn, Idle, scan'[c]) /\ MustOK(scan'[c], {}) /\ IsScan(scan'[c])
      BY <2>3, <2>6, <2>7, Nothing, Quiet DEF e
    <2>9. Typed(h'[c], call'[c], scan'[c]) /\ About(c, {})
      BY <2>3, <2>4, <2>5, <2>8, Onward
    <2> QED BY <2>4, <2>5, <2>6, <2>8, <2>9, <1>4, Together
  <1>7. CASE /\ k # None
             /\ h' = [h EXCEPT ![c] = IF new = Unpack(k) THEN bg ELSE got]
             /\ Rewriting(c, Unpack(k), new, FALSE, call[c].sav)
             /\ scan' = [scan EXCEPT ![c] = IF e.start = "CURR" THEN scan[c] ELSE NoScan]
    <2>1. ~Come(call[c], 1) /\ ~Gone(call[c], 1)
      BY <1>1 DEF Come, Gone
    <2>2. PICK r \in WantOf(want, c) : r.m = m /\ k = Rec("m", r)
      BY <2>1, <1>1, <1>7, MasterFound
    <2>3. Unpack(k) = r /\ r \in Z /\ k[4] = r.n /\ IsRec(r)
      <3>1. IsRec(r) /\ r \in Z
        BY Opening DEF WantOf, ScanInv
      <3>2. Rec("m", r) = <<r.m, r.s, r.d, r.n>>
        BY Recs
      <3> QED BY <3>1, <3>2, <2>2, Unpacked
    <2>4. new \in Z /\ new.m = m
      <3>1. call[c].new \in Z /\ k[4] \in Int
        BY <2>3 DEF ScanInv, Typed, Z
      <3> QED BY <3>1 DEF Z
    <2> DEFINE old == Unpack(k)
               v == IF new = Unpack(k) THEN bg ELSE got
               t == IF e.start = "CURR" THEN scan[c] ELSE NoScan
    <2>5. old \in Z /\ old = r
      BY <2>3
    <2>6. new = old <=> Rec("m", new) = Rec("m", old)
      <3>1. IsRec(new)
        BY <2>4 DEF Z, IsRec
      <3> HIDE DEF new
      <3> QED BY <3>1, <2>3, Unpacked
    <2>7. /\ IsHandle(got) /\ got.cur = e.cur /\ got.start = "CURR"
      <3> DEFINE b == Good(k)  u == [e EXCEPT !.mst = b]
                 w == [u EXCEPT !.start = "CURR"]
      <3>1. IsBuf(b)
        BY <1>2
      <3> HIDE DEF b, e
      <3>2. IsHandle(u) /\ u.cur = e.cur
        BY <3>1, <1>2 DEF IsHandle
      <3>3. got = w
        BY <1>2 DEF IsHandle, b
      <3> HIDE DEF u, got
      <3>4. IsHandle(w) /\ w.cur = u.cur /\ w.start = "CURR"
        BY <3>2 DEF IsHandle
      <3> HIDE DEF w
      <3> QED BY <3>2, <3>3, <3>4
    <2> HIDE DEF got
    <2>8. IsBuf(Buffer(got, e.cur))
      BY <2>7, Buffers
    <2>9. /\ IsHandle(bg) /\ bg.cur = e.cur /\ bg.start = "CURR"
          /\ call[c].sav # <<>> => Place(bg) = call[c].sav[1]
      <3> DEFINE q == Buffer(got, e.cur)
      <3>1. IsBuf(q) /\ bg = Back(c, got, q)
        BY <2>8
      <3> HIDE DEF q, bg
      <3>2. /\ IsHandle(Back(c, got, q))
            /\ Back(c, got, q).cur = got.cur /\ Back(c, got, q).start = got.start
        BY <3>1, <2>7, BackIs
      <3>3. Place(Back(c, got, q)) = IF call[c].sav = <<>> THEN q.rec ELSE call[c].sav[1]
        BY <3>1, <2>7, BackPlace
      <3> QED BY <3>1, <3>2, <3>3, <2>7
    <2> HIDE DEF bg
    <2>10. /\ IsHandle(v) /\ v.cur = e.cur /\ v.start = "CURR"
           /\ new = old /\ call[c].sav # <<>> => Place(v) = call[c].sav[1]
      BY <2>7, <2>9
    <2>11. Handles(c) /\ h'[c] = v
      <3>1. h' = [h EXCEPT ![c] = v]
        BY <1>7
      <3> HIDE DEF v
      <3> QED BY <3>1, HandleIs
    <2>12. Scans(c, {}) /\ scan'[c] = t
      <3>1. scan' = [scan EXCEPT ![c] = t]
        BY <1>7
      <3> HIDE DEF t
      <3> QED BY <3>1, ScansRest
    <2>13. e.start = "CURR" => Thins(scan[c], t, {})
      BY DEF Thins, ScanInv, Typed
    <2>14. Calls(c) /\ \/ call'[c] = Idle /\ new = old
                       \/ /\ call'[c].op = "rewrite" /\ call'[c].sav = call[c].sav
                          /\ call'[c].new = new /\ call'[c].old = old
      <3> DEFINE keep == FALSE  sav == call[c].sav
      <3>1. Rewriting(c, old, new, keep, sav)
        BY <1>7
      <3> HIDE DEF old, new, keep, sav
      <3>2. Calls(c) /\ \/ call'[c] = Idle /\ Rec("m", new) = Rec("m", old)
                        \/ /\ call'[c].op = "rewrite" /\ call'[c].sav = sav
                           /\ call'[c].new = new /\ call'[c].old = old
        BY <3>1, RewritingIs
      <3> QED BY <3>2, <2>6 DEF sav
    <2> HIDE DEF v, t, old, new
    <2>15. ASSUME t.on, e.start = "CURR" PROVE Going(v, call'[c], t)
      <3>1. call[c].sav # <<>> /\ Ahead(v.cur, t, call[c].sav[1])
        BY <2>10, <2>13, <2>15, <1>5
      <3>2. new = old => Ahead(v.cur, t, Place(v))
        BY <3>1, <2>10
      <3> QED BY <3>1, <3>2, <2>14, Nothing DEF Going
    <2>16. call'[c].op # "read" /\ (e.start # "CURR" => t = NoScan)
      BY <2>14, Nothing DEF t
    <2>17. ScanOK(v, call'[c], t) /\ MustOK(t, {}) /\ IsScan(t)
      BY <2>10, <2>13, <2>15, <2>16, Quiet
    <2>18. Typed(v, call'[c], t)
      BY <2>4, <2>5, <2>10, <2>14, <2>17, Nothing DEF Typed, Works
    <2>19. m \in Changing /\ r.m = m
      BY <2>2 DEF Changing
    <2>20. About(c, {})
      BY <2>4, <2>5, <2>14, <2>19, Nothing DEF About
    <2> QED BY <2>11, <2>12, <2>14, <2>17, <2>18, <2>20, <1>4, Together
  <1> QED BY <1>3, <1>6, <1>7

\* A record with the key of the position is ahead of the same.
LEMMA SameAhead ==
  ASSUME NEW x \in Index, NEW s, NEW k, Ahead(x, s, k), NEW q \in Z, Prefix(k, Klen[x]) = Key(x, q)
  PROVE  Ahead(x, s, Rec(x, q))
  <1>1. PICK p \in Z : Standing(x, k, p) /\ Past(x, s, p)
    BY DEF Ahead
  <1>2. Key(x, p) = Key(x, q)
    BY <1>1, KeyStands
  <1>3. Past(x, s, q)
    BY <1>1, <1>2 DEF Past, Before
  <1> QED BY <1>3 DEF Ahead, Standing

\* isrewrite goes on to the next index.
LEMMA RewriteGoes ==
  ASSUME IInv, ScanInv, NEW c \in Client, call[c].op = "rewrite", h' = h, scan' = scan,
         Calls(c), Same(call[c], call'[c]), call'[c].ph \in {"new", "back", "old"}, Files(c), Wants(c)
  PROVE  ScanInv'
  <1>1. Handles(c) /\ h'[c] = h[c] /\ IsHandle(h[c])
    BY HandleIs DEF ScanInv, Typed
  <1>2. Scans(c, {}) /\ Thins(scan[c], scan'[c], {})
    BY ScansRest
  <1>3. ASSUME scan'[c].on, h[c].start = "CURR" PROVE Going(h[c], call'[c], scan'[c])
    <2>1. Going(h[c], call[c], scan'[c])
      BY <1>2, <1>3, Was
    <2> QED BY <2>1 DEF Going, Same
  <1>4. call'[c].op # "read"
    BY DEF Same
  <1>5. ScanOK(h[c], call'[c], scan'[c]) /\ MustOK(scan'[c], {}) /\ IsScan(scan'[c])
    BY <1>2, <1>3, <1>4, Quiet
  <1>6. Typed(h'[c], call'[c], scan'[c]) /\ About(c, {})
    BY <1>1, <1>5, Onward
  <1> QED BY <1>1, <1>2, <1>5, <1>6, Together

\* isrewrite ends: the position is restored, or kept, or the scan has ended.
LEMMA RewriteEnds ==
  ASSUME IInv, ScanInv, NEW c \in Client, NEW p, Rewritten(c, p), call[c].op = "rewrite",
         \/ p # 0 /\ call[c].ph \in {"new", "back"}
         \/ p = 0 /\ call[c].ph = "old",
         Files(c), Wants(c)
  PROVE  ScanInv'
  <1> DEFINE e == h[c]  x == e.cur  r == call[c].new  o == call[c].old
             how(y) == Cmprec(y, r, o)
             past(y) == p = 0 \/ \E i \in 1..(p - 1) : list[i] = y
             done == call[c].ph = "old"
             b(y) == IF p # 0 /\ list[p] = y THEN Bad(Rec(y, r))
                     ELSE IF how(y) = "same" \/ (how(y) = "data" /\ ~(done /\ past(y)))
                            \/ ~(done \/ past(y)) THEN Buffer(e, y)
                     ELSE Good(Rec(y, IF how(y) = "key" /\ past(y) /\ (call[c].keep \/ ~done)
                                      THEN o ELSE r))
             s == Set(e, "m", b("m"))
             v == Back(c, s, b(x))
             stay == p = 0 \/ list[p] # x \/ call[c].sav # <<>>
  <1>1. h' = [h EXCEPT ![c] = v] /\ End(c) /\ Touch(c, {}, stay)
    BY DEF Rewritten
  <1>2. IsHandle(e) /\ x \in Index /\ r \in Z /\ o \in Z
    BY DEF ScanInv, Typed, ScanOK
  <1>3. \A y : IsBuf(b(y))
    <2>1. (\A y : IsBuf(Buffer(e, y))) /\ \A k : IsBuf(Good(k)) /\ IsBuf(Bad(k))
      BY <1>2, Buffers
    <2> HIDE DEF how, past, done
    <2> QED BY <2>1
  \* Where a position is kept by its key it stays.
  <1>4. ASSUME call[c].keep, p = 0 \/ list[p] # x
        PROVE  b(x).rec = Place(e) \/ \E q \in Z : Key(x, q) = Key(x, o) /\ b(x).rec = Rec(x, q)
    <2>1. CASE b(x) = Buffer(e, x)
      BY <2>1 DEF Place
    <2>2. CASE ~(how(x) = "same" \/ (how(x) = "data" /\ ~(done /\ past(x))) \/ ~(done \/ past(x)))
      <3>1. past(x)
        BY <2>2
      <3>2. b(x) = Good(Rec(x, IF how(x) = "key" THEN o ELSE r))
        BY <2>2, <3>1, <1>4
      <3>3. how(x) # "key" => Key(x, r) = Key(x, o)
        BY Compared
      <3> HIDE DEF b, how, past, done, r, o
      <3>4. b(x).rec = Rec(x, IF how(x) = "key" THEN o ELSE r)
        BY <3>2 DEF Good
      <3> QED BY <3>3, <3>4, <1>2
    <2> QED BY <2>1, <2>2, <1>4
  <1> HIDE DEF b
  <1>5. IsHandle(s) /\ s.cur = x /\ s.start = e.start
    <2> DEFINE bm == b("m")  ym == "m"
    <2>1. IsBuf(bm)
      BY <1>3
    <2> HIDE DEF bm, ym, e
    <2>2. IsHandle(Set(e, ym, bm)) /\ Set(e, ym, bm).cur = e.cur /\ Set(e, ym, bm).start = e.start
      BY <2>1, <1>2, SetIs
    <2> QED BY <2>2 DEF bm, ym
  <1> HIDE DEF s
  <1>6. /\ IsHandle(v) /\ v.cur = x /\ v.start = e.start
        /\ Place(v) = IF call[c].sav = <<>> THEN b(x).rec ELSE call[c].sav[1]
    <2> DEFINE bx == b(x)
    <2>1. IsBuf(bx)
      BY <1>3
    <2> HIDE DEF bx, x, e
    <2>2. /\ IsHandle(Back(c, s, bx))
          /\ Back(c, s, bx).cur = s.cur /\ Back(c, s, bx).start = s.start
      BY <2>1, <1>5, BackIs
    <2>3. Place(Back(c, s, bx)) = IF call[c].sav = <<>> THEN bx.rec ELSE call[c].sav[1]
      BY <2>1, <1>5, BackPlace
    <2> QED BY <2>2, <2>3, <1>5 DEF bx
  <1> HIDE DEF v
  <1>7. Handles(c) /\ h'[c] = v /\ Calls(c) /\ call'[c] = Idle
    BY <1>1, HandleIs, ToIs
  <1>8. Scans(c, {}) /\ (stay => Thins(scan[c], scan'[c], {})) /\ (~stay => scan'[c] = NoScan)
    <2> HIDE DEF stay
    <2> QED BY <1>1, TouchIs
  <1>9. ASSUME stay, scan'[c].on, v.start = "CURR" PROVE Going(v, Idle, scan'[c])
    <2>1. Going(e, call[c], scan'[c])
      BY <1>6, <1>8, <1>9, Was
    <2>2. CASE call[c].sav # <<>>
      <3>1. Ahead(x, scan'[c], call[c].sav[1])
        BY <2>1, <2>2 DEF Going
      <3>2. Ahead(v.cur, scan'[c], Place(v))
        BY <3>1, <2>2, <1>6
      <3> QED BY <3>2, Nothing DEF Going
    <2>3. CASE call[c].sav = <<>>
      <3>1. call[c].keep /\ Ahead(x, scan'[c], Place(e)) /\ Prefix(Place(e), Klen[x]) = Key(x, o)
        BY <2>1, <2>3 DEF Going
      <3>2. p = 0 \/ list[p] # x
        BY <2>3, <1>9
      <3>3. b(x).rec = Place(e) \/ \E q \in Z : Key(x, q) = Key(x, o) /\ b(x).rec = Rec(x, q)
        BY <3>1, <3>2, <1>4
      <3>4. \A q \in Z : Key(x, q) = Key(x, o) => Ahead(x, scan'[c], Rec(x, q))
        BY <3>1, <1>2, SameAhead
      <3>5. Ahead(v.cur, scan'[c], Place(v))
        BY <3>1, <3>3, <3>4, <2>3, <1>6
      <3> QED BY <3>5, Nothing DEF Going
    <2> QED BY <2>2, <2>3
  <1>10. ScanOK(v, Idle, scan'[c]) /\ MustOK(scan'[c], {}) /\ IsScan(scan'[c])
    <2> HIDE DEF stay
    <2> QED BY <1>6, <1>8, <1>9, Nothing, Quiet
  <1>11. Typed(h'[c], call'[c], scan'[c]) /\ About(c, {})
    BY <1>6, <1>7, <1>10, Onward
  <1> QED BY <1>7, <1>8, <1>10, <1>11, Together

LEMMA RewriteNewScan ==
  ASSUME Disciplined, Numbered, IInv, ScanInv, NEW c \in Client, RewriteNew(c) \/ RewriteBack(c)
  PROVE  ScanInv'
  <1> DEFINE k == call[c]
  <1>1. k.op = "rewrite" /\ k.ph \in {"new", "back"} /\ want' = want /\ k.i \in DOMAIN Chain
    BY Opening DEF RewriteNew, RewriteBack, At, CallOK, Works
  <1>2. k.i # 0
    BY <1>1, ChainFacts
  <1>3. \/ /\ h' = h /\ scan' = scan
           /\ \/ \E j : Go(c, "new", j) \/ Go(c, "old", j)
              \/ \E b : To(c, [k EXCEPT !.ph = "back", !.j = b])
              \/ k.ph = "back" /\ \E b : To(c, [k EXCEPT !.j = b])
        \/ Rewritten(c, k.i)
    <2>1. CASE RewriteNew(c)
      BY <2>1 DEF RewriteNew
    <2>2. CASE RewriteBack(c)
      BY <2>2 DEF RewriteBack, At
    <2> QED BY <2>1, <2>2
  <1>4. Files(c) /\ Wants(c)
    <2>1. file' = file \/ (\E x : Put(x, k.new)) \/ \E x, l : Drop(x, l)
      <3>1. CASE RewriteNew(c)
        BY <3>1 DEF RewriteNew
      <3>2. CASE RewriteBack(c)
        BY <3>2 DEF RewriteBack
      <3> QED BY <3>1, <3>2
    <2> QED BY <2>1, <1>1, FileIs DEF IInv
  <1>5. CASE Rewritten(c, k.i)
    <2> DEFINE p == k.i
    <2>1. Rewritten(c, p) /\ p # 0
      BY <1>2, <1>5
    <2> HIDE DEF p
    <2> QED BY <2>1, <1>1, <1>4, RewriteEnds
  <1>6. CASE /\ h' = h /\ scan' = scan
             /\ \/ \E j : Go(c, "new", j) \/ Go(c, "old", j)
                \/ \E b : To(c, [k EXCEPT !.ph = "back", !.j = b])
                \/ k.ph = "back" /\ \E b : To(c, [k EXCEPT !.j = b])
    <2>1. Calls(c) /\ Same(k, call'[c]) /\ call'[c].ph \in {"new", "back", "old"}
      BY <1>6, ToIs
    <2> QED BY <2>1, <1>1, <1>4, <1>6, RewriteGoes
  <1> QED BY <1>3, <1>5, <1>6

LEMMA RewriteOldScan ==
  ASSUME Disciplined, Numbered, IInv, ScanInv, NEW c \in Client, RewriteOld(c)
  PROVE  ScanInv'
  <1> DEFINE k == call[c]  w == WantOf(want, c)  x == Chain[k.i]
             there == Matching(x, Key(x, k.new)) # {}
  <1>1. /\ k.op = "rewrite" /\ k.ph = "old" /\ k.i \in DOMAIN Chain /\ k.old \in w /\ list = Chain
    BY Opening DEF RewriteOld, At, CallOK, Works
  <1>2. x \in Index
    BY <1>1, ChainFacts
  <1>3. Cmprec(x, k.new, k.old) = "data" => there
    <2>1. ~Gone(k, k.i)
      BY <1>1, ChainFacts DEF Gone
    <2>2. Rec(x, k.old) \in file[x]
      BY <2>1, <1>1, Opening, Present
    <2>3. Cmprec(x, k.new, k.old) = "data" => Key(x, k.old) = Key(x, k.new)
      BY Compared
    <2>4. Rec(x, k.old) \in Matching(x, Key(x, k.old))
      BY <1>2, <2>2, Matches DEF Matching, With
    <2> QED BY <2>3, <2>4
  <1>4. /\ \/ \E l : Drop(x, l)
           \/ file' = [file EXCEPT ![x] = (@ \ Matching(x, Key(x, k.new))) \union {Rec(x, k.new)}]
        /\ \/ (\E j : Go(c, "old", j)) /\ h' = h /\ want' = want /\ scan' = scan
           \/ Rewritten(c, 0) /\ want' = (want \ {k.old}) \union {k.new}
    BY <1>1, <1>3 DEF RewriteOld
  <1>5. Files(c)
    <2>1. ASSUME file' = [file EXCEPT ![x] = (@ \ Matching(x, Key(x, k.new))) \union {Rec(x, k.new)}]
          PROVE  Files(c)
      <3>1. file = [y \in Index |-> file[y]]
        BY DEF IInv, Shape
      <3> HIDE DEF x
      <3>2. \A y \in Index : y # x => file'[y] = file[y]
        BY <2>1, <3>1
      <3>3. file'[x] = (file[x] \ Matching(x, Key(x, k.new))) \union {Rec(x, k.new)}
        BY <2>1, <3>1, <1>2
      <3> QED BY <3>2, <3>3 DEF Files
    <2>2. (\E l : Drop(x, l)) => Files(c)
      BY FileIs DEF IInv
    <2> QED BY <2>1, <2>2, <1>4
  <1>6. Wants(c)
    BY <1>4 DEF Wants, Changing
  <1>7. CASE Rewritten(c, 0)
    <2> DEFINE p == 0
    <2>1. Rewritten(c, p) /\ p = 0
      BY <1>7
    <2> HIDE DEF p
    <2> QED BY <2>1, <1>1, <1>5, <1>6, RewriteEnds
  <1>8. CASE (\E j : Go(c, "old", j)) /\ h' = h /\ scan' = scan
    <2>1. Calls(c) /\ Same(k, call'[c]) /\ call'[c].ph = "old"
      BY <1>8, ToIs
    <2> QED BY <2>1, <1>1, <1>5, <1>6, <1>8, RewriteGoes
  <1> QED BY <1>4, <1>7, <1>8

\* A scan that begins has to meet what no call is about.
LEMMA NewIs ==
  ASSUME ScanInv, NEW c \in Client, ~Works(call[c])
  PROVE  /\ NewScan.on = TRUE /\ NewScan.seen = {} /\ NewScan.must = Settled
         /\ IsScan(NewScan) /\ MustOK(NewScan, {})
  <1>1. NewScan.on = TRUE /\ NewScan.seen = {} /\ NewScan.must = Settled /\ IsScan(NewScan)
    <2> DEFINE R == {r \in want : r.m \notin Changing}
               yes == TRUE
               u == [NoScan EXCEPT !.on = yes]
               t == [u EXCEPT !.must = R]
    <2>1. R = Settled /\ NewScan = [NoScan EXCEPT !.on = yes, !.must = R]
      BY DEF NewScan, Settled
    <2>2. yes = TRUE
      OBVIOUS
    <2>3. IsScan(NoScan) /\ NoScan.seen = {}
      BY DEF NoScan, IsScan
    <2> HIDE DEF R, yes
    <2>4. [NoScan EXCEPT !.on = yes, !.must = R] = t
      BY <2>3 DEF IsScan
    <2>5. IsScan(u) /\ u.on = yes /\ u.seen = {}
      BY <2>3 DEF IsScan
    <2> HIDE DEF u
    <2>6. IsScan(t) /\ t.on = yes /\ t.seen = {} /\ t.must = R
      BY <2>5 DEF IsScan
    <2> HIDE DEF t
    <2> QED BY <2>1, <2>2, <2>4, <2>6
  <1>2. call[c].new.m = 0
    BY Nothing DEF ScanInv, Typed
  <1>3. \A r \in Settled : r.m # 0
    BY <1>2 DEF Settled, Changing
  <1> QED BY <1>1, <1>3 DEF MustOK

\* A scan of s is to meet all it has to if what is left is among the records R of
\* which the read takes the lowest.
LEMMA Search ==
  ASSUME IInv, ScanInv, NEW x \in Index, NEW p \in DOMAIN Chain, Chain[p] = x,
         NEW s, MustOK(s, {}), NEW R \in SUBSET file[x],
         \A q \in s.must : q.m \in s.seen \/ (Rec(x, q) \in file[x] => Rec(x, q) \in R)
  PROVE  /\ Lowest(R) # None => Reached(x, s, Lowest(R))
         /\ Lowest(R) = None => \A q \in s.must : q.m \in s.seen
  <1>1. \A q \in s.must : q \in Z /\ Rec(x, q) \in file[x]
    <2>1. \A q \in s.must : q \in Settled /\ q \in Z
      BY DEF MustOK, Settled, ScanInv
    <2>2. x \in ToSet(list)
      BY DEF IInv, ToSet
    <2>3. {k \in file[x] : MasterKey(x, k)[1] \notin Changing} = {Rec(x, r) : r \in Settled}
      BY <2>2, Agree DEF IndexesAgree
    <2>4. \A r \in Settled : Rec(x, r) \in file[x]
      BY <2>3
    <2> QED BY <2>1, <2>4
  <1>2. /\ IsFiniteSet(file[x]) /\ \A k \in file[x] : \E r \in Z : k = Rec(x, r)
        /\ \A k, l \in file[x] : Prefix(k, Klen[x]) = Prefix(l, Klen[x]) => k = l
    BY DEF ScanInv, IInv, Unique
  <1>3. Numbers(R, x)
    <2>1. IsFiniteSet(R)
      BY <1>2, FS_Subset
    <2> QED BY <2>1, <1>2 DEF Numbers
  <1>4. CASE R = {}
    BY <1>1, <1>4 DEF Lowest
  <1>5. CASE R # {}
    <2> DEFINE f == Lowest(R)
    <2>1. f \in R /\ \A b \in R \ {f} : Below(f, b)
      BY <1>3, <1>5, Extremes
    <2> HIDE DEF f
    <2>2. PICK r \in Z : f = Rec(x, r)
      BY <2>1, <1>2
    <2>3. f # None
      <3>1. /\ Rec("m", r) = <<r.m, r.s, r.d, r.n>> /\ Rec("s", r) = <<r.s, r.m>>
            /\ Rec("d", r) = <<r.d, r.m>> /\ Rec("n", r) = <<r.n, r.m>>
        BY Recs
      <3> QED BY <3>1, <2>2 DEF Index, None
    <2>4. ASSUME NEW q \in s.must, q.m \notin s.seen PROVE q.m = r.m \/ Before(x, r, q)
      <3>1. Rec(x, q) \in R /\ q \in Z
        BY <2>4, <1>1
      <3>2. CASE Rec(x, q) = f
        BY <3>2, <2>2, SameMaster
      <3>3. CASE Rec(x, q) # f
        <4>1. Below(Rec(x, r), Rec(x, q))
          BY <3>1, <3>3, <2>1, <2>2
        <4>2. Key(x, r) # Key(x, q)
          BY <3>1, <3>3, <2>1, <2>2, <1>2 DEF Key
        <4> QED BY <4>1, <4>2, <3>1, Ordered
      <3> QED BY <3>2, <3>3
    <2>5. Reached(x, s, f)
      BY <2>2, <2>4 DEF Reached
    <2> QED BY <2>3, <2>5 DEF f
  <1> QED BY <1>4, <1>5

\* What a read ahead has to find: the next record that the scan has to meet is not
\* in front of it, and at the end there is none.
Aimed(c, mode, f) ==
  LET s == Begun(c, mode)
  IN mode \in {"FIRST", "NEXT"} /\ s.on =>
       /\ f # None => Reached(h[c].cur, s, f)
       /\ f = None /\ mode = "NEXT" => \A q \in s.must : q.m \in s.seen

\* The history of a scan that begins or goes on.
LEMMA BegunIs ==
  ASSUME ScanInv, NEW c \in Client, ~Works(call[c]), NEW mode
  PROVE  /\ IsScan(Begun(c, mode)) /\ MustOK(Begun(c, mode), {})
         /\ mode = "FIRST" => Begun(c, mode).on = TRUE
         /\ scan[c].on \/ mode # "FIRST" => Begun(c, mode) = scan[c]
  <1>1. IsScan(scan[c]) /\ MustOK(scan[c], {})
    BY DEF ScanInv, Typed
  <1>2. Begun(c, mode) = IF mode = "FIRST" /\ ~scan[c].on THEN NewScan ELSE scan[c]
    BY DEF Begun
  <1>3. NewScan.on = TRUE /\ IsScan(NewScan) /\ MustOK(NewScan, {})
    BY NewIs
  <1> QED BY <1>1, <1>2, <1>3

\* isread with no record in its way: a scan that was aimed well has met all it had to.
LEMMA AtEndScan ==
  ASSUME IInv, ScanInv, NEW c \in Client, ~Works(call[c]), NEW mode, NEW k,
         AtEnd(c, mode, k), End(c), Aimed(c, mode, None), file' = file, want' = want
  PROVE  ScanInv'
  <1> DEFINE e == h[c]
             st == CASE mode \in {"LESS", "LTEQ", "PREV"} -> "FIRST"
                     [] mode \in {"GREAT", "GTEQ", "NEXT"} -> "LAST"
                     [] OTHER -> "CURR"
             u == [e EXCEPT !.start = st]
             b == Bad(k)
             v == Set(u, e.cur, b)
             off == [scan[c] EXCEPT !.on = FALSE]
             t == IF mode \in {"FIRST", "NEXT"} /\ scan[c].on THEN off ELSE NoScan
  <1>1. h' = [h EXCEPT ![c] = v] /\ scan' = [scan EXCEPT ![c] = t]
    BY DEF AtEnd, ScanInv
  <1>2. st = "LAST" => mode # "FIRST"
    OBVIOUS
  <1>3. IsHandle(e) /\ IsScan(scan[c]) /\ MustOK(scan[c], {}) /\ ScanOK(e, call[c], scan[c]) /\ IsBuf(b)
    <2>1. IsHandle(e) /\ IsScan(scan[c]) /\ MustOK(scan[c], {}) /\ ScanOK(e, call[c], scan[c])
      BY DEF ScanInv, Typed
    <2> HIDE DEF e
    <2> QED BY <2>1, Buffers
  <1> HIDE DEF b, st, e
  <1>4. IsHandle(u) /\ u.cur = e.cur /\ u.start = st
    BY <1>3 DEF IsHandle
  <1> HIDE DEF u
  <1>5. IsHandle(v) /\ v.cur = e.cur /\ v.start = st
    <2> DEFINE x == e.cur
    <2> HIDE DEF x
    <2>1. IsHandle(Set(u, x, b)) /\ Set(u, x, b).cur = u.cur /\ Set(u, x, b).start = u.start
      BY <1>3, <1>4, SetIs
    <2> QED BY <2>1, <1>4 DEF x
  <1> HIDE DEF v
  <1>6. /\ IsScan(off) /\ off.on = FALSE /\ off.seen = scan[c].seen /\ off.must = scan[c].must
    <2> DEFINE no == FALSE  s == scan[c]  o == [s EXCEPT !.on = no]
    <2>1. IsScan(s) /\ off = o /\ no = FALSE
      BY <1>3
    <2> HIDE DEF no, s, off
    <2>2. IsScan(o) /\ o.on = no /\ o.seen = s.seen /\ o.must = s.must
      BY <2>1 DEF IsScan
    <2> HIDE DEF o
    <2> QED BY <2>1, <2>2 DEF s
  <1>7. IsScan(NoScan) /\ NoScan.on = FALSE /\ NoScan.seen = {} /\ NoScan.must = {}
    BY DEF NoScan, IsScan
  <1> HIDE DEF off
  <1>8. IsScan(t) /\ t.on = FALSE /\ MustOK(t, {})
    BY <1>3, <1>6, <1>7 DEF MustOK
  <1>9. st = "LAST" /\ t.seen # {} => \A q \in t.must : q.m \in t.seen
    <2>1. st = "LAST" /\ t.seen # {} => mode = "NEXT" /\ scan[c].on /\ t = off
      BY <1>2, <1>7
    <2>2. mode = "NEXT" => Begun(c, mode) = scan[c]
      BY DEF Begun
    <2>3. mode = "NEXT" /\ scan[c].on => \A q \in scan[c].must : q.m \in scan[c].seen
      BY <2>2 DEF Aimed
    <2> QED BY <2>1, <2>3, <1>6
  <1>10. Handles(c) /\ h'[c] = v /\ Calls(c) /\ call'[c] = Idle /\ Files(c) /\ Wants(c)
    BY <1>1, HandleIs, ToIs, FileIs DEF IInv
  <1>11. Scans(c, {}) /\ scan'[c] = t
    <2> HIDE DEF t
    <2> QED BY <1>1, ScansRest
  <1> HIDE DEF t
  <1>12. ScanOK(v, Idle, t)
    BY <1>3, <1>5, <1>8, <1>9, Nothing DEF ScanOK
  <1>13. Typed(h'[c], call'[c], scan'[c]) /\ About(c, {})
    BY <1>5, <1>8, <1>10, <1>11, Onward
  <1> QED BY <1>8, <1>10, <1>11, <1>12, <1>13, Together

\* What a record met adds to the history of a scan.
LEMMA MetIs ==
  ASSUME NEW s, IsScan(s), MustOK(s, {}), NEW x \in Index, NEW mode, NEW k
  PROVE  /\ IsScan(Met(s, x, mode, k)) /\ MustOK(Met(s, x, mode, k), {})
         /\ Reached(x, s, k) /\ s.on => Ahead(x, Met(s, x, mode, k), k) \/ ~Met(s, x, mode, k).on
         /\ mode \notin {"FIRST", "NEXT"} \/ ~s.on => Met(s, x, mode, k) = NoScan
  <1> DEFINE m == MasterKey(x, k)[1]
             a == [s EXCEPT !.last = k]
             N == s.seen \union {m}
             t == [a EXCEPT !.seen = N]
  <1>1. IsScan(NoScan) /\ NoScan.on = FALSE /\ NoScan.must = {}
    BY DEF NoScan, IsScan
  <1>2. Met(s, x, mode, k) = IF mode \in {"FIRST", "NEXT"} /\ s.on THEN t ELSE NoScan
    <2>1. [s EXCEPT !.last = k, !.seen = @ \union {m}] = t
      BY DEF IsScan
    <2> QED BY <2>1 DEF Met
  <1>3. IsScan(a) /\ a.on = s.on /\ a.seen = s.seen /\ a.must = s.must
    BY DEF IsScan
  <1>4. N = s.seen \union {m}
    OBVIOUS
  <1> HIDE DEF a, N
  <1>5. IsScan(t) /\ t.on = s.on /\ t.seen = N /\ t.must = s.must
    BY <1>3 DEF IsScan
  <1> HIDE DEF t
  <1>6. MustOK(t, {}) /\ MustOK(NoScan, {})
    BY <1>1, <1>5 DEF MustOK
  <1>7. Reached(x, s, k) => Ahead(x, t, k)
    <2>1. SUFFICES ASSUME NEW p \in Z, k = Rec(x, p),
                          \A q \in s.must : q.m \in s.seen \/ q.m = p.m \/ Before(x, p, q)
                   PROVE  Ahead(x, t, k)
      BY DEF Reached
    <2>2. MasterKey(x, k) = <<p.m>>
      BY <2>1, MasterOf
    <2>3. m = p.m
      BY <2>2
    <2>4. Past(x, t, p)
      BY <2>1, <2>3, <1>4, <1>5 DEF Past
    <2> QED BY <2>1, <2>4 DEF Ahead, Standing
  <1> QED BY <1>1, <1>2, <1>5, <1>6, <1>7

\* isread: a scan is where it has to be for the record that was found.
LEMMA KeyReadScan ==
  ASSUME IInv, ScanInv, NEW c \in Client, ~Works(call[c]), NEW mode, NEW op, NEW k,
         KeyRead(c, mode, op, k), Aimed(c, mode, Find(h[c].cur, op, k)), file' = file, want' = want
  PROVE  ScanInv'
  <1> DEFINE e == h[c]
             x == e.cur
             f == Find(x, op, k)
             u == [e EXCEPT !.start = "CURR"]
             b == Good(f)
             v == Set(u, x, b)
             s == Begun(c, mode)
             l == [Idle EXCEPT !.op = "read", !.ph = mode]
  <1>1. \/ f = None /\ AtEnd(c, mode, k) /\ End(c)
        \/ /\ f # None /\ h' = [h EXCEPT ![c] = v]
           /\ \/ x = "m" /\ End(c) /\ scan' = [scan EXCEPT ![c] = Met(s, x, mode, f)]
              \/ x # "m" /\ To(c, l) /\ scan' = [scan EXCEPT ![c] = s]
    BY DEF KeyRead
  <1>2. CASE f = None /\ AtEnd(c, mode, k) /\ End(c)
    <2>1. Aimed(c, mode, None)
      BY <1>2
    <2> QED BY <2>1, <1>2, AtEndScan
  <1>3. ASSUME f # None, h' = [h EXCEPT ![c] = v],
               \/ x = "m" /\ End(c) /\ scan' = [scan EXCEPT ![c] = Met(s, x, mode, f)]
               \/ x # "m" /\ To(c, l) /\ scan' = [scan EXCEPT ![c] = s]
        PROVE  ScanInv'
    <2>1. mode \in {"FIRST", "NEXT"} /\ s.on => Reached(x, s, f)
      BY <1>3 DEF Aimed
    <2>2. l.op = "read" /\ l.ph = mode /\ l.new = NoRec /\ l.old = NoRec
      BY DEF Idle
    <2> HIDE DEF f
    <2>3. IsHandle(e) /\ ScanOK(e, call[c], scan[c]) /\ IsBuf(b) /\ b.rec = f /\ x \in Index
      <3>1. IsHandle(e) /\ ScanOK(e, call[c], scan[c])
        BY DEF ScanInv, Typed
      <3> HIDE DEF e
      <3> QED BY <3>1, Buffers DEF ScanOK
    <2> HIDE DEF b, e
    <2>4. IsHandle(u) /\ u.cur = x /\ u.start = "CURR"
      BY <2>3 DEF IsHandle
    <2> HIDE DEF u, x
    <2>5. IsHandle(v) /\ v.cur = x /\ v.start = "CURR" /\ Place(v) = f
      <3>1. /\ IsHandle(Set(u, x, b)) /\ Set(u, x, b).cur = u.cur /\ Set(u, x, b).start = u.start
            /\ Place(Set(u, x, b)) = b.rec
        BY <2>3, <2>4, SetIs
      <3> QED BY <3>1, <2>3, <2>4
    <2> HIDE DEF v, l
    <2>6. /\ IsScan(s) /\ MustOK(s, {}) /\ (mode = "FIRST" => s.on = TRUE)
      BY BegunIs
    <2> HIDE DEF s
    <2>7. Handles(c) /\ h'[c] = v /\ Files(c) /\ Wants(c)
      BY <1>3, HandleIs, FileIs DEF IInv
    <2>8. \E p \in DOMAIN Chain : Chain[p] = x
      BY <2>3 DEF ScanOK, x
    <2>9. CASE x = "m" /\ End(c) /\ scan' = [scan EXCEPT ![c] = Met(s, x, mode, f)]
      <3> DEFINE t == Met(s, x, mode, f)
      <3>1. IsScan(t) /\ MustOK(t, {})
        BY <2>3, <2>6, MetIs
      <3>2. t.on => Ahead(x, t, f)
        <4>1. Reached(x, s, f) /\ s.on => Ahead(x, t, f) \/ ~t.on
          BY <2>3, <2>6, MetIs
        <4>2. mode \notin {"FIRST", "NEXT"} \/ ~s.on => t = NoScan
          BY <2>3, <2>6, MetIs
        <4>3. NoScan.on = FALSE
          BY DEF NoScan
        <4> HIDE DEF t
        <4> QED BY <4>1, <4>2, <4>3, <2>1
      <3> HIDE DEF t
      <3>3. Calls(c) /\ call'[c] = Idle /\ Scans(c, {}) /\ scan'[c] = t
        <4>1. scan' = [scan EXCEPT ![c] = t]
          BY <2>9 DEF t
        <4> QED BY <4>1, <2>9, ToIs, ScansRest
      <3>4. t.on => Going(v, Idle, t)
        BY <3>2, <2>5, Nothing DEF Going
      <3>5. ScanOK(v, Idle, t)
        BY <3>4, <2>3, <2>5, <2>8, Nothing DEF ScanOK
      <3>6. Typed(h'[c], call'[c], scan'[c]) /\ About(c, {})
        BY <3>1, <3>3, <2>5, <2>7, Onward
      <3> QED BY <3>1, <3>3, <3>5, <3>6, <2>7, Together
    <2>10. CASE x # "m" /\ To(c, l) /\ scan' = [scan EXCEPT ![c] = s]
      <3>1. Calls(c) /\ call'[c] = l /\ Scans(c, {}) /\ scan'[c] = s
        BY <2>10, ToIs, ScansRest
      <3>2. s.on => Going(v, l, s)
        BY <2>1, <2>2, <2>5 DEF Going
      <3>3. ScanOK(v, l, s)
        BY <3>2, <2>2, <2>3, <2>5, <2>6, <2>8, <2>10 DEF ScanOK
      <3>4. Typed(v, l, s)
        BY <2>2, <2>5, <2>6, Nothing DEF Typed
      <3>5. About(c, {})
        BY <3>1, <2>2, Nothing DEF About
      <3> QED BY <3>1, <3>3, <3>4, <3>5, <2>6, <2>7, Together
    <2> QED BY <1>3, <2>9, <2>10
  <1> HIDE DEF f, v, s, l
  <1> QED BY <1>1, <1>2, <1>3

\* A read of what comes next finds no record behind one that the scan has still to meet,
\* and nor does a read of the first.
LEMMA NextFound ==
  ASSUME IInv, ScanInv, NEW x \in Index, NEW p \in DOMAIN Chain, Chain[p] = x,
         NEW s, MustOK(s, {}), NEW k, Ahead(x, s, k)
  PROVE  /\ Find(x, "READGT", k) # None => Reached(x, s, Find(x, "READGT", k))
         /\ Find(x, "READGT", k) = None => \A q \in s.must : q.m \in s.seen
  <1> DEFINE R == {r \in file[x] : Below(k, r)}
  <1>1. Find(x, "READGT", k) = Lowest(R)
    BY DEF Find
  <1>2. ASSUME NEW q \in s.must, q.m \notin s.seen, Rec(x, q) \in file[x] PROVE Rec(x, q) \in R
    <2>1. PICK r \in Z : Standing(x, k, r) /\ Past(x, s, r)
      BY DEF Ahead
    <2>2. q \in Z /\ Before(x, r, q)
      BY <2>1, <1>2 DEF Past, MustOK, Settled, ScanInv
    <2>3. Below(k, Rec(x, q))
      BY <2>1, <2>2, Ordered DEF Standing
    <2> QED BY <2>3, <1>2
  <1>3. R \in SUBSET file[x]
    OBVIOUS
  <1> HIDE DEF R
  <1> QED BY <1>1, <1>2, <1>3, Search

LEMMA FirstFound ==
  ASSUME IInv, ScanInv, NEW x \in Index, NEW p \in DOMAIN Chain, Chain[p] = x,
         NEW s, MustOK(s, {})
  PROVE  Find(x, "READGE", None) # None => Reached(x, s, Find(x, "READGE", None))
  <1> DEFINE R == {r \in file[x] : ~Below(r, None)}
  <1>1. Find(x, "READGE", None) = Lowest(R)
    BY DEF Find
  <1>2. \A r : ~Below(r, None)
    BY DEF Below, None
  <1>3. R \in SUBSET file[x] /\ \A r \in file[x] : r \in R
    BY <1>2
  <1> HIDE DEF R
  <1> QED BY <1>1, <1>3, Search

\* isread begins with the first record, or goes on from where the client is.
LEMMA ReadScan ==
  ASSUME Disciplined, Numbered, IInv, ScanInv, NEW c \in Client, Read(c)
  PROVE  ScanInv'
  <1> DEFINE e == h[c]  x == e.cur
  <1>1. ~Busy(c) /\ file' = file /\ want' = want
    BY DEF Read
  <1>2. /\ call[c].op = "idle" /\ ~Works(call[c]) /\ IsHandle(e) /\ ScanOK(e, call[c], scan[c])
        /\ IsScan(scan[c]) /\ MustOK(scan[c], {})
    BY <1>1 DEF Busy, Works, ScanInv, Typed
  <1>3. PICK m \in Modes, r \in want :
          LET mode == Effective(e.start, m)
              b == Cur(c)
          IN /\ ~(e.start = "LAST" /\ m = "NEXT")
             /\ IF mode = "CURR" /\ x \notin {"m", "n"}
                THEN /\ To(c, [Idle EXCEPT !.op = "read", !.ph = "CURR"])
                     /\ h' = [h EXCEPT ![c].start = "CURR"] /\ scan' = scan
                ELSE LET q == Request(mode, x, r, b) IN KeyRead(c, mode, q.op, q.k)
    BY DEF Read
  <1> DEFINE mode == Effective(e.start, m)  b == Cur(c)
             q == Request(mode, x, r, b)  op == q.op  k == q.k
  <1>4. mode = "NEXT" => e.start = "CURR" \/ ~scan[c].on
    BY <1>2, <1>3 DEF Effective, ScanOK
  <1>5. CASE KeyRead(c, mode, op, k)
    <2>1. /\ mode = "FIRST" => op = "READGE" /\ k = None
          /\ mode = "NEXT" => op = "READGT" /\ k = Place(e)
      BY DEF Request, Cur, Place
    <2> DEFINE s == Begun(c, mode)
    <2> HIDE DEF mode, op, k
    <2>2. PICK p \in DOMAIN Chain : Chain[p] = x /\ x \in Index
      BY <1>2 DEF ScanOK
    <2>3. MustOK(s, {}) /\ (mode = "NEXT" => s = scan[c])
      BY <1>2, BegunIs
    <2>4. ASSUME mode = "FIRST" PROVE Aimed(c, mode, Find(x, op, k))
      <3>1. Find(x, "READGE", None) # None => Reached(x, s, Find(x, "READGE", None))
        BY <2>2, <2>3, FirstFound
      <3> QED BY <3>1, <2>1, <2>4 DEF Aimed
    <2>5. ASSUME mode = "NEXT", s.on PROVE Aimed(c, mode, Find(x, op, k))
      <3>1. Ahead(x, s, k)
        BY <2>1, <2>3, <2>5, <1>2, <1>4 DEF ScanOK, Going
      <3> HIDE DEF s, x
      <3>2. /\ Find(x, "READGT", k) # None => Reached(x, s, Find(x, "READGT", k))
            /\ Find(x, "READGT", k) = None => \A a \in s.must : a.m \in s.seen
        BY <3>1, <2>2, <2>3, NextFound
      <3> QED BY <3>2, <2>1, <2>5 DEF Aimed, s, x
    <2>6. Aimed(c, mode, Find(x, op, k))
      BY <2>4, <2>5 DEF Aimed
    <2> QED BY <2>6, <1>1, <1>2, <1>5, KeyReadScan
  <1>6. CASE /\ x \notin {"m", "n"}
             /\ To(c, [Idle EXCEPT !.op = "read", !.ph = "CURR"])
             /\ h' = [h EXCEPT ![c].start = "CURR"] /\ scan' = scan
    <2> DEFINE l == [Idle EXCEPT !.op = "read", !.ph = "CURR"]
               v == [e EXCEPT !.start = "CURR"]
    <2>1. l.op = "read" /\ l.ph = "CURR" /\ l.new = NoRec /\ l.old = NoRec
      BY DEF Idle
    <2>2. h' = [h EXCEPT ![c] = v]
      BY <1>6
    <2> HIDE DEF l, e
    <2>3. IsHandle(v) /\ v.cur = e.cur /\ v.start = "CURR"
      BY <1>2 DEF IsHandle
    <2> HIDE DEF v
    <2>4. Handles(c) /\ h'[c] = v /\ Files(c) /\ Wants(c)
      BY <2>2, <1>1, HandleIs, FileIs DEF IInv
    <2>5. Calls(c) /\ call'[c] = l /\ Scans(c, {}) /\ scan'[c] = scan[c]
      BY <1>6, ToIs, ScansRest DEF l
    <2>6. Going(v, l, scan[c])
      BY <2>1 DEF Going
    <2>7. ScanOK(v, l, scan[c])
      BY <2>1, <2>3, <2>6, <1>2, <1>6 DEF ScanOK
    <2>8. Typed(v, l, scan[c])
      BY <2>1, <2>3, <1>2, Nothing DEF Typed
    <2>9. About(c, {})
      BY <2>1, <2>5, Nothing DEF About
    <2> QED BY <2>4, <2>5, <2>7, <2>8, <2>9, <1>2, Together
  <1> QED BY <1>3, <1>5, <1>6

\* The master of a record that a scan has to meet is found.
LEMMA MasterThere ==
  ASSUME IInv, NEW q \in Settled
  PROVE  Find("m", "READEQ", <<q.m>>) # None
  <1>1. "m" \in Index /\ "m" \in ToSet(list)
    BY ChainFacts DEF Index, IInv, ToSet
  <1>2. Rec("m", q) \in file["m"]
    <2>1. {k \in file["m"] : MasterKey("m", k)[1] \notin Changing} = {Rec("m", r) : r \in Settled}
      BY <1>1, Agree DEF IndexesAgree
    <2> QED BY <2>1
  <1>3. With(file, "m", Key("m", q)) = {Rec("m", q)}
    BY <1>1, <1>2, Found DEF IInv
  <1>4. Matching("m", <<q.m>>) = {Rec("m", q)}
    BY <1>3, MKey DEF Matching
  <1>5. Cardinality({Rec("m", q)}) = 1
    BY FS_Singleton
  <1>6. Lowest({Rec("m", q)}) = Rec("m", q)
    BY DEF Lowest
  <1>7. Rec("m", q) # None
    <2>1. Rec("m", q) = <<q.m, q.s, q.d, q.n>>
      BY Recs
    <2> QED BY <2>1 DEF None
  <1>8. Find("m", "READEQ", <<q.m>>) = Rec("m", q)
    BY <1>4, <1>5, <1>6 DEF Find
  <1> QED BY <1>7, <1>8

\* isread looks up the master record of a key record, and where it is gone reads on.
LEMMA ReadMasterScan ==
  ASSUME Disciplined, Numbered, IInv, ScanInv, NEW c \in Client, ReadMaster(c)
  PROVE  ScanInv'
  <1> DEFINE e == h[c]  x == e.cur  mode == call[c].ph  k == e.pos.rec  s == scan[c]
             f == Find("m", "READEQ", MasterKey(x, k))
  <1>1. call[c].op = "read" /\ file' = file /\ want' = want
    BY DEF ReadMaster
  <1>2. /\ ~Works(call[c]) /\ IsHandle(e) /\ ScanOK(e, call[c], s)
        /\ IsScan(s) /\ MustOK(s, {}) /\ x # "m" /\ e.start = "CURR" /\ x \in Index
    <2>1. ScanOK(e, call[c], s)
      BY DEF ScanInv
    <2> QED BY <2>1, <1>1 DEF Works, ScanInv, Typed, ScanOK
  <1>3. Place(e) = k
    BY <1>2 DEF Place, Buffer
  <1>4. s.on /\ mode \in {"FIRST", "NEXT"} => Reached(x, s, k)
    BY <1>1, <1>2, <1>3 DEF ScanOK, Going
  <1>5. mode = "FIRST" => s.on
    BY <1>1, <1>2 DEF ScanOK
  <1>6. \/ /\ f # None /\ End(c)
           /\ h' = [h EXCEPT ![c].mst = Good(f)]
           /\ scan' = [scan EXCEPT ![c] = Met(@, x, mode, k)]
        \/ f = None /\ mode \in Forward /\ KeyRead(c, mode, "READGT", k)
        \/ f = None /\ mode \notin {"FIRST", "NEXT"} /\ KeyRead(c, mode, "READLT", k)
        \/ /\ f = None /\ End(c) /\ scan' = [scan EXCEPT ![c] = NoScan]
           /\ h' = [h EXCEPT ![c].mst = Bad(MasterKey(x, k))]
    BY DEF ReadMaster, Forward, Backward
  \* The master record is looked up, whether it is there or not.
  <1>7. ASSUME NEW t, NEW b, End(c), h' = [h EXCEPT ![c].mst = b], scan' = [scan EXCEPT ![c] = t],
               IsBuf(b), IsScan(t), MustOK(t, {}), t.on => Ahead(x, t, k)
        PROVE  ScanInv'
    <2> DEFINE v == [e EXCEPT !.mst = b]
    <2>1. h' = [h EXCEPT ![c] = v]
      BY <1>7
    <2> HIDE DEF e
    <2>2. IsHandle(v) /\ v.cur = e.cur /\ v.start = e.start /\ v.pos = e.pos
      BY <1>2, <1>7 DEF IsHandle
    <2> HIDE DEF v
    <2>3. Handles(c) /\ h'[c] = v /\ Files(c) /\ Wants(c)
      BY <2>1, <1>1, HandleIs, FileIs DEF IInv
    <2>4. Calls(c) /\ call'[c] = Idle /\ Scans(c, {}) /\ scan'[c] = t
      BY <1>7, ToIs, ScansRest
    <2>5. Place(v) = k
      BY <2>2, <1>2 DEF Place, Buffer
    <2>6. t.on => Going(v, Idle, t)
      BY <2>2, <2>5, <1>7, Nothing DEF Going
    <2>7. ScanOK(v, Idle, t)
      BY <2>2, <2>6, <1>2, Nothing DEF ScanOK
    <2>8. Typed(h'[c], call'[c], scan'[c]) /\ About(c, {})
      BY <2>2, <2>3, <2>4, <1>7, Onward
    <2> QED BY <2>3, <2>4, <2>7, <2>8, <1>7, Together
  <1>8. IsScan(NoScan) /\ MustOK(NoScan, {}) /\ NoScan.on = FALSE
    BY DEF NoScan, IsScan, MustOK
  <1>9. \A a : IsBuf(Good(a)) /\ IsBuf(Bad(a))
    <2> HIDE DEF e
    <2> QED BY <1>2, Buffers
  <1>10. CASE /\ f # None /\ End(c)
              /\ h' = [h EXCEPT ![c].mst = Good(f)]
              /\ scan' = [scan EXCEPT ![c] = Met(@, x, mode, k)]
    <2> DEFINE t == Met(s, x, mode, k)  b == Good(f)
    <2>1. scan' = [scan EXCEPT ![c] = t] /\ h' = [h EXCEPT ![c].mst = b]
      BY <1>10
    <2>2. IsBuf(b)
      BY <1>9
    <2> HIDE DEF s, x, k, mode
    <2>3. IsScan(t) /\ MustOK(t, {})
      BY <1>2, MetIs
    <2>4. Reached(x, s, k) /\ s.on => Ahead(x, t, k) \/ ~t.on
      BY <1>2, MetIs
    <2>5. mode \notin {"FIRST", "NEXT"} \/ ~s.on => t = NoScan
      BY <1>2, MetIs
    <2> HIDE DEF t, b
    <2>6. t.on => Ahead(x, t, k)
      BY <2>4, <2>5, <1>4, <1>8
    <2> QED BY <2>1, <2>2, <2>3, <2>6, <1>7, <1>10
  <1>11. CASE /\ f = None /\ End(c) /\ scan' = [scan EXCEPT ![c] = NoScan]
              /\ h' = [h EXCEPT ![c].mst = Bad(MasterKey(x, k))]
    <2> DEFINE t == NoScan  b == Bad(MasterKey(x, k))
    <2>1. IsBuf(b) /\ IsScan(t) /\ MustOK(t, {}) /\ (t.on => Ahead(x, t, k))
      BY <1>8, <1>9
    <2>2. scan' = [scan EXCEPT ![c] = t] /\ h' = [h EXCEPT ![c].mst = b]
      BY <1>11
    <2> HIDE DEF t, b
    <2> QED BY <2>1, <2>2, <1>7, <1>11
  \* The key records without a master are none the scan has to meet.
  <1>12. CASE f = None /\ mode \in Forward /\ KeyRead(c, mode, "READGT", k)
    <2>1. Begun(c, mode) = s
      BY <1>5 DEF Begun
    <2>2. ASSUME s.on, mode \in {"FIRST", "NEXT"} PROVE Ahead(x, s, k)
      <3>1. PICK p \in Z : /\ k = Rec(x, p)
                           /\ \A q \in s.must : q.m \in s.seen \/ q.m = p.m \/ Before(x, p, q)
        BY <2>2, <1>4 DEF Reached
      <3>2. MasterKey(x, k) = <<p.m>>
        BY <3>1, <1>2, MasterOf
      <3>3. ASSUME NEW q \in s.must PROVE q.m # p.m
        <4>1. Find("m", "READEQ", <<q.m>>) # None
          BY <3>3, <1>2, MasterThere DEF MustOK
        <4> QED BY <4>1, <3>2, <1>12
      <3> QED BY <3>1, <3>3 DEF Ahead, Past, Standing
    <2>3. PICK p \in DOMAIN Chain : Chain[p] = x
      BY <1>2 DEF ScanOK
    <2> HIDE DEF s, k, mode, f
    <2>4. ASSUME s.on, mode \in {"FIRST", "NEXT"} PROVE Aimed(c, mode, Find(x, "READGT", k))
      <3>1. Ahead(x, s, k)
        BY <2>2, <2>4
      <3> DEFINE y == x
      <3>2. y = x /\ Ahead(y, s, k) /\ y \in Index /\ Chain[p] = y
        BY <3>1, <2>3, <1>2
      <3> HIDE DEF x, y
      <3>3. /\ Find(y, "READGT", k) # None => Reached(y, s, Find(y, "READGT", k))
            /\ Find(y, "READGT", k) = None => \A a \in s.must : a.m \in s.seen
        BY <3>2, <1>2, NextFound
      <3>4. /\ Find(x, "READGT", k) # None => Reached(x, s, Find(x, "READGT", k))
            /\ Find(x, "READGT", k) = None => \A a \in s.must : a.m \in s.seen
        BY <3>2, <3>3
      <3> QED BY <3>4, <2>1 DEF Aimed, x
    <2>5. Aimed(c, mode, Find(x, "READGT", k))
      BY <2>1, <2>4 DEF Aimed
    <2> DEFINE op == "READGT"
    <2>6. Aimed(c, mode, Find(x, op, k)) /\ KeyRead(c, mode, op, k)
      BY <2>5, <1>12
    <2> HIDE DEF op
    <2> QED BY <2>6, <1>1, <1>2, KeyReadScan
  <1>13. CASE f = None /\ mode \notin {"FIRST", "NEXT"} /\ KeyRead(c, mode, "READLT", k)
    <2> DEFINE op == "READLT"
    <2> HIDE DEF mode, k, f
    <2>1. Aimed(c, mode, Find(x, op, k)) /\ KeyRead(c, mode, op, k)
      BY <1>13 DEF Aimed
    <2> HIDE DEF op
    <2> QED BY <2>1, <1>1, <1>2, KeyReadScan
  <1> QED BY <1>6, <1>10, <1>11, <1>12, <1>13

\* isstart chooses the index and where in it ISNEXT is to start: a scan begins at the
\* front, or none does.
LEMMA StartScan ==
  ASSUME Disciplined, Numbered, IInv, ScanInv, NEW c \in Client, Start(c)
  PROVE  ScanInv'
  <1> DEFINE e == h[c]
  <1>1. ~Busy(c) /\ file' = file /\ want' = want /\ call' = call
    BY DEF Start
  <1>2. /\ call[c].op = "idle" /\ ~Works(call[c]) /\ IsHandle(e) /\ Typed(e, call[c], scan[c])
    BY <1>1 DEF Busy, Works, ScanInv, Typed
  <1>3. PICK x \in ToSet(list) :
          \/ \E mode \in {"FIRST", "LAST"} :
               /\ h' = [h EXCEPT ![c] = Set([@ EXCEPT !.cur = x, !.start = mode], x, Good(None))]
               /\ scan' = [scan EXCEPT ![c] = IF mode = "FIRST" THEN NewScan ELSE NoScan]
          \/ \E op \in {"READF", "READGT", "READGE"}, r \in want :
               LET mode == CASE op = "READF" -> "EQUAL" [] op = "READGT" -> "GREAT"
                             [] op = "READGE" -> "GTEQ"
                   k == Find(x, op, UserKey(x, r))
               IN /\ h' = [h EXCEPT ![c] = Set([@ EXCEPT !.cur = x, !.start = mode], x,
                             IF k = None THEN Bad(UserKey(x, r)) ELSE Good(k))]
                  /\ scan' = [scan EXCEPT ![c] = NoScan]
    BY DEF Start
  <1>4. x \in Index /\ \E p \in DOMAIN Chain : Chain[p] = x
    BY ChainFacts DEF IInv, ToSet
  \* The client is at the place chosen, and the scan that begins has met nothing.
  <1>5. ASSUME NEW mode, NEW b, NEW t, IsBuf(b),
               h' = [h EXCEPT ![c] = Set([@ EXCEPT !.cur = x, !.start = mode], x, b)],
               scan' = [scan EXCEPT ![c] = t], mode # "CURR",
               t = NoScan \/ (mode = "FIRST" /\ t = NewScan)
        PROVE  ScanInv'
    <2> DEFINE u == [e EXCEPT !.cur = x]
               w == [u EXCEPT !.start = mode]
               v == Set(w, x, b)
    <2>1. [e EXCEPT !.cur = x, !.start = mode] = w
      BY <1>2 DEF IsHandle
    <2>2. h' = [h EXCEPT ![c] = v]
      BY <1>5, <2>1
    <2>3. IsHandle(u) /\ u.cur = x
      BY <1>2 DEF IsHandle
    <2> HIDE DEF u
    <2>4. IsHandle(w) /\ w.cur = x /\ w.start = mode
      BY <2>3 DEF IsHandle
    <2> HIDE DEF w
    <2>5. IsHandle(v) /\ v.cur = w.cur /\ v.start = w.start
      BY <2>4, <1>5, SetIs
    <2> HIDE DEF v
    <2>6. Handles(c) /\ h'[c] = v /\ Calls(c) /\ call'[c] = call[c] /\ Files(c) /\ Wants(c)
      BY <2>2, <1>1, HandleIs, ToIs, FileIs DEF IInv
    <2>7. Scans(c, {}) /\ scan'[c] = t
      BY <1>5, ScansRest
    <2>8. IsScan(t) /\ t.seen = {} /\ MustOK(t, {}) /\ (t.on => mode = "FIRST")
      <3>1. IsScan(NoScan) /\ NoScan.seen = {} /\ NoScan.must = {} /\ NoScan.on = FALSE
        BY DEF NoScan, IsScan
      <3>2. MustOK(NoScan, {})
        BY <3>1 DEF MustOK
      <3>3. NewScan.seen = {} /\ IsScan(NewScan) /\ MustOK(NewScan, {})
        BY <1>2, NewIs
      <3> QED BY <3>1, <3>2, <3>3, <1>5
    <2>9. ScanOK(v, call[c], t)
      BY <1>2, <1>4, <1>5, <2>4, <2>5, <2>8 DEF ScanOK
    <2>10. Typed(v, call[c], t)
      BY <1>2, <2>5, <2>8 DEF Typed
    <2>11. About(c, {})
      BY <2>6 DEF About, Changing
    <2> QED BY <2>6, <2>7, <2>8, <2>9, <2>10, <2>11, Together
  <1>6. \A k : IsBuf(Good(k)) /\ IsBuf(Bad(k))
    BY <1>2, Buffers
  <1>7. ASSUME NEW mode \in {"FIRST", "LAST"},
               h' = [h EXCEPT ![c] = Set([@ EXCEPT !.cur = x, !.start = mode], x, Good(None))],
               scan' = [scan EXCEPT ![c] = IF mode = "FIRST" THEN NewScan ELSE NoScan]
        PROVE  ScanInv'
    <2> DEFINE b == Good(None)  t == IF mode = "FIRST" THEN NewScan ELSE NoScan
    <2>1. /\ IsBuf(b) /\ mode # "CURR" /\ (t = NoScan \/ (mode = "FIRST" /\ t = NewScan))
          /\ h' = [h EXCEPT ![c] = Set([@ EXCEPT !.cur = x, !.start = mode], x, b)]
          /\ scan' = [scan EXCEPT ![c] = t]
      BY <1>6, <1>7
    <2> HIDE DEF b, t
    <2> QED BY <2>1, <1>5
  <1>8. ASSUME NEW op \in {"READF", "READGT", "READGE"}, NEW r \in want,
               LET mode == CASE op = "READF" -> "EQUAL" [] op = "READGT" -> "GREAT"
                             [] op = "READGE" -> "GTEQ"
                   k == Find(x, op, UserKey(x, r))
               IN /\ h' = [h EXCEPT ![c] = Set([@ EXCEPT !.cur = x, !.start = mode], x,
                             IF k = None THEN Bad(UserKey(x, r)) ELSE Good(k))]
                  /\ scan' = [scan EXCEPT ![c] = NoScan]
        PROVE  ScanInv'
    <2> DEFINE mode == CASE op = "READF" -> "EQUAL" [] op = "READGT" -> "GREAT"
                         [] op = "READGE" -> "GTEQ"
               k == Find(x, op, UserKey(x, r))
               b == IF k = None THEN Bad(UserKey(x, r)) ELSE Good(k)
               t == NoScan
    <2>1. mode # "CURR" /\ t = NoScan
      OBVIOUS
    <2>2. /\ h' = [h EXCEPT ![c] = Set([@ EXCEPT !.cur = x, !.start = mode], x, b)]
          /\ scan' = [scan EXCEPT ![c] = t]
      BY <1>8
    <2> HIDE DEF mode, k, t
    <2>3. IsBuf(b)
      BY <1>6
    <2> HIDE DEF b
    <2> QED BY <2>1, <2>2, <2>3, <1>5
  <1> QED BY <1>3, <1>7, <1>8

\* At the start no client is in a scan, and there is nothing to meet.
LEMMA InitScan ==
  ASSUME Init
  PROVE  ScanInv
  <1>1. /\ h = [c \in Client |-> h[c]] /\ scan = [c \in Client |-> scan[c]] /\ want = {}
        /\ \A c \in Client : h[c] = Handle /\ call[c] = Idle /\ scan[c] = NoScan
        /\ \A x \in Index : file[x] = {}
    BY DEF Init
  <1>2. IsScan(NoScan) /\ NoScan.on = FALSE /\ NoScan.seen = {} /\ NoScan.must = {}
    BY DEF NoScan, IsScan
  <1>3. IsHandle(Handle) /\ Handle.cur = "m" /\ Handle.start = "FIRST"
    <2>1. IsBuf(Good(None))
      BY DEF IsBuf, Good
    <2> QED BY <2>1 DEF Handle, IsHandle
  <1>4. ScanOK(Handle, Idle, NoScan)
    BY <1>2, <1>3, Nothing, ChainFacts DEF ScanOK, Index
  <1>5. Typed(Handle, Idle, NoScan) /\ MustOK(NoScan, {})
    BY <1>2, <1>3, Nothing DEF Typed, MustOK
  <1>6. \A x \in Index : IsFiniteSet(file[x])
    BY <1>1, FS_EmptySet
  <1> QED BY <1>1, <1>4, <1>5, <1>6 DEF ScanInv

\* Every step keeps the invariant of scans.
LEMMA NextScan ==
  ASSUME Disciplined, Numbered, IInv, ScanInv, [Next]_vars
  PROVE  ScanInv'
  <1>1. CASE UNCHANGED vars
    <2>1. /\ list' = list /\ file' = file /\ h' = h /\ call' = call /\ want' = want /\ scan' = scan
      BY <1>1 DEF vars
    <2>2. Changing' = Changing /\ Settled' = Settled
      BY <2>1 DEF Changing, Settled
    <2>3. \A c \in Client : MustOK(scan[c], {}) => MustOK(scan[c], {})'
      BY <2>1, <2>2 DEF MustOK
    <2> QED BY <2>1, <2>3 DEF ScanInv
  <1>2. ASSUME NEW c \in Client,
               \/ CallWrite(c) \/ WriteNumber(c) \/ WritePut(c) \/ WriteUnnumber(c) \/ WriteUndo(c)
        PROVE  ScanInv'
    BY <1>2, CallWriteScan, WriteNumberScan, WritePutScan
  <1>3. ASSUME NEW c \in Client,
               \/ CallRewcurr(c) \/ CallRewrite(c) \/ CallRewrec(c) \/ RewriteFetch(c)
               \/ RewriteNew(c) \/ RewriteBack(c) \/ RewriteOld(c)
        PROVE  ScanInv'
    BY <1>3, CallRewcurrScan, CallRewriteScan, CallRewrecScan, RewriteFetchScan,
       RewriteNewScan, RewriteOldScan
  <1>4. ASSUME NEW c \in Client, CallDelcurr(c) \/ CallDelete(c) \/ CallDelrec(c) \/ Delete(c)
        PROVE  ScanInv'
    BY <1>4, CallDeleteScan, DeleteScan
  <1>5. ASSUME NEW c \in Client,
               \/ Start(c) \/ Read(c) \/ ReadMaster(c)
               \/ CallUnique(c) \/ UniqueLast(c) \/ UniqueWrite(c) \/ UniqueLower(c) \/ Die(c)
        PROVE  ScanInv'
    BY <1>5, StartScan, ReadScan, ReadMasterScan, UniqueScan, DieScan
  <1>6. ~Bcheck /\ \A x : ~AddIndex(x) /\ ~DelIndex(x)
    BY DEF Disciplined, Bcheck, AddIndex, DelIndex, Alone
  <1> QED BY <1>1, <1>2, <1>3, <1>4, <1>5, <1>6 DEF Next

\* However many clients write, change and delete records of their own meanwhile, a
\* scan by ISNEXT from the first to the last record of any index meets every record
\* that was there all the time (isread with the key record last met, the skip of key
\* records without a master, and the position that isrewrite and isrewrec restore).
THEOREM ScansMeetAll ==
  ASSUME Disciplined, Numbered
  PROVE  Spec => []ScanComplete
  <1>1. Init => IInv /\ ScanInv
    BY InitInv, InitScan
  <1>2. IInv /\ ScanInv /\ [Next]_vars => IInv' /\ ScanInv'
    BY NextInv, NextScan
  <1>3. ScanInv => ScanComplete
    BY DEF ScanInv, ScanOK, ScanComplete
  <1> QED BY <1>1, <1>2, <1>3, PTL DEF Spec
=============================================================================

-------------------------- MODULE Requests_proofs --------------------------
(***************************************************************************)
(* Proofs about Requests, for any number of processes, requests and        *)
(* servers and any setting of its switches: no process waits for a reply   *)
(* that is not on its way, and none finds the reply to another's request.  *)
(***************************************************************************)
EXTENDS Requests, SequenceTheorems, TLAPS

Elems(s) == {s[i] : i \in DOMAIN s}

Message == [pid: Pid \cup {Nobody}, id: Nat, op: Ops \cup {"none"}, long: BOOLEAN, whole: BOOLEAN]
Asking == [pid: Pid, id: Nat, op: Ops, gen: Nat]

(* The types the argument needs; a process that has found the queues of a   *)
(* server knows no later one.                                               *)
QueueTypes ==
  /\ srv \in {"down", "loop", "reply", "clean", "frozen"}
  /\ gen \in Nat /\ reqs \in Nat
  /\ cur \in Message /\ reqq \in Seq(Asking) /\ resq \in Seq(Message)
  /\ alive \subseteq Pid
  /\ conn \in [Pid -> 0..gen] /\ wait \in [Pid -> 0..reqs]
  /\ file \in [Pid -> [msgident: Nat, gen: Nat]] /\ tag \in [msgident: Nat, gen: Nat]
  /\ server_cnt \in [Pid -> Nat]

(* Requests are numbered: a message with the number a process waits for is  *)
(* addressed to it, and so cleanq and the other processes leave it alone.   *)
Numbered(m) == m.id <= reqs /\ \A p \in Pid : wait[p] # 0 /\ m.id = wait[p] => m.pid = p
Distinct ==
  /\ \A p \in Pid : p \notin alive => wait[p] = 0
  /\ \A p, q \in Pid : wait[p] # 0 /\ wait[p] = wait[q] => p = q
  /\ Numbered(cur)
  /\ \A m \in Elems(reqq) : Numbered(m)
  /\ \A m \in Elems(resq) : Numbered(m)

(* On its way, and nothing lost, by the elements of the queues. *)
OnItsWay(id) ==
  \/ \E m \in Elems(reqq) : m.id = id
  \/ \E m \in Elems(resq) : m.id = id
  \/ srv \in {"reply", "clean"} /\ cur.id = id

Expected ==
  \A p \in alive : wait[p] # 0 /\ srv # "down" /\ conn[p] = gen => OnItsWay(wait[p])

IInv == QueueTypes /\ Distinct /\ Expected

-----------------------------------------------------------------------------
(* Sequences: what Append, Tail and Without leave of the elements.          *)
LEMMA ElemsIn ==
  ASSUME NEW S, NEW s \in Seq(S)
  PROVE  Elems(s) \subseteq S
  BY DEF Elems

LEMMA AppendElems ==
  ASSUME NEW S, NEW s \in Seq(S), NEW m \in S
  PROVE  Append(s, m) \in Seq(S) /\ Elems(Append(s, m)) = Elems(s) \cup {m}
  <1>1. /\ Append(s, m) \in Seq(S) /\ DOMAIN s = 1..Len(s) /\ Len(s) \in Nat
        /\ DOMAIN Append(s, m) = 1..(Len(s) + 1)
        /\ Append(s, m)[Len(s) + 1] = m /\ \A i \in 1..Len(s) : Append(s, m)[i] = s[i]
    OBVIOUS
  <1>2. 1..(Len(s) + 1) = 1..Len(s) \cup {Len(s) + 1}
    BY <1>1
  <1> QED BY <1>1, <1>2 DEF Elems

LEMMA TailElems ==
  ASSUME NEW S, NEW s \in Seq(S), s # <<>>
  PROVE  Tail(s) \in Seq(S) /\ Head(s) \in S /\ Elems(s) = Elems(Tail(s)) \cup {Head(s)}
  <1>1. /\ Tail(s) \in Seq(S) /\ DOMAIN s = 1..Len(s) /\ Len(s) \in Nat /\ Len(s) > 0
        /\ DOMAIN Tail(s) = 1..(Len(s) - 1) /\ Head(s) = s[1] /\ Head(s) \in S
        /\ \A i \in 1..(Len(s) - 1) : Tail(s)[i] = s[i + 1]
    OBVIOUS
  <1>2. ASSUME NEW x \in Elems(s) PROVE x \in Elems(Tail(s)) \cup {Head(s)}
    <2>1. PICK i \in 1..Len(s) : x = s[i]
      BY <1>1, <1>2 DEF Elems
    <2>2. CASE i = 1
      BY <1>1, <2>1, <2>2
    <2>3. CASE i # 1
      <3>1. i - 1 \in 1..(Len(s) - 1) /\ (i - 1) + 1 = i
        BY <1>1, <2>3
      <3> QED BY <1>1, <2>1, <3>1, ZenonT(60) DEF Elems
    <2> QED BY <2>2, <2>3
  <1>3. ASSUME NEW x \in Elems(Tail(s)) PROVE x \in Elems(s)
    <2>1. PICK i \in 1..(Len(s) - 1) : x = s[i + 1]
      BY <1>1, <1>3 DEF Elems
    <2>2. i + 1 \in 1..Len(s)
      BY <1>1
    <2> QED BY <1>1, <2>1, <2>2 DEF Elems
  <1>4. Head(s) \in Elems(s)
    BY <1>1 DEF Elems
  <1> QED BY <1>1, <1>2, <1>3, <1>4

LEMMA WithoutAt ==
  ASSUME NEW S, NEW s \in Seq(S), NEW i \in DOMAIN s
  PROVE  /\ Without(s, i) \in Seq(S) /\ DOMAIN Without(s, i) = 1..(Len(s) - 1)
         /\ \A j \in 1..(i - 1) : Without(s, i)[j] = s[j]
         /\ \A j \in i..(Len(s) - 1) : Without(s, i)[j] = s[j + 1]
  <1> DEFINE a == SubSeq(s, 1, i - 1)
             b == SubSeq(s, i + 1, Len(s))
             n == Len(s)
  <1>1. n \in Nat /\ DOMAIN s = 1..n /\ i \in 1..n
    OBVIOUS
  <1>2. a \in Seq(S) /\ Len(a) = i - 1 /\ \A j \in 1..(i - 1) : a[j] = s[j]
    BY <1>1
  <1>3. b \in Seq(S) /\ Len(b) = n - i /\ \A j \in 1..(n - i) : b[j] = s[i + j]
    BY <1>1
  <1>4. Without(s, i) = a \o b
    BY DEF Without
  <1> HIDE DEF a, b, n
  <1>5. /\ a \o b \in Seq(S) /\ Len(a \o b) = n - 1 /\ DOMAIN (a \o b) = 1..(n - 1)
        /\ \A j \in 1..(i - 1) : (a \o b)[j] = a[j]
        /\ \A j \in i..(n - 1) : (a \o b)[j] = b[j - (i - 1)]
    <2>1. /\ a \o b \in Seq(S) /\ Len(a \o b) = Len(a) + Len(b)
          /\ \A j \in 1..(Len(a) + Len(b)) :
               (a \o b)[j] = IF j <= Len(a) THEN a[j] ELSE b[j - Len(a)]
      BY <1>2, <1>3, ConcatProperties, Zenon
    <2>2. /\ \A j \in 1..Len(a) : (a \o b)[j] = a[j]
          /\ \A j \in (Len(a) + 1)..(Len(a) + Len(b)) : (a \o b)[j] = b[j - Len(a)]
      <3>1. Len(a) \in Nat /\ Len(b) \in Nat
        BY <1>1, <1>2, <1>3
      <3> QED BY <2>1, <3>1
    <2>3. Len(a) + Len(b) = n - 1 /\ Len(a) + 1 = i
      BY <1>1, <1>2, <1>3
    <2>4. DOMAIN (a \o b) = 1..(n - 1)
      BY <2>1, <2>3
    <2> QED BY <1>2, <2>1, <2>2, <2>3, <2>4
  <1>6. \A j \in i..(n - 1) : j - (i - 1) \in 1..(n - i) /\ i + (j - (i - 1)) = j + 1 /\ j + 1 \in 1..n
    BY <1>1
  <1>7. \A j \in i..(n - 1) : (a \o b)[j] = s[j + 1]
    BY <1>3, <1>5, <1>6
  <1> QED BY <1>2, <1>4, <1>5, <1>7 DEF n

LEMMA WithoutElems ==
  ASSUME NEW S, NEW s \in Seq(S), NEW i \in DOMAIN s
  PROVE  /\ Without(s, i) \in Seq(S)
         /\ Elems(Without(s, i)) \subseteq Elems(s)
         /\ Elems(s) \subseteq Elems(Without(s, i)) \cup {s[i]}
  <1> DEFINE n == Len(s)
             w == Without(s, i)
  <1>1. n \in Nat /\ DOMAIN s = 1..n /\ i \in 1..n
    OBVIOUS
  <1>2. /\ w \in Seq(S) /\ DOMAIN w = 1..(n - 1)
        /\ \A j \in 1..(i - 1) : w[j] = s[j]
        /\ \A j \in i..(n - 1) : w[j] = s[j + 1]
    BY WithoutAt
  <1> HIDE DEF n, w
  <1>3. ASSUME NEW x \in Elems(w) PROVE x \in Elems(s)
    <2>1. PICK j \in 1..(n - 1) : x = w[j]
      BY <1>2, <1>3 DEF Elems
    <2>2. CASE j < i
      <3>1. j \in 1..(i - 1) /\ j \in DOMAIN s
        BY <1>1, <2>2
      <3> QED BY <1>2, <2>1, <3>1 DEF Elems
    <2>3. CASE j >= i
      <3>1. j \in i..(n - 1) /\ j + 1 \in DOMAIN s
        BY <1>1, <2>3
      <3> QED BY <1>2, <2>1, <3>1 DEF Elems
    <2> QED BY <1>1, <2>2, <2>3
  <1>4. ASSUME NEW x \in Elems(s) PROVE x \in Elems(w) \cup {s[i]}
    <2>1. PICK j \in 1..n : x = s[j]
      BY <1>1, <1>4 DEF Elems
    <2>2. CASE j < i
      <3>1. j \in 1..(i - 1) /\ j \in DOMAIN w
        BY <1>1, <1>2, <2>2
      <3> QED BY <1>2, <2>1, <3>1 DEF Elems
    <2>3. CASE j > i
      <3>1. j - 1 \in i..(n - 1) /\ j - 1 \in DOMAIN w /\ (j - 1) + 1 = j
        BY <1>1, <1>2, <2>3
      <3> QED BY <1>2, <2>1, <3>1 DEF Elems
    <2> QED BY <1>1, <2>1, <2>2, <2>3
  <1> QED BY <1>2, <1>3, <1>4 DEF w

-----------------------------------------------------------------------------
LEMMA ExpectedIsNothingLost == Expected => NothingLost
  BY DEF Expected, OnItsWay, NothingLost, InFlight, Running, Elems

(* cleanq puts every reply to a living process back under its number.       *)
LEMMA CleanedElems ==
  ASSUME QueueTypes
  PROVE  /\ Cleaned \in Seq(Message)
         /\ \A m \in Elems(Cleaned) : \E k \in Elems(resq) : k.id = m.id /\ k.pid = m.pid
         /\ \A k \in Elems(resq) : k.pid \in alive => \E m \in Elems(Cleaned) : m.id = k.id
  <1>1. CASE resq = <<>>
    BY <1>1 DEF Cleaned, Elems
  <1>2. CASE resq # <<>>
    <2> DEFINE h == Head(resq)
    <2>1. /\ Tail(resq) \in Seq(Message) /\ h \in Message
          /\ Elems(resq) = Elems(Tail(resq)) \cup {h}
      BY <1>2, TailElems DEF QueueTypes
    <2>2. PutBack(h) \in Message /\ PutBack(h).id = h.id /\ PutBack(h).pid = h.pid
      BY <2>1 DEF PutBack, Message
    <2>3. Cleaned = IF h.pid \in alive THEN Append(Tail(resq), PutBack(h)) ELSE Tail(resq)
      BY <1>2 DEF Cleaned
    <2> HIDE DEF h
    <2>4. /\ Append(Tail(resq), PutBack(h)) \in Seq(Message)
          /\ Elems(Append(Tail(resq), PutBack(h))) = Elems(Tail(resq)) \cup {PutBack(h)}
      <3> DEFINE t == Tail(resq)
                 m == PutBack(h)
      <3>1. t \in Seq(Message) /\ m \in Message
        BY <2>1, <2>2
      <3> HIDE DEF t, m
      <3>2. Append(t, m) \in Seq(Message) /\ Elems(Append(t, m)) = Elems(t) \cup {m}
        BY <3>1, AppendElems
      <3> QED BY <3>2 DEF t, m
    <2>5. CASE h.pid \in alive
      BY <2>1, <2>2, <2>3, <2>4, <2>5
    <2>6. CASE h.pid \notin alive
      BY <2>1, <2>3, <2>6
    <2> QED BY <2>5, <2>6
  <1> QED BY <1>1, <1>2

-----------------------------------------------------------------------------
LEMMA InitIInv == ASSUME RequestsAssumption PROVE Init => IInv
  <1> SUFFICES ASSUME Init PROVE IInv
    OBVIOUS
  <1>1. NoReply \in Message /\ NoReply.id = 0
    BY DEF NoReply, Message
  <1>2. QueueTypes
    BY <1>1 DEF Init, QueueTypes, NoFile
  <1>3. Elems(reqq) = {} /\ Elems(resq) = {}
    BY DEF Init, Elems
  <1> QED BY <1>1, <1>2, <1>3 DEF Init, IInv, Distinct, Numbered, Expected

(* A request is sent: its number is new.                                    *)
LEMMA CallKeeps ==
  ASSUME IInv, NEW p \in Pid, NEW op \in Ops, Call(p, op)
  PROVE  IInv'
  <1> USE DEF IInv
  <1> DEFINE new == [pid |-> p, id |-> reqs + 1, op |-> op,
                     gen |-> IF Stateless(op) THEN gen ELSE file[p].gen]
  <1>1. /\ reqs' = reqs + 1 /\ wait' = [wait EXCEPT ![p] = reqs + 1] /\ reqq' = Append(reqq, new)
        /\ conn' = [conn EXCEPT ![p] = gen] /\ p \in alive
        /\ server_cnt' = [server_cnt EXCEPT ![p] = IF conn[p] = 0 THEN @ + 1 ELSE @]
        /\ UNCHANGED <<srv, gen, cur, resq, alive, file, tag>>
    BY DEF Call, Runs
  <1>2. new \in Asking /\ new.id = reqs + 1 /\ new.pid = p
    BY DEF QueueTypes, Asking
  <1> HIDE DEF new
  <1>3. Append(reqq, new) \in Seq(Asking) /\ Elems(Append(reqq, new)) = Elems(reqq) \cup {new}
    BY <1>2, AppendElems DEF QueueTypes
  <1>4. Elems(reqq)' = Elems(reqq) \cup {new} /\ Elems(resq)' = Elems(resq)
    BY <1>1, <1>3 DEF Elems
  <1>5. QueueTypes'
    BY <1>1, <1>3, SMTT(60) DEF QueueTypes
  <1>6. /\ wait'[p] = reqs + 1 /\ \A q \in Pid \ {p} : wait'[q] = wait[q]
        /\ \A q \in Pid : wait[q] \in 0..reqs
    BY <1>1 DEF QueueTypes
  <1>7. ASSUME NEW m, m.id \in Nat, Numbered(m) PROVE Numbered(m)'
    <2>1. m.id <= reqs' /\ m.id # reqs + 1
      BY <1>1, <1>7 DEF Numbered, QueueTypes
    <2> QED BY <1>6, <1>7, <2>1 DEF Numbered
  <1>8. Numbered(cur)'
    <2>1. cur.id \in Nat /\ Numbered(cur)
      BY DEF Distinct, QueueTypes, Message
    <2> QED BY <1>1, <1>7, <2>1 DEF Numbered
  <1>9. \A m \in Elems(reqq)' \cup Elems(resq)' : Numbered(m)'
    <2>1. \A m \in Elems(reqq) \cup Elems(resq) : m.id \in Nat /\ Numbered(m)
      <3>1. Elems(reqq) \subseteq Asking /\ Elems(resq) \subseteq Message
        BY ElemsIn DEF QueueTypes
      <3> QED BY <3>1 DEF Distinct, Asking, Message
    <2>2. ASSUME NEW m, m = new PROVE Numbered(m)'
      BY <1>1, <1>2, <1>6, <2>2, SMTT(60) DEF Numbered, QueueTypes
    <2> QED BY <1>4, <1>7, <2>1, <2>2
  <1>10. Distinct'
    <2>1. \A q \in Pid : q \notin alive' => wait'[q] = 0
      BY <1>1, <1>6 DEF Distinct
    <2>2. \A q \in Pid \ {p} : wait'[q] # reqs + 1
      BY <1>6, SMTT(60) DEF QueueTypes
    <2>3. \A q, r \in Pid : wait'[q] # 0 /\ wait'[q] = wait'[r] => q = r
      BY <1>6, <2>2 DEF Distinct
    <2> QED BY <1>8, <1>9, <2>1, <2>3 DEF Distinct
  <1>11. Expected'
    <2> SUFFICES ASSUME NEW q \in Pid, q \in alive, wait'[q] # 0, srv # "down", conn'[q] = gen
                 PROVE  OnItsWay(wait[q])'
      BY <1>1 DEF Expected, QueueTypes
    <2>1. CASE q = p
      BY <1>2, <1>4, <1>6, <2>1 DEF OnItsWay
    <2>2. CASE q # p
      <3>1. conn'[q] = conn[q] /\ wait'[q] = wait[q]
        BY <1>1, <1>6, <2>2 DEF QueueTypes
      <3>2. OnItsWay(wait[q])
        BY <3>1 DEF Expected
      <3> QED BY <1>1, <1>4, <3>1, <3>2 DEF OnItsWay
    <2> QED BY <2>1, <2>2
  <1> QED BY <1>5, <1>10, <1>11

(* The steps of a process that leave the queues alone: a process stops      *)
(* waiting or goes, none begins to wait.                                    *)
LEMMA QuietKeeps ==
  ASSUME IInv, UNCHANGED <<srv, gen, cur, reqq, resq, reqs>>,
         QueueTypes', \A p \in Pid : wait'[p] \in {0, wait[p]},
         \A p \in Pid : p \in alive' /\ wait'[p] # 0 => p \in alive /\ conn'[p] = conn[p],
         \A p \in Pid : p \notin alive' => wait'[p] = 0
  PROVE  IInv'
  <1> USE DEF IInv
  <1>1. Elems(reqq)' = Elems(reqq) /\ Elems(resq)' = Elems(resq)
    BY DEF Elems
  <1>2. ASSUME NEW m, Numbered(m) PROVE Numbered(m)'
    BY <1>2 DEF Numbered
  <1>3. Numbered(cur)'
    BY <1>2 DEF Distinct, Numbered
  <1>4. Distinct'
    BY <1>1, <1>2, <1>3 DEF Distinct
  <1>5. Expected'
    <2> SUFFICES ASSUME NEW q \in Pid, q \in alive', wait'[q] # 0, srv # "down", conn'[q] = gen
                 PROVE  OnItsWay(wait[q])'
      BY DEF Expected, QueueTypes
    <2>1. OnItsWay(wait[q]) /\ wait'[q] = wait[q]
      BY DEF Expected
    <2> QED BY <1>1, <2>1 DEF OnItsWay
  <1> QED BY <1>4, <1>5

(* A process takes its reply; no other process waits for that one.          *)
LEMMA ReceiveKeeps ==
  ASSUME IInv, NEW p \in Pid, Receive(p)
  PROVE  IInv'
  <1> USE DEF IInv
  <1>1. PICK i \in DOMAIN resq :
          /\ resq[i].pid = p /\ resq' = Without(resq, i)
          /\ file' = IF resq[i].op = "open"
                     THEN [file EXCEPT ![p] = [msgident |-> server_cnt[p], gen |-> gen]] ELSE file
    BY DEF Receive
  <1>2. /\ wait' = [wait EXCEPT ![p] = 0] /\ p \in alive
        /\ UNCHANGED <<srv, gen, cur, reqq, alive, conn, server_cnt, tag, reqs>>
    BY DEF Receive
  <1>3. /\ Without(resq, i) \in Seq(Message)
        /\ Elems(Without(resq, i)) \subseteq Elems(resq)
        /\ Elems(resq) \subseteq Elems(Without(resq, i)) \cup {resq[i]}
    BY WithoutElems DEF QueueTypes
  <1>4. /\ Elems(reqq)' = Elems(reqq) /\ Elems(resq)' \subseteq Elems(resq)
        /\ Elems(resq) \subseteq Elems(resq)' \cup {resq[i]}
    BY <1>1, <1>2, <1>3 DEF Elems
  <1>5. QueueTypes'
    BY <1>1, <1>2, <1>3, SMTT(60) DEF QueueTypes
  <1>6. wait'[p] = 0 /\ \A q \in Pid \ {p} : wait'[q] = wait[q]
    BY <1>2 DEF QueueTypes
  <1>7. ASSUME NEW m, Numbered(m) PROVE Numbered(m)'
    BY <1>2, <1>6, <1>7 DEF Numbered
  <1>8. Numbered(cur)'
    BY <1>2, <1>7 DEF Distinct, Numbered
  <1>9. Distinct'
    BY <1>2, <1>4, <1>6, <1>7, <1>8 DEF Distinct
  <1>10. Expected'
    <2> SUFFICES ASSUME NEW q \in Pid, q \in alive, wait'[q] # 0, srv # "down", conn[q] = gen
                 PROVE  OnItsWay(wait[q])'
      BY <1>2 DEF Expected, QueueTypes
    <2>1. q # p /\ wait'[q] = wait[q] /\ OnItsWay(wait[q])
      BY <1>6 DEF Expected
    <2>2. resq[i] \in Elems(resq)
      BY DEF Elems
    <2>3. resq[i].id # wait[q]
      BY <1>1, <2>1, <2>2 DEF Distinct, Numbered
    <2> QED BY <1>2, <1>4, <2>1, <2>3 DEF OnItsWay
  <1> QED BY <1>5, <1>9, <1>10

(* The steps of the server: the messages keep their numbers, and none for   *)
(* a living process goes.                                                   *)
LEMMA ServerKeeps ==
  ASSUME IInv, QueueTypes', UNCHANGED <<gen, alive, conn, wait, reqs>>, Running,
         \A m \in Elems(reqq)' \cup Elems(resq)' \cup {cur'} :
           \E k \in Elems(reqq) \cup Elems(resq) \cup {cur} : k.id = m.id /\ k.pid = m.pid,
         \A p \in alive : wait[p] # 0 /\ OnItsWay(wait[p]) => OnItsWay(wait[p])'
  PROVE  IInv'
  <1> USE DEF IInv
  <1>1. \A m \in Elems(reqq)' \cup Elems(resq)' \cup {cur'} : Numbered(m)'
    BY DEF Distinct, Numbered
  <1>2. Numbered(cur)'
    BY <1>1 DEF Numbered
  <1>3. Distinct'
    BY <1>1, <1>2 DEF Distinct
  <1>4. Expected'
    BY DEF Expected, Running
  <1> QED BY <1>3, <1>4

LEMMA ServeKeeps ==
  ASSUME RequestsAssumption, IInv, Serve
  PROVE  IInv'
  <1> USE DEF IInv
  <1> DEFINE h == Head(reqq)
  <1>1. /\ Tail(reqq) \in Seq(Asking) /\ h \in Asking /\ Elems(reqq) = Elems(Tail(reqq)) \cup {h}
    BY TailElems DEF Serve, QueueTypes
  <1>2. PICK long \in {FALSE, LongReply} :
          cur' = [pid |-> h.pid, id |-> h.id, op |-> h.op, long |-> long, whole |-> TRUE]
    BY DEF Serve
  <1>3. cur' \in Message /\ cur'.id = h.id /\ cur'.pid = h.pid
    BY <1>1, <1>2 DEF Message, Asking, RequestsAssumption
  <1>4. /\ srv = "loop" /\ srv' = "reply" /\ reqq' = Tail(reqq)
        /\ UNCHANGED <<gen, resq, alive, conn, server_cnt, wait, file, tag, reqs>>
    BY DEF Serve, clientVars
  <1> HIDE DEF h
  <1>5. Elems(reqq)' = Elems(Tail(reqq)) /\ Elems(resq)' = Elems(resq)
    BY <1>4 DEF Elems
  <1>6. QueueTypes'
    BY <1>1, <1>3, <1>4 DEF QueueTypes
  <1>7. \A p \in alive : OnItsWay(wait[p]) => OnItsWay(wait[p])'
    BY <1>1, <1>3, <1>4, <1>5 DEF OnItsWay
  <1>8. \A m \in Elems(reqq)' \cup Elems(resq)' \cup {cur'} :
          \E k \in Elems(reqq) \cup Elems(resq) \cup {cur} : k.id = m.id /\ k.pid = m.pid
    BY <1>1, <1>3, <1>5
  <1> QED BY <1>4, <1>6, <1>7, <1>8, ServerKeeps DEF Running

(* The reply goes to the queue: at once, or after cleanq has made room.     *)
LEMMA SendKeeps ==
  ASSUME IInv, srv \in {"reply", "clean"}, NEW s \in Seq(Message),
         resq' = Append(s, cur), srv' \in {"loop", "frozen"},
         UNCHANGED <<gen, cur, reqq, alive, conn, server_cnt, wait, file, tag, reqs>>,
         \A m \in Elems(s) : \E k \in Elems(resq) : k.id = m.id /\ k.pid = m.pid,
         \A k \in Elems(resq) : k.pid \in alive => \E m \in Elems(s) : m.id = k.id
  PROVE  IInv'
  <1> USE DEF IInv
  <1>1. Append(s, cur) \in Seq(Message) /\ Elems(Append(s, cur)) = Elems(s) \cup {cur}
    BY AppendElems DEF QueueTypes
  <1>2. Elems(reqq)' = Elems(reqq) /\ Elems(resq)' = Elems(s) \cup {cur}
    BY <1>1 DEF Elems
  <1>3. QueueTypes'
    BY <1>1 DEF QueueTypes
  <1>4. ASSUME NEW p \in alive, wait[p] # 0, OnItsWay(wait[p])
        PROVE  OnItsWay(wait[p])'
    <2>1. CASE \E m \in Elems(resq) : m.id = wait[p]
      <3>1. PICK k \in Elems(resq) : k.id = wait[p]
        BY <2>1
      <3>2. k.pid = p
        BY <1>4, <3>1 DEF Distinct, Numbered, QueueTypes
      <3> QED BY <1>2, <3>1, <3>2 DEF OnItsWay
    <2>2. CASE ~\E m \in Elems(resq) : m.id = wait[p]
      BY <1>2, <1>4, <2>2 DEF OnItsWay
    <2> QED BY <2>1, <2>2
  <1> QED BY <1>2, <1>3, <1>4, ServerKeeps DEF Running

LEMMA CleanMoreKeeps ==
  ASSUME IInv, CleanMore
  PROVE  IInv'
  <1> USE DEF IInv
  <1>1. /\ resq' = Cleaned /\ srv = "clean"
        /\ UNCHANGED <<srv, gen, cur, reqq, alive, conn, server_cnt, wait, file, tag, reqs>>
    BY DEF CleanMore, clientVars
  <1>2. /\ Cleaned \in Seq(Message)
        /\ \A m \in Elems(Cleaned) : \E k \in Elems(resq) : k.id = m.id /\ k.pid = m.pid
        /\ \A k \in Elems(resq) : k.pid \in alive => \E m \in Elems(Cleaned) : m.id = k.id
    BY CleanedElems
  <1>3. Elems(reqq)' = Elems(reqq) /\ Elems(resq)' = Elems(Cleaned)
    BY <1>1 DEF Elems
  <1>4. QueueTypes'
    BY <1>1, <1>2 DEF QueueTypes
  <1>5. ASSUME NEW p \in alive, wait[p] # 0, OnItsWay(wait[p])
        PROVE  OnItsWay(wait[p])'
    <2>1. CASE \E m \in Elems(resq) : m.id = wait[p]
      <3>1. PICK k \in Elems(resq) : k.id = wait[p]
        BY <2>1
      <3>2. k.pid = p
        BY <1>5, <3>1 DEF Distinct, Numbered, QueueTypes
      <3> QED BY <1>1, <1>2, <1>3, <3>1, <3>2 DEF OnItsWay
    <2>2. CASE ~\E m \in Elems(resq) : m.id = wait[p]
      BY <1>1, <1>3, <1>5, <2>2 DEF OnItsWay
    <2> QED BY <2>1, <2>2
  <1> QED BY <1>1, <1>2, <1>3, <1>4, <1>5, ServerKeeps DEF Running

LEMMA StepIInv == ASSUME RequestsAssumption PROVE IInv /\ [Next]_vars => IInv'
  <1> SUFFICES ASSUME IInv, [Next]_vars PROVE IInv'
    OBVIOUS
  <1> USE DEF IInv
  <1>1. ASSUME NEW p \in Pid, NEW op \in Ops, CallStale(p, op) PROVE IInv'
    <2>1. UNCHANGED <<srv, gen, cur, reqq, resq, alive, conn, server_cnt, wait, file, tag, reqs>>
      BY <1>1 DEF CallStale, serverVars
    <2> QED BY <2>1, QuietKeeps DEF QueueTypes, Distinct
  <1>2. ASSUME NEW p \in Pid, ReceiveFails(p) PROVE IInv'
    <2>1. /\ UNCHANGED <<srv, gen, cur, reqq, resq, alive, conn, server_cnt, file, tag, reqs>>
          /\ wait' = [wait EXCEPT ![p] = 0]
      BY <1>2 DEF ReceiveFails, serverVars
    <2>2. QueueTypes'
      BY <2>1 DEF QueueTypes
    <2>3. \A q \in Pid : wait'[q] = IF q = p THEN 0 ELSE wait[q]
      BY <2>1 DEF QueueTypes
    <2> QED BY <2>1, <2>2, <2>3, QuietKeeps DEF Distinct
  <1>3. ASSUME NEW p \in Pid, SaveTag(p) \/ LoadTag(p) PROVE IInv'
    <2>1. /\ UNCHANGED <<srv, gen, cur, reqq, resq, alive, conn, server_cnt, wait, reqs>>
          /\ tag' \in {tag, file[p]} /\ file' \in {file, [file EXCEPT ![p] = tag]}
      BY <1>3 DEF SaveTag, LoadTag, serverVars, clientVars
    <2>2. QueueTypes'
      BY <2>1 DEF QueueTypes
    <2> QED BY <2>1, <2>2, QuietKeeps DEF Distinct
  <1>4. ASSUME NEW p \in Pid, Exit(p) PROVE IInv'
    <2>1. /\ UNCHANGED <<srv, gen, cur, reqq, resq, tag, reqs>>
          /\ alive' = alive \ {p} /\ conn' = [conn EXCEPT ![p] = 0]
          /\ server_cnt' = [server_cnt EXCEPT ![p] = 0]
          /\ wait' = [wait EXCEPT ![p] = 0] /\ file' = [file EXCEPT ![p] = NoFile]
      BY <1>4 DEF Exit, serverVars
    <2>2. QueueTypes'
      BY <2>1 DEF QueueTypes, NoFile
    <2>3. \A q \in Pid : /\ wait'[q] = IF q = p THEN 0 ELSE wait[q]
                         /\ q # p => conn'[q] = conn[q]
      BY <2>1 DEF QueueTypes
    <2> QED BY <2>1, <2>2, <2>3, QuietKeeps DEF Distinct
  <1>5. ASSUME NEW p \in Pid, Fork(p) PROVE IInv'
    <2>1. /\ UNCHANGED <<srv, gen, cur, reqq, resq, conn, server_cnt, wait, file, tag, reqs>>
          /\ alive' = alive \cup {p} /\ p \notin alive
      BY <1>5 DEF Fork, serverVars
    <2>2. QueueTypes'
      BY <2>1 DEF QueueTypes
    <2> QED BY <2>1, <2>2, QuietKeeps DEF Distinct
  <1>6. CASE Reply
    <2>1. /\ srv = "reply" /\ resq' = Append(resq, cur) /\ srv' \in {"loop", "frozen"}
          /\ UNCHANGED <<gen, cur, reqq, alive, conn, server_cnt, wait, file, tag, reqs>>
      BY <1>6 DEF Reply, Sent, clientVars
    <2> QED BY <2>1, SendKeeps DEF QueueTypes
  <1>7. CASE CleanDone
    <2>1. /\ srv = "clean" /\ resq' = Append(Cleaned, cur) /\ srv' \in {"loop", "frozen"}
          /\ UNCHANGED <<gen, cur, reqq, alive, conn, server_cnt, wait, file, tag, reqs>>
      BY <1>7 DEF CleanDone, clientVars
    <2> QED BY <2>1, SendKeeps, CleanedElems
  <1>8. CASE ReplyBlocked \/ Unfreeze
    <2>1. /\ UNCHANGED <<gen, cur, reqq, resq, alive, conn, server_cnt, wait, file, tag, reqs>>
          /\ \/ srv = "reply" /\ srv' = "clean"
             \/ srv = "frozen" /\ srv' = "loop"
      BY <1>8 DEF ReplyBlocked, Unfreeze, clientVars
    <2>2. QueueTypes'
      BY <2>1 DEF QueueTypes
    <2>3. Elems(reqq)' = Elems(reqq) /\ Elems(resq)' = Elems(resq)
      BY <2>1 DEF Elems
    <2>4. \A p \in alive : OnItsWay(wait[p]) => OnItsWay(wait[p])'
      BY <2>1, <2>3 DEF OnItsWay
    <2> QED BY <2>1, <2>2, <2>3, <2>4, ServerKeeps DEF Running
  <1>9. CASE Stop
    <2>1. /\ srv' = "down" /\ cur' = NoReply /\ reqq' = <<>> /\ resq' = <<>>
          /\ UNCHANGED <<gen, alive, conn, server_cnt, wait, file, tag, reqs>>
      BY <1>9 DEF Stop, clientVars
    <2>2. NoReply \in Message /\ NoReply.id = 0
      BY DEF NoReply, Message
    <2>3. QueueTypes'
      BY <2>1, <2>2 DEF QueueTypes
    <2>4. Elems(reqq)' = {} /\ Elems(resq)' = {}
      BY <2>1 DEF Elems
    <2>5. Numbered(cur)'
      BY <2>1, <2>2 DEF Numbered, QueueTypes
    <2> QED BY <2>1, <2>3, <2>4, <2>5 DEF Distinct, Expected
  <1>10. CASE Start
    <2>1. /\ gen' = gen + 1
          /\ UNCHANGED <<cur, reqq, resq, alive, conn, server_cnt, wait, file, tag, reqs>>
          /\ srv' = "loop"
      BY <1>10 DEF Start, clientVars
    <2>2. QueueTypes'
      BY <2>1 DEF QueueTypes
    <2>3. Distinct'
      BY <2>1 DEF Distinct, Numbered, Elems
    <2>4. \A p \in alive : conn'[p] # gen'
      BY <2>1 DEF QueueTypes
    <2> QED BY <2>1, <2>2, <2>3, <2>4 DEF Expected
  <1>11. CASE UNCHANGED vars
    <2>1. UNCHANGED <<srv, gen, cur, reqq, resq, alive, conn, server_cnt, wait, file, tag, reqs>>
      BY <1>11 DEF vars, serverVars, clientVars
    <2> QED BY <2>1, QuietKeeps DEF QueueTypes, Distinct
  <1> QED BY <1>1, <1>2, <1>3, <1>4, <1>5, <1>6, <1>7, <1>8, <1>9, <1>10, <1>11,
            CallKeeps, ReceiveKeeps, ServeKeeps, CleanMoreKeeps DEF Next, Server

(* A process that waits for the running server waits for something: its     *)
(* request is queued or being served or its reply is in the queue, through  *)
(* every reshuffle of cleanq (server.c), every death of a process and every *)
(* restart, for any number of processes, requests and servers.              *)
THEOREM NothingEverLost == ASSUME RequestsAssumption PROVE Spec => []NothingLost
  <1>1. IInv => NothingLost
    BY ExpectedIsNothingLost DEF IInv
  <1> QED BY <1>1, InitIInv, StepIInv, PTL DEF Spec

-----------------------------------------------------------------------------
(* Whose reply it is: a process whose id nobody had before finds no reply   *)
(* but the one to the request it waits for.                                 *)
(* No two messages of a queue answer or ask the same. *)
Unique(s) == \A i, j \in DOMAIN s : s[i].id = s[j].id => i = j

InQueues == Elems(reqq) \cup Elems(resq) \cup (IF srv \in {"reply", "clean"} THEN {cur} ELSE {})

(* A request is in one place at a time. *)
Sole ==
  /\ Unique(reqq) /\ Unique(resq)
  /\ \A m \in Elems(reqq), k \in Elems(resq) : m.id # k.id
  /\ srv \in {"reply", "clean"} => \A m \in Elems(reqq) \cup Elems(resq) : m.id # cur.id

(* It is what its process waits for, at this server. *)
Mine(m) == m.pid \in alive \ reused => wait[m.pid] = m.id /\ conn[m.pid] = gen

Ours ==
  /\ srv = "down" => reqq = <<>> /\ resq = <<>>
  /\ \A m \in InQueues : m.id >= 1 /\ Mine(m)

RInv == IInv /\ Sole /\ Ours

-----------------------------------------------------------------------------
LEMMA AppendUnique ==
  ASSUME NEW S, NEW s \in Seq(S), NEW m \in S, Unique(s), \A k \in Elems(s) : k.id # m.id
  PROVE  Unique(Append(s, m))
  <1>1. /\ DOMAIN s = 1..Len(s) /\ Len(s) \in Nat
        /\ DOMAIN Append(s, m) = 1..(Len(s) + 1)
        /\ Append(s, m)[Len(s) + 1] = m /\ \A i \in 1..Len(s) : Append(s, m)[i] = s[i]
    OBVIOUS
  <1>2. \A i \in 1..Len(s) : s[i].id # m.id
    BY <1>1 DEF Elems
  <1>3. \A i \in 1..(Len(s) + 1) : i \in 1..Len(s) \/ i = Len(s) + 1
    BY <1>1
  <1> QED BY <1>1, <1>2, <1>3 DEF Unique

LEMMA TailUnique ==
  ASSUME NEW S, NEW s \in Seq(S), s # <<>>, Unique(s)
  PROVE  Unique(Tail(s)) /\ \A k \in Elems(Tail(s)) : k.id # Head(s).id
  <1>1. /\ DOMAIN s = 1..Len(s) /\ Len(s) \in Nat /\ Len(s) > 0
        /\ DOMAIN Tail(s) = 1..(Len(s) - 1) /\ Head(s) = s[1]
        /\ \A i \in 1..(Len(s) - 1) : Tail(s)[i] = s[i + 1]
    OBVIOUS
  <1>2. \A i \in 1..(Len(s) - 1) : i + 1 \in 1..Len(s) /\ i + 1 # 1 /\ i \in Nat
    BY <1>1
  <1>3. ASSUME NEW i \in 1..(Len(s) - 1), NEW j \in 1..(Len(s) - 1), Tail(s)[i].id = Tail(s)[j].id
        PROVE  i = j
    <2>1. i + 1 = j + 1
      BY <1>1, <1>2, <1>3 DEF Unique
    <2> QED BY <2>1
  <1>4. \A i \in 1..(Len(s) - 1) : Tail(s)[i].id # Head(s).id
    <2>1. 1 \in 1..Len(s)
      BY <1>1
    <2> QED BY <1>1, <1>2, <2>1 DEF Unique
  <1> QED BY <1>1, <1>3, <1>4 DEF Unique, Elems

LEMMA WithoutUnique ==
  ASSUME NEW S, NEW s \in Seq(S), NEW i \in DOMAIN s, Unique(s)
  PROVE  Unique(Without(s, i)) /\ \A k \in Elems(Without(s, i)) : k.id # s[i].id
  <1> DEFINE n == Len(s)
             w == Without(s, i)
             at(j) == IF j < i THEN j ELSE j + 1
  <1>1. n \in Nat /\ DOMAIN s = 1..n /\ i \in 1..n
    OBVIOUS
  <1>2. /\ DOMAIN w = 1..(n - 1)
        /\ \A j \in 1..(i - 1) : w[j] = s[j]
        /\ \A j \in i..(n - 1) : w[j] = s[j + 1]
    BY WithoutAt
  <1> HIDE DEF n, w
  <1>3. ASSUME NEW j \in 1..(n - 1) PROVE at(j) \in 1..n /\ at(j) # i /\ w[j] = s[at(j)]
    <2>1. CASE j < i
      <3>1. j \in 1..(i - 1)
        BY <1>1, <2>1
      <3> QED BY <1>1, <1>2, <2>1, <3>1
    <2>2. CASE j >= i
      <3>1. j \in i..(n - 1)
        BY <1>1, <2>2
      <3> QED BY <1>1, <1>2, <2>2, <3>1
    <2> QED BY <1>1, <2>1, <2>2
  <1>4. ASSUME NEW j \in 1..(n - 1), NEW k \in 1..(n - 1), w[j].id = w[k].id PROVE j = k
    <2>1. at(j) = at(k)
      <3> HIDE DEF at
      <3> QED BY <1>1, <1>3, <1>4 DEF Unique
    <2> QED BY <1>1, <2>1
  <1>5. \A j \in 1..(n - 1) : w[j].id # s[i].id
    <2> HIDE DEF at
    <2> QED BY <1>1, <1>3 DEF Unique
  <1> QED BY <1>2, <1>4, <1>5 DEF Unique, Elems, w

(* A round of cleanq.                                                       *)
LEMMA CleanedUnique ==
  ASSUME QueueTypes, Unique(resq)
  PROVE  Unique(Cleaned)
  <1>1. CASE resq = <<>>
    BY <1>1 DEF Cleaned, Unique
  <1>2. CASE resq # <<>>
    <2> DEFINE h == Head(resq)
    <2>1. Tail(resq) \in Seq(Message) /\ h \in Message
      BY <1>2, TailElems DEF QueueTypes
    <2>2. Unique(Tail(resq)) /\ \A k \in Elems(Tail(resq)) : k.id # h.id
      BY <1>2, TailUnique DEF QueueTypes
    <2>3. PutBack(h) \in Message /\ PutBack(h).id = h.id
      BY <2>1 DEF PutBack, Message
    <2>4. Unique(Append(Tail(resq), PutBack(h)))
      BY <2>1, <2>2, <2>3, AppendUnique
    <2> QED BY <1>2, <2>2, <2>4 DEF Cleaned
  <1> QED BY <1>1, <1>2

-----------------------------------------------------------------------------
LEMMA InitRInv == ASSUME RequestsAssumption PROVE Init => RInv
  <1> SUFFICES ASSUME Init PROVE RInv
    OBVIOUS
  <1>1. reqq = <<>> /\ resq = <<>> /\ srv = "loop"
    BY DEF Init
  <1>2. Elems(reqq) = {} /\ Elems(resq) = {}
    BY <1>1 DEF Elems
  <1>3. Sole
    BY <1>1, <1>2 DEF Sole, Unique
  <1>4. Ours
    BY <1>1, <1>2 DEF Ours, InQueues
  <1> QED BY <1>3, <1>4, InitIInv DEF RInv

(* The steps of the server: a message in the queues was in them before.     *)
LEMMA ShuffleKeeps ==
  ASSUME RInv, IInv', Sole', UNCHANGED <<gen, alive, conn, wait, reused>>,
         srv' = "down" => reqq' = <<>> /\ resq' = <<>>,
         \A m \in InQueues' : \E k \in InQueues : k.id = m.id /\ k.pid = m.pid
  PROVE  RInv'
  <1>1. \A m \in InQueues' : m.id >= 1 /\ Mine(m)'
    BY DEF RInv, Ours, Mine
  <1> QED BY <1>1 DEF RInv, Ours

(* The steps of a process that leave the queues alone.                      *)
LEMMA AsideKeeps ==
  ASSUME RInv, IInv', UNCHANGED <<srv, cur, reqq, resq>>, \A m \in InQueues : Mine(m)'
  PROVE  RInv'
  <1>1. InQueues' = InQueues /\ Elems(reqq)' = Elems(reqq) /\ Elems(resq)' = Elems(resq)
    BY DEF InQueues, Elems
  <1>2. Sole'
    BY <1>1 DEF RInv, Sole, Unique
  <1>3. Ours'
    BY <1>1 DEF RInv, Ours
  <1> QED BY <1>2, <1>3 DEF RInv

(* A process that calls has no message in the queues, and its request is    *)
(* the one with the highest number.                                         *)
LEMMA CallMine ==
  ASSUME RInv, IInv', NEW p \in Pid, NEW op \in Ops, Call(p, op)
  PROVE  RInv'
  <1> DEFINE new == [pid |-> p, id |-> reqs + 1, op |-> op,
                     gen |-> IF Stateless(op) THEN gen ELSE file[p].gen]
  <1>1. /\ reqq' = Append(reqq, new) /\ wait[p] = 0 /\ p \in alive
        /\ wait' = [wait EXCEPT ![p] = reqs + 1] /\ conn' = [conn EXCEPT ![p] = gen]
        /\ UNCHANGED <<srv, gen, cur, resq, alive, reused>> /\ srv # "down"
    BY DEF Call, Runs, Running
  <1>2. new \in Asking /\ new.id = reqs + 1 /\ new.pid = p /\ reqs \in Nat
    BY DEF RInv, IInv, QueueTypes, Asking
  <1> HIDE DEF new
  <1>3. /\ Elems(reqq)' = Elems(reqq) \cup {new} /\ Elems(resq)' = Elems(resq)
        /\ InQueues' = InQueues \cup {new}
    <2>1. Elems(Append(reqq, new)) = Elems(reqq) \cup {new}
      BY <1>2, AppendElems DEF RInv, IInv, QueueTypes
    <2>2. Elems(reqq)' = Elems(reqq) \cup {new} /\ Elems(resq)' = Elems(resq)
      BY <1>1, <2>1 DEF Elems
    <2> QED BY <1>1, <2>2 DEF InQueues
  <1>4. \A m \in Elems(reqq) \cup Elems(resq) \cup {cur} : m.id # reqs + 1
    <2>1. \A m \in Elems(reqq) \cup Elems(resq) \cup {cur} : m.id \in Nat /\ m.id <= reqs
      <3>1. Elems(reqq) \subseteq Asking /\ Elems(resq) \subseteq Message
        BY ElemsIn DEF RInv, IInv, QueueTypes
      <3> QED BY <3>1 DEF RInv, IInv, QueueTypes, Distinct, Numbered, Asking, Message
    <2> QED BY <1>2, <2>1
  <1>5. Sole'
    <2>1. Unique(Append(reqq, new))
      BY <1>2, <1>4, AppendUnique DEF RInv, IInv, QueueTypes, Sole
    <2>2. Unique(reqq)' /\ Unique(resq)'
      BY <1>1, <2>1 DEF RInv, Sole, Unique
    <2> QED BY <1>1, <1>2, <1>3, <1>4, <2>2 DEF RInv, Sole
  <1>6. ASSUME NEW m \in InQueues PROVE m.id >= 1 /\ Mine(m)'
    <2>1. m.id >= 1 /\ Mine(m)
      BY DEF RInv, Ours
    <2>2. CASE m.pid = p
      BY <1>1, <2>1, <2>2 DEF Mine
    <2>3. CASE m.pid # p
      <3>1. m.pid \in alive => m.pid \in Pid
        BY DEF RInv, IInv, QueueTypes
      <3> QED BY <1>1, <2>1, <2>3, <3>1 DEF Mine, RInv, IInv, QueueTypes
    <2> QED BY <2>2, <2>3
  <1>7. ASSUME NEW m, m = new PROVE m.id >= 1 /\ Mine(m)'
    BY <1>1, <1>2, <1>7, SMTT(60) DEF Mine, RInv, IInv, QueueTypes
  <1>8. Ours'
    BY <1>1, <1>3, <1>6, <1>7 DEF Ours
  <1> QED BY <1>5, <1>8 DEF RInv

(* The reply it takes was the only message of the process.                  *)
LEMMA ReceiveMine ==
  ASSUME RInv, IInv', NEW p \in Pid, Receive(p)
  PROVE  RInv'
  <1>1. PICK i \in DOMAIN resq : resq[i].pid = p /\ resq' = Without(resq, i)
    BY DEF Receive
  <1>2. /\ wait' = [wait EXCEPT ![p] = 0]
        /\ UNCHANGED <<srv, gen, cur, reqq, alive, conn, reused>> /\ srv # "down"
    BY DEF Receive, Running
  <1> DEFINE r == resq[i]
  <1>3. /\ Elems(reqq)' = Elems(reqq) /\ Elems(resq)' \subseteq Elems(resq) /\ r \in Elems(resq)
        /\ Unique(resq)' /\ \A k \in Elems(resq)' : k.id # r.id
    <2>1. /\ Elems(Without(resq, i)) \subseteq Elems(resq) /\ Unique(Without(resq, i))
          /\ \A k \in Elems(Without(resq, i)) : k.id # r.id
      BY WithoutElems, WithoutUnique DEF RInv, IInv, QueueTypes, Sole
    <2> QED BY <1>1, <1>2, <2>1 DEF Elems, Unique
  <1> HIDE DEF r
  <1>4. Sole'
    BY <1>2, <1>3 DEF RInv, Sole, Unique
  <1>5. InQueues' \subseteq InQueues /\ r \in InQueues /\ \A m \in InQueues' : m.id # r.id
    BY <1>2, <1>3 DEF InQueues, RInv, Sole
  <1>6. ASSUME NEW m \in InQueues' PROVE m.id >= 1 /\ Mine(m)'
    <2>1. m.id >= 1 /\ Mine(m) /\ Mine(r) /\ m.id # r.id /\ r.pid = p
      BY <1>1, <1>5 DEF RInv, Ours, r
    <2>2. CASE m.pid = p
      BY <1>2, <2>1, <2>2 DEF Mine
    <2>3. CASE m.pid # p
      <3>1. m.pid \in alive => m.pid \in Pid
        BY DEF RInv, IInv, QueueTypes
      <3> QED BY <1>2, <2>1, <2>3, <3>1 DEF Mine, RInv, IInv, QueueTypes
    <2> QED BY <2>2, <2>3
  <1> QED BY <1>2, <1>4, <1>6 DEF RInv, Ours
-----------------------------------------------------------------------------
LEMMA ServeMine ==
  ASSUME RInv, IInv', Serve
  PROVE  RInv'
  <1> DEFINE h == Head(reqq)
  <1>1. /\ srv = "loop" /\ srv' = "reply" /\ reqq' = Tail(reqq) /\ reqq # <<>>
        /\ cur'.id = h.id /\ cur'.pid = h.pid
        /\ UNCHANGED <<gen, resq, alive, conn, wait, reused>>
    BY DEF Serve, clientVars
  <1>2. /\ Elems(reqq) = Elems(Tail(reqq)) \cup {h} /\ Unique(Tail(reqq))
        /\ \A k \in Elems(Tail(reqq)) : k.id # h.id
    BY <1>1, TailElems, TailUnique DEF RInv, IInv, QueueTypes, Sole
  <1> HIDE DEF h
  <1>3. Elems(reqq)' = Elems(Tail(reqq)) /\ Elems(resq)' = Elems(resq)
    BY <1>1 DEF Elems
  <1>4. Sole'
    BY <1>1, <1>2, <1>3 DEF RInv, Sole, Unique
  <1>5. \A m \in InQueues' : \E k \in InQueues : k.id = m.id /\ k.pid = m.pid
    BY <1>1, <1>2, <1>3 DEF InQueues
  <1> QED BY <1>1, <1>4, <1>5, ShuffleKeeps

(* The reply goes to the queue.                                             *)
LEMMA SendMine ==
  ASSUME RInv, IInv', srv \in {"reply", "clean"}, NEW s \in Seq(Message), Unique(s),
         resq' = Append(s, cur), srv' \in {"loop", "frozen"},
         UNCHANGED <<gen, cur, reqq, alive, conn, wait, reused>>,
         \A m \in Elems(s) : \E k \in Elems(resq) : k.id = m.id /\ k.pid = m.pid
  PROVE  RInv'
  <1>1. Elems(Append(s, cur)) = Elems(s) \cup {cur}
    BY AppendElems DEF RInv, IInv, QueueTypes
  <1>2. Elems(reqq)' = Elems(reqq) /\ Elems(resq)' = Elems(s) \cup {cur}
    BY <1>1 DEF Elems
  <1>3. \A m \in Elems(s) : m.id # cur.id /\ \A k \in Elems(reqq) : k.id # m.id
    BY DEF RInv, Sole
  <1>4. Unique(Append(s, cur))
    BY <1>3, AppendUnique DEF RInv, IInv, QueueTypes
  <1>5. Sole'
    BY <1>2, <1>3, <1>4 DEF RInv, Sole, Unique
  <1>6. \A m \in InQueues' : \E k \in InQueues : k.id = m.id /\ k.pid = m.pid
    BY <1>2 DEF InQueues
  <1> QED BY <1>5, <1>6, ShuffleKeeps

LEMMA CleanMoreMine ==
  ASSUME RInv, IInv', CleanMore
  PROVE  RInv'
  <1>1. /\ resq' = Cleaned /\ srv = "clean"
        /\ UNCHANGED <<srv, gen, cur, reqq, alive, conn, wait, reused>>
    BY DEF CleanMore, clientVars
  <1>2. /\ \A m \in Elems(Cleaned) : \E k \in Elems(resq) : k.id = m.id /\ k.pid = m.pid
        /\ Unique(Cleaned)
    BY CleanedElems, CleanedUnique DEF RInv, IInv, Sole
  <1>3. Elems(reqq)' = Elems(reqq) /\ Elems(resq)' = Elems(Cleaned)
    BY <1>1 DEF Elems
  <1>4. Sole'
    <2>1. Unique(resq)' /\ Unique(reqq)'
      BY <1>1, <1>2 DEF Unique, RInv, Sole
    <2> QED BY <1>1, <1>2, <1>3, <2>1 DEF RInv, Sole
  <1>5. \A m \in InQueues' : \E k \in InQueues : k.id = m.id /\ k.pid = m.pid
    BY <1>1, <1>2, <1>3 DEF InQueues
  <1> QED BY <1>1, <1>4, <1>5, ShuffleKeeps

LEMMA StepRInv == ASSUME RequestsAssumption PROVE RInv /\ [Next]_vars => RInv'
  <1> SUFFICES ASSUME RInv, [Next]_vars PROVE RInv'
    OBVIOUS
  <1>1. IInv' /\ IInv /\ \A m \in InQueues : Mine(m)
    BY StepIInv DEF RInv, Ours
  <1>2. ASSUME NEW p \in Pid, NEW op \in Ops, CallStale(p, op) PROVE RInv'
    BY <1>1, <1>2, AsideKeeps DEF CallStale, serverVars, Mine
  <1>3. ASSUME NEW p \in Pid, ReceiveFails(p) PROVE RInv'
    <2>1. /\ UNCHANGED <<srv, gen, cur, reqq, resq, alive, conn, reused>> /\ p \in alive
          /\ wait' = [wait EXCEPT ![p] = 0] /\ (srv = "down" \/ conn[p] # gen)
      BY <1>3 DEF ReceiveFails, serverVars, Running
    <2>2. ASSUME NEW m \in InQueues PROVE Mine(m)'
      <3>1. srv # "down"
        BY DEF InQueues, Elems, RInv, Ours
      <3>2. m.pid \in alive \ reused => m.pid # p /\ m.pid \in Pid
        BY <1>1, <2>1, <3>1 DEF Mine, IInv, QueueTypes
      <3> QED BY <1>1, <2>1, <3>2 DEF Mine, IInv, QueueTypes
    <2> QED BY <1>1, <2>1, <2>2, AsideKeeps
  <1>4. ASSUME NEW p \in Pid, SaveTag(p) \/ LoadTag(p) PROVE RInv'
    BY <1>1, <1>4, AsideKeeps DEF SaveTag, LoadTag, serverVars, clientVars, Mine
  <1>5. ASSUME NEW p \in Pid, Exit(p) PROVE RInv'
    <2>1. /\ UNCHANGED <<srv, gen, cur, reqq, resq, reused>>
          /\ alive' = alive \ {p} /\ conn' = [conn EXCEPT ![p] = 0]
          /\ wait' = [wait EXCEPT ![p] = 0]
      BY <1>5 DEF Exit, serverVars
    <2>2. \A m \in InQueues : Mine(m)'
      BY <1>1, <2>1 DEF Mine, IInv, QueueTypes
    <2> QED BY <1>1, <2>1, <2>2, AsideKeeps
  <1>6. ASSUME NEW p \in Pid, Fork(p) PROVE RInv'
    <2>1. /\ UNCHANGED <<srv, gen, cur, reqq, resq, conn, wait>>
          /\ alive' = alive \cup {p} /\ reused' = reused \cup {p}
      BY <1>6 DEF Fork, serverVars
    <2>2. \A m \in InQueues : Mine(m)'
      BY <1>1, <2>1 DEF Mine
    <2> QED BY <1>1, <2>1, <2>2, AsideKeeps
  <1>7. CASE Reply
    <2>1. /\ srv = "reply" /\ resq' = Append(resq, cur) /\ srv' \in {"loop", "frozen"}
          /\ UNCHANGED <<gen, cur, reqq, alive, conn, wait, reused>>
      BY <1>7 DEF Reply, Sent, clientVars
    <2> QED BY <1>1, <2>1, SendMine DEF IInv, QueueTypes, RInv, Sole
  <1>8. CASE CleanDone
    <2>1. /\ srv = "clean" /\ resq' = Append(Cleaned, cur) /\ srv' \in {"loop", "frozen"}
          /\ UNCHANGED <<gen, cur, reqq, alive, conn, wait, reused>>
      BY <1>8 DEF CleanDone, clientVars
    <2>2. Unique(Cleaned)
      BY <1>1, CleanedUnique DEF IInv, RInv, Sole
    <2> QED BY <1>1, <2>1, <2>2, SendMine, CleanedElems DEF IInv
  <1>9. CASE ReplyBlocked \/ Unfreeze
    <2>1. /\ UNCHANGED <<gen, cur, reqq, resq, alive, conn, wait, reused>>
          /\ \/ srv = "reply" /\ srv' = "clean"
             \/ srv = "frozen" /\ srv' = "loop"
      BY <1>9 DEF ReplyBlocked, Unfreeze, clientVars
    <2>2. Elems(reqq)' = Elems(reqq) /\ Elems(resq)' = Elems(resq)
      BY <2>1 DEF Elems
    <2>3. InQueues' \subseteq InQueues
      BY <2>1, <2>2 DEF InQueues
    <2>4. Sole'
      BY <2>1, <2>2 DEF Sole, Unique, RInv
    <2> QED BY <1>1, <2>1, <2>3, <2>4, ShuffleKeeps
  <1>10. CASE Stop
    <2>1. /\ srv' = "down" /\ reqq' = <<>> /\ resq' = <<>>
          /\ UNCHANGED <<gen, alive, conn, wait, reused>>
      BY <1>10 DEF Stop, clientVars
    <2>2. Elems(reqq)' = {} /\ Elems(resq)' = {}
      BY <2>1 DEF Elems
    <2>3. Sole' /\ InQueues' = {}
      BY <2>1, <2>2 DEF Sole, Unique, InQueues
    <2> QED BY <1>1, <2>1, <2>3, ShuffleKeeps
  <1>11. CASE Start
    <2>1. srv' = "loop" /\ reqq' = <<>> /\ resq' = <<>>
      BY <1>11 DEF Start, Running, RInv, Ours
    <2>2. Elems(reqq)' = {} /\ Elems(resq)' = {}
      BY <2>1 DEF Elems
    <2>3. Sole' /\ InQueues' = {}
      BY <2>1, <2>2 DEF Sole, Unique, InQueues
    <2> QED BY <1>1, <2>1, <2>3 DEF RInv, Ours
  <1>12. CASE UNCHANGED vars
    BY <1>1, <1>12, AsideKeeps DEF vars, serverVars, clientVars, Mine
  <1> QED BY <1>1, <1>2, <1>3, <1>4, <1>5, <1>6, <1>7, <1>8, <1>9, <1>10, <1>11, <1>12,
            CallMine, ReceiveMine, ServeMine, CleanMoreMine DEF Next, Server

LEMMA OursIsMine == RInv => ReplyIsMine
  <1> SUFFICES ASSUME RInv, NEW i \in DOMAIN resq, resq[i].pid \notin reused
               PROVE  Awaited(resq[i])
    BY DEF ReplyIsMine
  <1>1. resq[i] \in InQueues
    BY DEF InQueues, Elems
  <1> QED BY <1>1 DEF RInv, Ours, Mine, Awaited

(* A reply in the queue that is addressed to a process whose id nobody had  *)
(* before is the one to the request it waits for, so that btas() never      *)
(* takes the answer to an earlier call (client.c), through cleanq, freezes, *)
(* deaths and restarts.                                                     *)
THEOREM RepliesAreMine == ASSUME RequestsAssumption PROVE Spec => []ReplyIsMine
  BY OursIsMine, InitRInv, StepRInv, PTL DEF Spec
=============================================================================

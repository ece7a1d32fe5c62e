------------------------------ MODULE Requests ------------------------------
(***************************************************************************)
(* Client processes and the server over two System V message queues: btas  *)
(* in lib/client.c, the request loop and cleanq of server.c.  Every        *)
(* process shares btasreq and btasres; a reply is addressed by the process *)
(* id that the request carried.  Processes end at any moment, leaving      *)
(* their messages in the queues, and the server is stopped and started.    *)
(***************************************************************************)
EXTENDS Naturals, Sequences

CONSTANTS
  Pid,        \* process ids
  Nobody,     \* not a process id
  MaxRes,     \* replies btasres has room for
  LongReply,  \* may a reply be longer than the 1024 bytes of cleanq's buffer
  Freeze,     \* may a process freeze the server (BTFLUSH with BTEXCL)
  Reuse,      \* may the id of a dead process be given to a new one
  Tags,       \* do processes pass on open files (btcb2tag, tag2btcb)
  MaxReq,     \* bound: requests in a behaviour
  MaxGen      \* bound: servers in a behaviour

RequestsAssumption ==
  /\ Nobody \notin Pid
  /\ MaxRes \in Nat \ {0} /\ MaxReq \in Nat /\ MaxGen \in Nat
  /\ LongReply \in BOOLEAN /\ Freeze \in BOOLEAN
  /\ Reuse \in BOOLEAN /\ Tags \in BOOLEAN

VARIABLES
  \* the server
  srv,        \* down, or where it is in its loop
  gen,        \* how many servers have been started
  cur,        \* the reply being sent, or the last one sent
  reqq,       \* btasreq: pid, request number, operation, server the file was opened at
  resq,       \* btasres: pid, request number, operation, length, whether it is all there
  \* the processes
  alive,
  conn,       \* the server whose queues btasreq and btasres name; 0 for -1
  server_cnt, \* how often the process has found a server
  wait,       \* the request it waits for in msgrcv, or 0
  file,       \* its open BTCB: msgident, and the server it was opened at
  failed,     \* processes whose last stateless request failed although a server runs
  tag,        \* the saved tag
  reqs,       \* requests so far
  reused      \* history: process ids that a second process has been given

serverVars == <<srv, gen, cur, reqq, resq>>
clientVars == <<alive, conn, server_cnt, wait, file, failed>>
vars == <<serverVars, clientVars, tag, reqs, reused>>

NoFile == [msgident |-> 0, gen |-> 0]
NoReply == [pid |-> Nobody, id |-> 0, op |-> "none", long |-> FALSE, whole |-> TRUE]
Ops == {"open", "io", "freeze"}
Stateless(op) == op \in {"open", "freeze"}

Init ==
  /\ srv = "loop" /\ gen = 1 /\ cur = NoReply
  /\ reqq = <<>> /\ resq = <<>>
  /\ alive = Pid
  /\ conn = [p \in Pid |-> 0] /\ server_cnt = [p \in Pid |-> 0]
  /\ wait = [p \in Pid |-> 0]
  /\ file = [p \in Pid |-> NoFile]
  /\ failed = {}
  /\ tag = NoFile
  /\ reqs = 0
  /\ reused = {}

Running == srv # "down"

-----------------------------------------------------------------------------
(* btas() in a process. *)

Runs(p) == p \in alive /\ wait[p] = 0

(* An operation that relies on the state of the BTCB is refused (EIDRM)     *)
(* when the BTCB was set up at another count of servers.                    *)
Accepted(p, op) == Stateless(op) \/ file[p].msgident = server_cnt[p]

OpAllowed(p, op) ==
  /\ op = "freeze" => Freeze
  /\ op = "io" => file[p] # NoFile

(* btas() as far as msgsnd, which finds the queues of the running server:   *)
(* the first call gets their ids.                                           *)
Call(p, op) ==
  /\ reqs < MaxReq
  /\ Runs(p) /\ Running
  /\ OpAllowed(p, op) /\ Accepted(p, op)
  /\ conn[p] \in {0, gen}
  /\ conn' = [conn EXCEPT ![p] = gen]
  /\ server_cnt' = [server_cnt EXCEPT ![p] = IF conn[p] = 0 THEN @ + 1 ELSE @]
  /\ reqs' = reqs + 1
  /\ wait' = [wait EXCEPT ![p] = reqs + 1]
  /\ reqq' = Append(reqq, [pid |-> p, id |-> reqs + 1, op |-> op,
                           gen |-> IF Stateless(op) THEN gen ELSE file[p].gen])
  /\ failed' = failed \ {p}
  /\ UNCHANGED <<srv, gen, cur, resq, alive, file, tag, reused>>

(* The queues are those of a server that has gone: msgsnd returns -1.  The  *)
(* test for EIDRM looks at that -1 and not at errno, so btasreq is kept.    *)
CallStale(p, op) ==
  /\ Runs(p) /\ Running
  /\ OpAllowed(p, op) /\ Accepted(p, op)
  /\ conn[p] \notin {0, gen}
  /\ failed' = IF Stateless(op) THEN failed \cup {p} ELSE failed
  /\ UNCHANGED <<serverVars, alive, conn, server_cnt, wait, file, tag, reqs, reused>>

Without(s, i) == SubSeq(s, 1, i - 1) \o SubSeq(s, i + 1, Len(s))

(* msgrcv takes the first reply addressed to the process id. *)
Receive(p) ==
  /\ p \in alive /\ wait[p] # 0
  /\ Running /\ conn[p] = gen
  /\ \E i \in DOMAIN resq :
       /\ resq[i].pid = p
       /\ \A j \in 1..(i - 1) : resq[j].pid # p
       /\ resq' = Without(resq, i)
       /\ file' = IF resq[i].op = "open"
                  THEN [file EXCEPT ![p] = [msgident |-> server_cnt[p], gen |-> gen]]
                  ELSE file
  /\ wait' = [wait EXCEPT ![p] = 0]
  /\ UNCHANGED <<srv, gen, cur, reqq, alive, conn, server_cnt, failed, tag, reqs, reused>>

(* Seeded fault: any error ends the wait, a signal too. *)
ReceiveInterrupted(p) ==
  /\ p \in alive /\ wait[p] # 0
  /\ wait' = [wait EXCEPT ![p] = 0]
  /\ UNCHANGED <<serverVars, alive, conn, server_cnt, file, failed, tag, reqs, reused>>

(* msgrcv fails: the queue has been removed. *)
ReceiveFails(p) ==
  /\ p \in alive /\ wait[p] # 0
  /\ ~Running \/ conn[p] # gen
  /\ wait' = [wait EXCEPT ![p] = 0]
  /\ UNCHANGED <<serverVars, alive, conn, server_cnt, file, failed, tag, reqs, reused>>

(* btcb2tag and tag2btcb, through a file any process can read. *)
SaveTag(p) ==
  /\ Tags
  /\ Runs(p) /\ file[p] # NoFile
  /\ tag' = file[p]
  /\ UNCHANGED <<serverVars, clientVars, reqs, reused>>

LoadTag(p) ==
  /\ Tags
  /\ Runs(p) /\ tag # NoFile
  /\ file' = [file EXCEPT ![p] = tag]
  /\ UNCHANGED <<serverVars, alive, conn, server_cnt, wait, failed, tag, reqs, reused>>

Exit(p) ==
  /\ p \in alive
  /\ alive' = alive \ {p}
  /\ conn' = [conn EXCEPT ![p] = 0] /\ server_cnt' = [server_cnt EXCEPT ![p] = 0]
  /\ wait' = [wait EXCEPT ![p] = 0] /\ file' = [file EXCEPT ![p] = NoFile]
  /\ failed' = failed \ {p}
  /\ UNCHANGED <<serverVars, tag, reqs, reused>>

Fork(p) ==
  /\ Reuse
  /\ p \notin alive /\ p \notin reused      \* bound: an id is used twice
  /\ alive' = alive \cup {p}
  /\ reused' = reused \cup {p}
  /\ UNCHANGED <<serverVars, conn, server_cnt, wait, file, failed, tag, reqs>>

-----------------------------------------------------------------------------
(* The server. *)

(* msgrcv, btserve::btas, and the reply it leaves in the request buffer. *)
Serve ==
  /\ srv = "loop"
  /\ reqq # <<>>
  /\ reqq' = Tail(reqq)
  /\ \E long \in {FALSE, LongReply} :
       cur' = [pid |-> Head(reqq).pid, id |-> Head(reqq).id, op |-> Head(reqq).op,
               long |-> long, whole |-> TRUE]
  /\ srv' = "reply"
  /\ UNCHANGED <<gen, resq, clientVars, tag, reqs, reused>>

(* After the reply: suspend operations if that was the request. *)
Sent ==
  /\ resq' = Append(resq, cur)
  /\ srv' = IF cur.op = "freeze" THEN "frozen" ELSE "loop"

(* Seeded fault: room for one more. *)
ReplyPastEnd ==
  /\ srv = "reply"
  /\ Len(resq) <= MaxRes
  /\ Sent
  /\ UNCHANGED <<gen, cur, reqq, clientVars, tag, reqs, reused>>

Reply ==
  /\ srv = "reply"
  /\ Len(resq) < MaxRes
  /\ Sent
  /\ UNCHANGED <<gen, cur, reqq, clientVars, tag, reqs, reused>>

(* EAGAIN. *)
ReplyBlocked ==
  /\ srv = "reply"
  /\ Len(resq) >= MaxRes
  /\ srv' = "clean"
  /\ UNCHANGED <<gen, cur, reqq, resq, clientVars, tag, reqs, reused>>

(* One round of cleanq: the first reply is thrown away if its process is    *)
(* dead, and otherwise put back at the end, as much of it as cleanq's       *)
(* buffer could take.  It is left when there is room.                       *)
PutBack(m) == IF m.long THEN [m EXCEPT !.whole = FALSE] ELSE m

(* Seeded fault: the replies of the living are thrown away. *)
CleanedOfLiving ==
  IF resq = <<>> THEN <<>>
  ELSE IF Head(resq).pid \in alive THEN Tail(resq)
                                   ELSE Append(Tail(resq), PutBack(Head(resq)))

Cleaned ==
  IF resq = <<>> THEN <<>>
  ELSE IF Head(resq).pid \in alive THEN Append(Tail(resq), PutBack(Head(resq)))
                                   ELSE Tail(resq)

CleanMore ==
  /\ srv = "clean"
  /\ resq' = Cleaned
  /\ Len(resq') >= MaxRes
  /\ UNCHANGED <<srv, gen, cur, reqq, clientVars, tag, reqs, reused>>

(* Seeded fault: the reply is not sent again after making room. *)
CleanDoneUnsent ==
  /\ srv = "clean"
  /\ Len(Cleaned) < MaxRes
  /\ resq' = Cleaned
  /\ srv' = IF cur.op = "freeze" THEN "frozen" ELSE "loop"
  /\ UNCHANGED <<gen, cur, reqq, clientVars, tag, reqs, reused>>

CleanDone ==
  /\ srv = "clean"
  /\ Len(Cleaned) < MaxRes
  /\ resq' = Append(Cleaned, cur)
  /\ srv' = IF cur.op = "freeze" THEN "frozen" ELSE "loop"
  /\ UNCHANGED <<gen, cur, reqq, clientVars, tag, reqs, reused>>

(* Frozen until the process that asked for it has died. *)
Unfreeze ==
  /\ srv = "frozen"
  /\ cur.pid \notin alive
  /\ srv' = "loop"
  /\ UNCHANGED <<gen, cur, reqq, resq, clientVars, tag, reqs, reused>>

(* btstop, or a fatal signal: both queues are removed. *)
Stop ==
  /\ Running
  /\ gen < MaxGen
  /\ srv' = "down"
  /\ cur' = NoReply /\ reqq' = <<>> /\ resq' = <<>>
  /\ UNCHANGED <<gen, clientVars, tag, reqs, reused>>

Start ==
  /\ ~Running
  /\ srv' = "loop"
  /\ gen' = gen + 1
  /\ UNCHANGED <<cur, reqq, resq, clientVars, tag, reqs, reused>>

Server == Serve \/ Reply \/ ReplyBlocked \/ CleanMore \/ CleanDone \/ Unfreeze \/ Start

Next ==
  \/ \E p \in Pid :
       \/ \E op \in Ops : Call(p, op) \/ CallStale(p, op)
       \/ Receive(p) \/ ReceiveFails(p)
       \/ SaveTag(p) \/ LoadTag(p)
       \/ Exit(p) \/ Fork(p)
  \/ Server
  \/ Stop

Spec == Init /\ [][Next]_vars

(* The server runs, a process that waits takes its reply, and the process   *)
(* that has frozen the server ends some time.                               *)
FairSpec ==
  /\ Spec
  /\ WF_vars(Server)
  /\ \A p \in Pid : /\ WF_vars(Receive(p)) /\ WF_vars(ReceiveFails(p))
                    /\ WF_vars(srv = "frozen" /\ cur.pid = p /\ Exit(p))

-----------------------------------------------------------------------------
Request == [pid: Pid, id: 1..MaxReq, op: Ops, gen: 1..MaxGen]
Answer == [pid: Pid, id: 1..MaxReq, op: Ops, long: BOOLEAN, whole: BOOLEAN]
OpenFile == [msgident: 0..MaxReq, gen: 0..MaxGen]

TypeOK ==
  /\ srv \in {"down", "loop", "reply", "clean", "frozen"}
  /\ gen \in 1..MaxGen /\ cur \in Answer \cup {NoReply}
  /\ reqq \in Seq(Request)
  /\ resq \in Seq(Answer) /\ Len(resq) <= MaxRes
  /\ alive \subseteq Pid
  /\ conn \in [Pid -> 0..MaxGen] /\ server_cnt \in [Pid -> 0..MaxReq]
  /\ wait \in [Pid -> 0..MaxReq]
  /\ file \in [Pid -> OpenFile]
  /\ failed \subseteq alive
  /\ tag \in OpenFile
  /\ reqs \in 0..MaxReq
  /\ reused \subseteq Pid

(* The reply a process finds under its id is to the request it waits for,   *)
(* unless its id has been that of another process before it: every reply in *)
(* the queue that is addressed to a process that exists.                    *)
Awaited(m) == m.pid \in alive => wait[m.pid] = m.id

ReplyIsMine == \A i \in DOMAIN resq : resq[i].pid \notin reused => Awaited(resq[i])

(* Whoever had the id before: "remove result messages whose receiver has    *)
(* died" (server.c).                                                        *)
NoStrayReply == \A i \in DOMAIN resq : Awaited(resq[i])

(* A process waiting for the running server waits for something: its        *)
(* request is queued or being served, or its reply is in the queue, through *)
(* every reshuffle of cleanq.                                               *)
InFlight(id) ==
  \/ \E i \in DOMAIN reqq : reqq[i].id = id
  \/ \E i \in DOMAIN resq : resq[i].id = id
  \/ srv \in {"reply", "clean"} /\ cur.id = id

NothingLost ==
  \A p \in alive : wait[p] # 0 /\ Running /\ conn[p] = gen => InFlight(wait[p])

(* Every request of a process that lives is answered, or fails because the  *)
(* server has gone: cleanq makes room for the reply in the end, as long as  *)
(* no id has been used twice.                                               *)
Answered == \A p \in Pid : wait[p] # 0 ~> wait[p] = 0 \/ reused # {}

(* "throw away stale messages until there is room" (server.c): cleanq ends  *)
(* whoever had the ids before.                                              *)
RoomIsMade == srv = "clean" ~> srv # "clean"

(* "put it back if task still around" (server.c): cleanq puts replies back  *)
(* as they were.                                                            *)
WholeReplies == \A i \in DOMAIN resq : resq[i].whole

(* server_cnt is the "number of times server was restarted" (client.c), for *)
(* the calls that rely on the state of a BTCB to be refused at another      *)
(* server: none is sent with a file that was opened at an earlier one.      *)
StaleRefused == \A i \in DOMAIN reqq : reqq[i].gen = gen

(* A stateless request finds the server that runs (the loop in btas() goes  *)
(* back to msgget after EIDRM).                                             *)
Reconnects == failed = {}
=============================================================================

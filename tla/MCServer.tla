------------------------------ MODULE MCServer ------------------------------
(***************************************************************************)
(* What runs around the request loop of the server, in one run: the flush  *)
(* timer (Alarm), the record locks (LockTable) and the request queues      *)
(* (Requests).  Only the part a behaviour starts in moves.                 *)
(***************************************************************************)
EXTENDS Alarm, Sequences

CONSTANTS Pid, Lock, Entry, Stack, Free,
          Client, Nobody, MaxRes, LongReply, Freeze, Reuse, Tags, MaxReq, MaxGen

VARIABLES heap, tbl, pidtbl, here, told,
          srv, gen, cur, reqq, resq, alive, conn, server_cnt, wait, file, failed, tag,
          reqs, reused, part

Locks == INSTANCE LockTable WITH alive <- here
ASSUME LocksAssumption == Locks!LockAssumption

Queues == INSTANCE Requests WITH Pid <- Client
ASSUME QueuesAssumption == Queues!RequestsAssumption

lockVars == <<heap, tbl, pidtbl, here, told>>
queueVars == <<srv, gen, cur, reqq, resq, alive, conn, server_cnt, wait, file, failed, tag,
               reqs, reused>>

MCInit == Init /\ Locks!Init /\ Queues!Init /\ part \in {"timer", "locks", "queues"}
MCNext == /\ \/ part = "timer" /\ Next /\ UNCHANGED <<lockVars, queueVars>>
             \/ part = "locks" /\ Locks!Next /\ UNCHANGED <<vars, queueVars>>
             \/ part = "queues" /\ Queues!Next /\ UNCHANGED <<vars, lockVars>>
          /\ UNCHANGED part

(* Alarm's and Requests' fair specifications, when theirs is the part that  *)
(* moves.                                                                   *)
MCSpec ==
  /\ MCInit
  /\ [][MCNext]_<<vars, lockVars, queueVars, part>>
  /\ WF_vars(part = "timer" /\ Server) /\ SF_vars(part = "timer" /\ AlrmInRecv)
  /\ WF_queueVars(part = "queues" /\ Queues!Server)
  /\ \A p \in Client :
       /\ WF_queueVars(part = "queues" /\ Queues!Receive(p))
       /\ WF_queueVars(part = "queues" /\ Queues!ReceiveFails(p))
       /\ WF_queueVars(part = "queues" /\ srv = "frozen" /\ cur.pid = p /\ Queues!Exit(p))

(* The set and the chains of LockTable hold the same live entries, among    *)
(* them every lock a process has been told it holds.                        *)
LocksConsistent == Locks!Consistent /\ Locks!HeldIsRecorded

(* Alarm's two promises: what is modified is flushed while nothing comes in, *)
(* and a fatal signal that arrives while the timer runs shuts down.         *)
TimerServes == FlushedWhenIdle /\ FatalWithTimer

(* Requests' properties (see there).                                        *)
ReplyIsMine == Queues!ReplyIsMine
NothingLost == Queues!NothingLost
Answered == Queues!Answered
=============================================================================

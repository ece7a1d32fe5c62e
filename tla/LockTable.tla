------------------------------ MODULE LockTable ------------------------------
(***************************************************************************)
(* The record lock table of the server (LockTable.cc) as btas.c uses it:   *)
(* an operation with the LOCK flag adds a lock for the record it is about  *)
(* to write or has read, BTRELEASE deletes every lock of the process.      *)
(*                                                                         *)
(* The table is a set<LockEntry *>, ordered by address, beside a map from  *)
(* a process id to the chain of its entries; both hold the same objects.   *)
(***************************************************************************)
EXTENDS Naturals, Sequences, FiniteSets

CONSTANTS
  Pid,       \* process ids
  Lock,      \* root, mid and key of a record
  Entry,     \* addresses new LockEntry can return (bound)
  Stack,     \* the address of the local LockEntry in addLock
  Free       \* the contents of an address that is not allocated

LockAssumption ==
  /\ Stack \notin Entry
  /\ Free \notin [pid: Pid, lock: Lock]

VARIABLES
  heap,      \* the LockEntry at each address
  tbl,       \* LockTable::tbl
  pidtbl,    \* LockTable::pidtbl, each chain from its first entry on
  alive,     \* processes that exist
  told       \* locks each process has been told it holds and has not released

vars == <<heap, tbl, pidtbl, alive, told>>

Init ==
  /\ heap = [e \in Entry |-> Free]
  /\ tbl = {}
  /\ pidtbl = [p \in Pid |-> <<>>]
  /\ alive = Pid
  /\ told = [p \in Pid |-> {}]

(* tbl.find(&e): the comparison of set<LockEntry *> is that of addresses.   *)
Find(a, l) == {e \in tbl : e = a}

(* Seeded faults: the whole set is emptied; nothing is erased from it. *)
AllGone(P) == tbl
NotErased(P) == tbl

(* delLock: the chain of each process of P is unlinked, and its entries     *)
(* erased from the set and freed.                                           *)
Chain(p) == {pidtbl[p][i] : i \in DOMAIN pidtbl[p]}
Gone(P) == UNION {Chain(p) : p \in P}
Erased(P) == tbl \ Gone(P)
Unlinked(P) == [p \in Pid |-> IF p \in P THEN <<>> ELSE pidtbl[p]]
Freed(P) == [e \in Entry |-> IF e \in Gone(P) THEN Free ELSE heap[e]]

(* Seeded fault: the local entry itself is inserted. *)
AddLockLocal(p, l) ==
  /\ p \in alive
  /\ told' = [told EXCEPT ![p] = @ \cup {l}]
  /\ tbl' = tbl \cup {Stack}
  /\ UNCHANGED <<heap, pidtbl, alive>>

(* addLock: refused when another live process has the lock (BTERLOCK,       *)
(* nothing changes); nothing to do when it is ours; otherwise a new entry,  *)
(* first in our chain, once the locks of a dead holder are deleted.         *)
AddLock(p, l) ==
  LET holder == {heap[e].pid : e \in Find(Stack, l)}
      dead == holder \ {p}
  IN  /\ p \in alive
      /\ dead \cap alive = {}
      /\ told' = [told EXCEPT ![p] = @ \cup {l}]
      /\ IF p \in holder
         THEN UNCHANGED <<heap, tbl, pidtbl>>
         ELSE \E e \in Entry :
                /\ Freed(dead)[e] = Free
                /\ heap' = [Freed(dead) EXCEPT ![e] = [pid |-> p, lock |-> l]]
                /\ tbl' = Erased(dead) \cup {e}
                /\ pidtbl' = [Unlinked(dead) EXCEPT ![p] = <<e>> \o @]
      /\ UNCHANGED alive

(* BTRELEASE. *)
Release(p) ==
  /\ p \in alive
  /\ heap' = Freed({p}) /\ tbl' = Erased({p}) /\ pidtbl' = Unlinked({p})
  /\ told' = [told EXCEPT ![p] = {}]
  /\ UNCHANGED alive

(* A process ends without releasing, or a new one gets its id. *)
Exit(p) ==
  /\ p \in alive
  /\ alive' = alive \ {p}
  /\ told' = [told EXCEPT ![p] = {}]
  /\ UNCHANGED <<heap, tbl, pidtbl>>

Fork(p) ==
  /\ p \notin alive
  /\ alive' = alive \cup {p}
  /\ UNCHANGED <<heap, tbl, pidtbl, told>>

Next == \E p \in Pid :
          \/ \E l \in Lock : AddLock(p, l)
          \/ Release(p) \/ Exit(p) \/ Fork(p)

Spec == Init /\ [][Next]_vars

-----------------------------------------------------------------------------
TypeOK ==
  /\ heap \in [Entry -> [pid: Pid, lock: Lock] \cup {Free}]
  /\ tbl \subseteq Entry
  /\ pidtbl \in [Pid -> Seq(Entry)]
  /\ alive \subseteq Pid
  /\ told \in [Pid -> SUBSET Lock]

(* The set and the chains hold the same live objects: no entry of either is *)
(* freed memory, none is in two chains or twice in one, and each is in the  *)
(* chain of its own process.                                                *)
Consistent ==
  /\ tbl = {e \in Entry : heap[e] # Free}
  /\ tbl = UNION {Chain(p) : p \in Pid}
  /\ \A p \in Pid :
       /\ \A i, j \in DOMAIN pidtbl[p] : pidtbl[p][i] = pidtbl[p][j] => i = j
       /\ \A e \in Chain(p) : heap[e].pid = p

(* What a process has been told it holds is in the table until it releases  *)
(* it, whatever other processes do, die or leave behind.                    *)
HeldIsRecorded ==
  \A p \in Pid : \A l \in told[p] : \E e \in tbl : heap[e] = [pid |-> p, lock |-> l]

(* "already locked by someone else" (LockTable.cc): two live processes are  *)
(* never both told that they hold the lock of a record.                     *)
Exclusive ==
  \A p, q \in alive : p # q => told[p] \cap told[q] = {}
=============================================================================

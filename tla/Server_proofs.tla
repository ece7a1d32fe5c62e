---------------------------- MODULE Server_proofs ----------------------------
(***************************************************************************)
(* Proofs about the flush timer (Alarm), the lock table (LockTable, for    *)
(* any processes, locks and addresses) and the whole of MCServer: the lock *)
(* table and the queues keep their invariants whichever part of the server *)
(* a behaviour moves, for every value of their constants.                  *)
(***************************************************************************)
EXTENDS MCServer, TLAPS

(* Requests with its proofs, in MCServer's variables.                       *)
QP == INSTANCE Requests_proofs WITH Pid <- Client

-----------------------------------------------------------------------------
(* The flush timer.                                                         *)

(* The handler counts without going back to zero, and rearms.               *)
LEMMA HandlerRuns ==
  ASSUME NEW n \in 1..MaxTicks, Handler(n)
  PROVE  ticks' \in 1..MaxTicks /\ armed' = TRUE
  BY AlarmAssumption DEF Handler, Counted

LEMMA EnableRuns ==
  ASSUME TypeOK, TimerRuns, Enable
  PROVE  ticks' \in 1..MaxTicks /\ armed' = TRUE /\ limit' = Limit
  <1>1. CASE ticks = 0
    <2>1. 1 \in 1..MaxTicks
      BY AlarmAssumption
    <2> QED BY <1>1, <2>1, HandlerRuns DEF Enable
  <1>2. CASE ticks # 0
    BY <1>2, AlarmAssumption DEF Enable, TimerRuns, TypeOK
  <1> QED BY <1>1, <1>2

LEMMA StepTypeOK == TypeOK /\ TimerRuns /\ [Next]_vars => TypeOK'
  <1> SUFFICES ASSUME TypeOK, TimerRuns, [Next]_vars PROVE TypeOK'
    OBVIOUS
  <1> USE AlarmAssumption DEF TypeOK, Phases, Devs
  <1>1. CASE Send \/ Block \/ Receive
    BY <1>1 DEF Send, Block, Receive
  <1>2. ASSUME NEW d \in Devs, SetDev(d)
        PROVE  dev' \in Devs /\ age' \in 0..MaxTicks
    BY <1>2 DEF SetDev
  <1>3. \A d \in Devs : Flushed(d) \subseteq Devs
    BY DEF Flushed
  <1>4. CASE Execute
    <2>0. PICK d \in {dev, "modified"} \cup Flushed(dev) : SetDev(d)
      BY <1>4 DEF Execute
    <2>1. dev' \in Devs /\ age' \in 0..MaxTicks
      BY <1>2, <1>3, <2>0
    <2>2. ticks' \in 0..MaxTicks /\ limit' \in {1, Limit} /\ armed' \in BOOLEAN
      <3>1. CASE AutoFlush
        <4>1. Enable
          BY <1>4, <3>1 DEF Execute
        <4>2. ticks' \in 1..MaxTicks /\ armed' = TRUE /\ limit' = Limit
          BY <4>1, EnableRuns
        <4> QED BY <4>2
      <3>2. CASE ~AutoFlush
        BY <1>4, <3>2 DEF Execute
      <3> QED BY <3>1, <3>2
    <2>3. pc' = "loop" /\ UNCHANGED <<queued, fatal, ops>>
      BY <1>4 DEF Execute
    <2> QED BY <2>1, <2>2, <2>3
  <1>5. CASE Alrm
    <2>1. ticks' \in 0..MaxTicks /\ armed' \in BOOLEAN
      <3>1. CASE ticks = 0
        BY <1>5, <3>1 DEF Alrm
      <3>2. CASE ticks # 0
        <4>1. ticks \in 1..MaxTicks /\ Handler(ticks)
          BY <1>5, <3>2 DEF Alrm
        <4>2. ticks' \in 1..MaxTicks /\ armed' = TRUE
          BY <4>1, HandlerRuns
        <4> QED BY <4>2
      <3> QED BY <3>1, <3>2
    <2>2. age' \in 0..MaxTicks
      BY <1>5 DEF Alrm, Counted
    <2> QED BY <1>5, <2>1, <2>2 DEF Alrm
  <1>6. CASE Term
    BY <1>6 DEF Term
  <1>7. CASE CheckFatal
    BY <1>2, <1>7 DEF CheckFatal
  <1>8. CASE CheckTicks
    <2>1. /\ dev' \in Devs /\ age' \in 0..MaxTicks /\ ticks' \in 0..MaxTicks
      BY <1>2, <1>3, <1>8 DEF CheckTicks
    <2> QED BY <1>8, <2>1 DEF CheckTicks
  <1>9. CASE UNCHANGED vars
    BY <1>9 DEF vars
  <1> QED BY <1>1, <1>4, <1>5, <1>6, <1>7, <1>8, <1>9 DEF Next, Server

(* Every action keeps ticks and armed together, and only the pass of        *)
(* CheckTicks that leaves the device clean stops the count.                 *)
LEMMA StepTimerRuns == TypeOK /\ TimerRuns /\ [Next]_vars => TimerRuns'
  <1> SUFFICES ASSUME TypeOK, TimerRuns, [Next]_vars PROVE TimerRuns'
    OBVIOUS
  <1> USE DEF TimerRuns
  <1>1. CASE Send \/ Block \/ Receive \/ Term
    BY <1>1 DEF Send, Block, Receive, Term
  <1>2. CASE Execute
    <2>1. CASE AutoFlush
      <3>1. Enable
        BY <1>2, <2>1 DEF Execute
      <3>2. ticks' \in 1..MaxTicks /\ armed' = TRUE
        BY <3>1, EnableRuns
      <3>3. ticks' # 0
        BY <3>2
      <3> QED BY <3>2, <3>3
    <2>2. CASE ~AutoFlush
      <3>1. ticks' = ticks /\ (armed' <=> armed)
        BY <1>2, <2>2 DEF Execute
      <3> QED BY <2>2, <3>1
    <2> QED BY <2>1, <2>2
  <1>3. CASE Alrm
    <2>1. CASE ticks = 0
      <3>1. ticks' = 0 /\ dev' = dev /\ pc # "down"
        BY <1>3, <2>1 DEF Alrm
      <3> QED BY <2>1, <3>1
    <2>2. CASE ticks # 0
      <3>1. ticks \in 1..MaxTicks /\ Handler(ticks)
        BY <1>3, <2>2, AlarmAssumption DEF Alrm, TypeOK
      <3>2. ticks' \in 1..MaxTicks /\ armed' = TRUE
        BY <3>1, HandlerRuns
      <3>3. ticks' # 0
        BY <3>2
      <3> QED BY <3>2, <3>3
    <2> QED BY <2>1, <2>2
  <1>4. CASE CheckFatal
    BY <1>4 DEF CheckFatal, SetDev
  <1>5. CASE CheckTicks
    <2>1. CASE ticks > limit
      <3>1. PICK d \in Flushed(dev) :
              SetDev(d) /\ ticks' = IF d = "clean" THEN 0 ELSE ticks
        BY <1>5, <2>1 DEF CheckTicks
      <3>2. (armed' <=> armed) /\ dev' = d
        BY <1>5, <3>1 DEF CheckTicks, SetDev
      <3>3. ticks # 0
        BY <2>1, AlarmAssumption DEF TypeOK
      <3> QED BY <3>1, <3>2, <3>3
    <2>2. CASE ~(ticks > limit)
      BY <1>5, <2>2 DEF CheckTicks
    <2> QED BY <2>1, <2>2
  <1>6. CASE UNCHANGED vars
    BY <1>6 DEF vars
  <1> QED BY <1>1, <1>2, <1>3, <1>4, <1>5, <1>6 DEF Next, Server

LEMMA InitTimer == Init => TypeOK /\ TimerRuns
  <1>1. Init => TypeOK
    <2>1. Init => armed \in BOOLEAN /\ fatal \in BOOLEAN
      BY Zenon DEF Init
    <2>2. Init => age \in 0..MaxTicks /\ ticks \in 0..MaxTicks /\ limit \in {1, Limit}
      BY AlarmAssumption DEF Init
    <2> QED BY <2>1, <2>2 DEF Init, TypeOK, Phases, Devs
  <1>2. Init => TimerRuns
    BY Zenon DEF Init, TimerRuns
  <1> QED BY <1>1, <1>2

(* Changes never wait for the disk without a running timer (alarm.cc).      *)
THEOREM TimerAlwaysRuns == Spec => [](TypeOK /\ TimerRuns)
  BY InitTimer, StepTypeOK, StepTimerRuns, PTL DEF Spec

-----------------------------------------------------------------------------
(* The lock table: the set and the chains hold the same live entries, and a *)
(* lock a process has been told it holds stays recorded.                    *)

LocksInv == Locks!TypeOK /\ Locks!Consistent

(* The search for the local entry (set<LockEntry *> compares addresses)     *)
(* finds nothing, so that a lock is never refused and nothing is deleted on *)
(* the way.                                                                 *)
LEMMA NothingFound ==
  ASSUME Locks!TypeOK, NEW l
  PROVE  Locks!Find(Stack, l) = {}
  BY LocksAssumption DEF Locks!LockAssumption, Locks!TypeOK, Locks!Find

LEMMA NoneGone ==
  ASSUME Locks!TypeOK
  PROVE  /\ Locks!Gone({}) = {} /\ Locks!Freed({}) = heap
         /\ Locks!Erased({}) = tbl /\ Locks!Unlinked({}) = pidtbl
  BY DEF Locks!TypeOK, Locks!Gone, Locks!Freed, Locks!Erased, Locks!Unlinked

(* What addLock does: a new entry at an address that is not in use.         *)
LEMMA Added ==
  ASSUME Locks!TypeOK, NEW p \in Pid, NEW l \in Lock, Locks!AddLock(p, l)
  PROVE  \E e \in Entry :
           /\ heap[e] = Free
           /\ heap' = [heap EXCEPT ![e] = [pid |-> p, lock |-> l]]
           /\ tbl' = tbl \cup {e}
           /\ pidtbl' = [pidtbl EXCEPT ![p] = <<e>> \o @]
  BY NothingFound, NoneGone DEF Locks!AddLock

LEMMA InitLocksInv == Locks!Init => LocksInv
  <1> SUFFICES ASSUME Locks!Init PROVE LocksInv
    OBVIOUS
  <1>1. Locks!TypeOK
    BY DEF Locks!Init, Locks!TypeOK
  <1>2. \A p \in Pid : Locks!Chain(p) = {}
    BY DEF Locks!Init, Locks!Chain
  <1> QED BY <1>1, <1>2 DEF Locks!Init, LocksInv, Locks!Consistent

(* The chain of a process and the table, once an entry is put first.        *)
LEMMA ChainGrows ==
  ASSUME Locks!TypeOK, NEW p \in Pid, NEW e \in Entry, pidtbl' = [pidtbl EXCEPT ![p] = <<e>> \o @]
  PROVE  /\ pidtbl' \in [Pid -> Seq(Entry)]
         /\ Locks!Chain(p)' = Locks!Chain(p) \cup {e}
         /\ \A q \in Pid \ {p} : pidtbl'[q] = pidtbl[q] /\ Locks!Chain(q)' = Locks!Chain(q)
         /\ Len(pidtbl'[p]) = Len(pidtbl[p]) + 1 /\ pidtbl'[p][1] = e
         /\ \A i \in 1..Len(pidtbl[p]) : pidtbl'[p][i + 1] = pidtbl[p][i]
  <1> DEFINE s == pidtbl[p]
  <1>0. s \in Seq(Entry) /\ <<e>> \in Seq(Entry) /\ Len(<<e>>) = 1
    BY DEF Locks!TypeOK
  <1>1. pidtbl'[p] = <<e>> \o s
    BY DEF Locks!TypeOK
  <1>2. /\ <<e>> \o s \in Seq(Entry) /\ Len(<<e>> \o s) = Len(s) + 1
        /\ (<<e>> \o s)[1] = e /\ \A i \in 1..Len(s) : (<<e>> \o s)[i + 1] = s[i]
    BY <1>0
  <1>3. Locks!Chain(p)' = Locks!Chain(p) \cup {e}
    <2>1. DOMAIN s = 1..Len(s) /\ DOMAIN (<<e>> \o s) = 1..(Len(s) + 1) /\ Len(s) \in Nat
      BY <1>0, <1>2
    <2>2. ASSUME NEW x \in Locks!Chain(p)' PROVE x \in Locks!Chain(p) \cup {e}
      <3>1. PICK i \in 1..(Len(s) + 1) : x = (<<e>> \o s)[i]
        BY <1>1, <2>1, <2>2 DEF Locks!Chain
      <3>2. CASE i = 1
        BY <1>2, <3>1, <3>2
      <3>3. CASE i # 1
        <4>1. i - 1 \in 1..Len(s) /\ (i - 1) + 1 = i
          BY <2>1, <3>3
        <4> QED BY <1>2, <2>1, <3>1, <4>1, ZenonT(60) DEF Locks!Chain
      <3> QED BY <3>2, <3>3
    <2>3. ASSUME NEW x \in Locks!Chain(p) PROVE x \in Locks!Chain(p)'
      <3>1. PICK i \in 1..Len(s) : x = s[i]
        BY <2>1, <2>3 DEF Locks!Chain
      <3>2. i + 1 \in 1..(Len(s) + 1) /\ x = (<<e>> \o s)[i + 1]
        BY <1>2, <2>1, <3>1
      <3> QED BY <1>1, <2>1, <3>2 DEF Locks!Chain
    <2>4. e \in Locks!Chain(p)'
      BY <1>1, <1>2, <2>1 DEF Locks!Chain
    <2> QED BY <2>2, <2>3, <2>4
  <1>4. \A q \in Pid \ {p} : pidtbl'[q] = pidtbl[q]
    BY DEF Locks!TypeOK
  <1>5. pidtbl' \in [Pid -> Seq(Entry)]
    BY <1>0, <1>2 DEF Locks!TypeOK
  <1>6. \A q \in Pid \ {p} : Locks!Chain(q)' = Locks!Chain(q)
    BY <1>4 DEF Locks!Chain
  <1>7. Len(pidtbl'[p]) = Len(s) + 1 /\ pidtbl'[p][1] = e
    BY <1>1, <1>2
  <1>8. \A i \in 1..Len(s) : pidtbl'[p][i + 1] = s[i]
    BY <1>1, <1>2
  <1> QED BY <1>3, <1>4, <1>5, <1>6, <1>7, <1>8

(* addLock keeps the set and the chains together.                           *)
LEMMA AddKeeps ==
  ASSUME LocksInv, NEW p \in Pid, NEW l \in Lock, Locks!AddLock(p, l)
  PROVE  LocksInv'
  <1> USE DEF LocksInv
  <1>1. PICK e \in Entry : /\ heap[e] = Free
                           /\ heap' = [heap EXCEPT ![e] = [pid |-> p, lock |-> l]]
                           /\ tbl' = tbl \cup {e}
                           /\ pidtbl' = [pidtbl EXCEPT ![p] = <<e>> \o @]
    BY Added
  <1>2. /\ pidtbl' \in [Pid -> Seq(Entry)]
        /\ Locks!Chain(p)' = Locks!Chain(p) \cup {e}
        /\ \A q \in Pid \ {p} : pidtbl'[q] = pidtbl[q] /\ Locks!Chain(q)' = Locks!Chain(q)
        /\ Len(pidtbl'[p]) = Len(pidtbl[p]) + 1 /\ pidtbl'[p][1] = e
        /\ \A i \in 1..Len(pidtbl[p]) : pidtbl'[p][i + 1] = pidtbl[p][i]
    BY <1>1, ChainGrows
  <1>3. Locks!TypeOK'
    BY <1>1, <1>2 DEF Locks!TypeOK, Locks!AddLock
  <1>4. heap' \in [Entry -> [pid: Pid, lock: Lock] \cup {Free}] /\ heap'[e] # Free /\ heap'[e].pid = p
    BY <1>1, <1>3, LocksAssumption DEF Locks!LockAssumption, Locks!TypeOK
  <1>5. \A x \in Entry \ {e} : heap'[x] = heap[x]
    BY <1>1 DEF Locks!TypeOK
  <1>6. tbl' = {x \in Entry : heap'[x] # Free}
    BY <1>1, <1>4, <1>5 DEF Locks!Consistent
  <1>7. tbl' = UNION {Locks!Chain(q)' : q \in Pid}
    <2>1. UNION {Locks!Chain(q)' : q \in Pid} = (UNION {Locks!Chain(q) : q \in Pid}) \cup {e}
      BY <1>2
    <2> QED BY <1>1, <2>1 DEF Locks!Consistent
  <1>8. e \notin tbl /\ \A q \in Pid : e \notin Locks!Chain(q)
    BY <1>1 DEF Locks!Consistent
  <1>9. ASSUME NEW q \in Pid
        PROVE  /\ \A i, j \in DOMAIN pidtbl'[q] : pidtbl'[q][i] = pidtbl'[q][j] => i = j
               /\ \A x \in Locks!Chain(q)' : heap'[x].pid = q
    <2>1. CASE q # p
      <3>1. \A x \in Locks!Chain(q) : x \in Entry \ {e}
        BY <1>8 DEF Locks!Consistent, Locks!TypeOK
      <3> QED BY <1>2, <1>5, <2>1, <3>1 DEF Locks!Consistent
    <2>2. CASE q = p
      <3>1. \A x \in Locks!Chain(p)' : heap'[x].pid = p
        BY <1>2, <1>4, <1>5, <1>8 DEF Locks!Consistent
      <3>2. pidtbl[p] \in Seq(Entry) /\ pidtbl'[p] \in Seq(Entry)
        BY <1>2 DEF Locks!TypeOK
      <3>3. /\ DOMAIN pidtbl[p] = 1..Len(pidtbl[p]) /\ Len(pidtbl[p]) \in Nat
            /\ DOMAIN pidtbl'[p] = 1..(Len(pidtbl[p]) + 1)
        BY <1>2, <3>2
      <3>4. \A i \in 1..Len(pidtbl[p]) : pidtbl[p][i] # e
        BY <1>8, <3>3 DEF Locks!Chain
      <3>5. ASSUME NEW i \in DOMAIN pidtbl'[p], i # 1
            PROVE  /\ i - 1 \in DOMAIN pidtbl[p] /\ pidtbl'[p][i] = pidtbl[p][i - 1]
                   /\ pidtbl'[p][i] # e
        <4>1. i - 1 \in 1..Len(pidtbl[p]) /\ (i - 1) + 1 = i
          BY <3>3, <3>5
        <4>2. pidtbl'[p][(i - 1) + 1] = pidtbl[p][i - 1]
          BY <1>2, <4>1
        <4> QED BY <3>3, <3>4, <4>1, <4>2
      <3>6. ASSUME NEW i \in DOMAIN pidtbl'[p], NEW j \in DOMAIN pidtbl'[p],
                   pidtbl'[p][i] = pidtbl'[p][j]
            PROVE  i = j
        <4>1. CASE i = 1 \/ j = 1
          BY <1>2, <3>5, <3>6, <4>1
        <4>2. CASE i # 1 /\ j # 1
          <5>1. i - 1 = j - 1
            BY <3>5, <3>6, <4>2 DEF Locks!Consistent
          <5> QED BY <3>3, <5>1
        <4> QED BY <4>1, <4>2
      <3> QED BY <2>2, <3>1, <3>6
    <2> QED BY <2>1, <2>2
  <1>10. Locks!Consistent'
    BY <1>6, <1>7, <1>9 DEF Locks!Consistent, Locks!Chain
  <1> QED BY <1>3, <1>10

(* BTRELEASE keeps them together too: what it frees is what the chain of    *)
(* the process names, and no other chain names that.                        *)
LEMMA ReleaseKeeps ==
  ASSUME LocksInv, NEW p \in Pid, Locks!Release(p)
  PROVE  LocksInv'
  <1> USE DEF LocksInv
  <1>1. Locks!Gone({p}) = Locks!Chain(p)
    BY DEF Locks!Gone
  <1>2. /\ heap' = [e \in Entry |-> IF e \in Locks!Chain(p) THEN Free ELSE heap[e]]
        /\ tbl' = tbl \ Locks!Chain(p)
        /\ pidtbl' = [q \in Pid |-> IF q = p THEN <<>> ELSE pidtbl[q]]
    BY <1>1 DEF Locks!Release, Locks!Freed, Locks!Erased, Locks!Unlinked
  <1>3. Locks!TypeOK'
    <2>1. heap' \in [Entry -> [pid: Pid, lock: Lock] \cup {Free}] /\ tbl' \subseteq Entry
      BY <1>2 DEF Locks!TypeOK
    <2>2. pidtbl' \in [Pid -> Seq(Entry)]
      <3>1. <<>> \in Seq(Entry)
        OBVIOUS
      <3> QED BY <1>2, <3>1 DEF Locks!TypeOK
    <2>3. here' \subseteq Pid /\ told' \in [Pid -> SUBSET Lock]
      BY DEF Locks!TypeOK, Locks!Release
    <2> QED BY <2>1, <2>2, <2>3 DEF Locks!TypeOK
  <1>4. Locks!Chain(p)' = {} /\ \A q \in Pid \ {p} : Locks!Chain(q)' = Locks!Chain(q) /\ pidtbl'[q] = pidtbl[q]
    BY <1>2 DEF Locks!Chain
  <1>5. \A q \in Pid \ {p} : Locks!Chain(q) \cap Locks!Chain(p) = {}
    BY DEF Locks!Consistent
  <1>6. tbl' = {e \in Entry : heap'[e] # Free}
    BY <1>2 DEF Locks!Consistent
  <1>7. tbl' = UNION {Locks!Chain(q)' : q \in Pid}
    BY <1>2, <1>4, <1>5 DEF Locks!Consistent
  <1>8. ASSUME NEW q \in Pid
        PROVE  /\ \A i, j \in DOMAIN pidtbl'[q] : pidtbl'[q][i] = pidtbl'[q][j] => i = j
               /\ \A x \in Locks!Chain(q)' : heap'[x].pid = q
    <2>1. CASE q = p
      BY <1>2, <1>4, <2>1
    <2>2. CASE q # p
      <3>1. \A x \in Locks!Chain(q) : x \in Entry /\ x \notin Locks!Chain(p)
        BY <1>5, <2>2 DEF Locks!Consistent
      <3> QED BY <1>2, <1>4, <2>2, <3>1 DEF Locks!Consistent
    <2> QED BY <2>1, <2>2
  <1>9. Locks!Consistent'
    BY <1>6, <1>7, <1>8 DEF Locks!Consistent, Locks!Chain
  <1> QED BY <1>3, <1>9

LEMMA StepLocksInv == LocksInv /\ [Locks!Next]_(Locks!vars) => LocksInv'
  <1> SUFFICES ASSUME LocksInv, [Locks!Next]_(Locks!vars) PROVE LocksInv'
    OBVIOUS
  <1>1. ASSUME NEW p \in Pid, Locks!Exit(p) \/ Locks!Fork(p) PROVE LocksInv'
    BY <1>1 DEF Locks!Exit, Locks!Fork, LocksInv, Locks!TypeOK, Locks!Consistent, Locks!Chain
  <1>2. CASE UNCHANGED Locks!vars
    BY <1>2 DEF Locks!vars, LocksInv, Locks!TypeOK, Locks!Consistent, Locks!Chain
  <1> QED BY <1>1, <1>2, AddKeeps, ReleaseKeeps DEF Locks!Next

(* Locks!TypeOK and Locks!Consistent in every state, for any number of processes, locks *)
(* and addresses: the set and the chains of the lock table                  *)
(* (LockTable.cc) hold the same live entries, each in the chain of its own  *)
(* process, through every order of locks, releases, exits and new           *)
(* processes.                                                               *)
THEOREM TableConsistent == Locks!Spec => [](Locks!TypeOK /\ Locks!Consistent)
  BY LocksAssumption, InitLocksInv, StepLocksInv, PTL DEF Locks!Spec, LocksInv

LEMMA InitHeld == Locks!Init => Locks!HeldIsRecorded
  BY DEF Locks!Init, Locks!HeldIsRecorded

(* A new entry takes an address that is not in use, and a release deletes   *)
(* the entries of its own process only.                                     *)
LEMMA StepHeld ==
  LocksInv /\ Locks!HeldIsRecorded /\ [Locks!Next]_(Locks!vars) => Locks!HeldIsRecorded'
  <1> SUFFICES ASSUME LocksInv, Locks!HeldIsRecorded, [Locks!Next]_(Locks!vars),
                      NEW q \in Pid, NEW k \in told'[q]
               PROVE  \E e \in tbl' : heap'[e] = [pid |-> q, lock |-> k]
    BY DEF Locks!HeldIsRecorded
  <1> USE DEF LocksInv
  <1>1. ASSUME NEW p \in Pid, NEW l \in Lock, Locks!AddLock(p, l)
        PROVE  \E e \in tbl' : heap'[e] = [pid |-> q, lock |-> k]
    <2>1. PICK e \in Entry : /\ heap[e] = Free
                             /\ heap' = [heap EXCEPT ![e] = [pid |-> p, lock |-> l]]
                             /\ tbl' = tbl \cup {e}
      BY <1>1, Added
    <2>2. k \in told[q] \/ (q = p /\ k = l)
      BY <1>1 DEF Locks!AddLock, Locks!TypeOK
    <2>3. CASE k \in told[q]
      <3>1. PICK x \in tbl : heap[x] = [pid |-> q, lock |-> k]
        BY <2>3 DEF Locks!HeldIsRecorded
      <3>2. x \in Entry /\ x # e
        BY <2>1, <3>1 DEF Locks!TypeOK, Locks!Consistent
      <3> QED BY <2>1, <3>1, <3>2 DEF Locks!TypeOK
    <2>4. CASE q = p /\ k = l
      BY <2>1, <2>4 DEF Locks!TypeOK
    <2> QED BY <2>2, <2>3, <2>4
  <1>2. ASSUME NEW p \in Pid, Locks!Release(p)
        PROVE  \E e \in tbl' : heap'[e] = [pid |-> q, lock |-> k]
    <2>1. q # p /\ k \in told[q]
      BY <1>2 DEF Locks!Release, Locks!TypeOK
    <2>2. PICK x \in tbl : heap[x] = [pid |-> q, lock |-> k]
      BY <2>1 DEF Locks!HeldIsRecorded
    <2>3. x \notin Locks!Gone({p})
      BY <2>1, <2>2 DEF Locks!Gone, Locks!Consistent
    <2> QED BY <1>2, <2>2, <2>3 DEF Locks!Release, Locks!Freed, Locks!Erased, Locks!TypeOK
  <1>3. ASSUME NEW p \in Pid, Locks!Exit(p) \/ Locks!Fork(p)
        PROVE  \E e \in tbl' : heap'[e] = [pid |-> q, lock |-> k]
    BY <1>3 DEF Locks!Exit, Locks!Fork, Locks!TypeOK, Locks!HeldIsRecorded
  <1>4. CASE UNCHANGED Locks!vars
    BY <1>4 DEF Locks!vars, Locks!HeldIsRecorded
  <1> QED BY <1>1, <1>2, <1>3, <1>4 DEF Locks!Next

(* What a process has been told it holds stays in the table until it        *)
(* releases it (LockTable::addLock, delLock).                               *)
THEOREM HeldRecorded == Locks!Spec => []Locks!HeldIsRecorded
  BY LocksAssumption, InitLocksInv, StepLocksInv, InitHeld, StepHeld, PTL DEF Locks!Spec

(* LocksConsistent, for any number of processes, locks and addresses: in    *)
(* every state of the server, the set and the chains of the lock table hold *)
(* the same live entries, and among them every lock that a process has been *)
(* told it holds (LockTable::addLock, delLock).                             *)
THEOREM LocksStayConsistent == MCSpec => []LocksConsistent
  <1> DEFINE Inv == LocksInv /\ Locks!HeldIsRecorded
  <1>1. MCInit => Inv
    BY InitLocksInv, InitHeld DEF MCInit
  <1>2. Inv /\ [MCNext]_<<vars, lockVars, queueVars, part>> => Inv'
    <2>1. [MCNext]_<<vars, lockVars, queueVars, part>> => [Locks!Next]_(Locks!vars)
      BY DEF MCNext, lockVars, Locks!vars
    <2> QED BY <2>1, StepLocksInv, StepHeld
  <1>3. Inv => LocksConsistent
    BY DEF LocksInv, LocksConsistent
  <1> QED BY <1>1, <1>2, <1>3, PTL DEF MCSpec

-----------------------------------------------------------------------------
(* The request queues.                                                      *)

LEMMA SameQueues ==
  /\ Queues!Init <=> QP!Init
  /\ Queues!Next <=> QP!Next
  /\ ReplyIsMine <=> QP!ReplyIsMine
  /\ NothingLost <=> QP!NothingLost
  /\ QP!RequestsAssumption
  <1>1. Queues!Init <=> QP!Init
    BY DEF Queues!Init, QP!Init, Queues!NoReply, QP!NoReply, Queues!NoFile, QP!NoFile
  <1> USE DEF Queues!Ops, QP!Ops, Queues!Running, QP!Running
  <1>2. \A p \in Client, op \in Queues!Ops :
          (Queues!Call(p, op) <=> QP!Call(p, op)) /\ (Queues!CallStale(p, op) <=> QP!CallStale(p, op))
    BY DEF Queues!Call, QP!Call, Queues!CallStale, QP!CallStale, Queues!Runs, QP!Runs,
           Queues!Accepted, QP!Accepted, Queues!OpAllowed, QP!OpAllowed,
           Queues!Stateless, QP!Stateless, Queues!NoFile, QP!NoFile,
           Queues!serverVars, QP!serverVars
  <1>3. \A p \in Client : Queues!Receive(p) <=> QP!Receive(p)
    BY DEF Queues!Receive, QP!Receive, Queues!Without, QP!Without
  <1>4. \A p \in Client :
          /\ Queues!ReceiveFails(p) <=> QP!ReceiveFails(p)
          /\ Queues!SaveTag(p) <=> QP!SaveTag(p)
          /\ Queues!LoadTag(p) <=> QP!LoadTag(p)
          /\ Queues!Exit(p) <=> QP!Exit(p)
          /\ Queues!Fork(p) <=> QP!Fork(p)
    BY DEF Queues!ReceiveFails, QP!ReceiveFails, Queues!SaveTag, QP!SaveTag,
           Queues!LoadTag, QP!LoadTag, Queues!Exit, QP!Exit, Queues!Fork, QP!Fork,
           Queues!Runs, QP!Runs, Queues!NoFile, QP!NoFile,
           Queues!serverVars, QP!serverVars, Queues!clientVars, QP!clientVars
  <1>5. Queues!Server <=> QP!Server
    BY DEF Queues!Server, QP!Server, Queues!Serve, QP!Serve, Queues!Reply, QP!Reply,
           Queues!Sent, QP!Sent, Queues!ReplyBlocked, QP!ReplyBlocked,
           Queues!CleanMore, QP!CleanMore, Queues!CleanDone, QP!CleanDone,
           Queues!Cleaned, QP!Cleaned, Queues!PutBack, QP!PutBack,
           Queues!Unfreeze, QP!Unfreeze, Queues!Start, QP!Start,
           Queues!clientVars, QP!clientVars
  <1>6. Queues!Stop <=> QP!Stop
    BY DEF Queues!Stop, QP!Stop, Queues!NoReply, QP!NoReply, Queues!clientVars, QP!clientVars
  <1>7. Queues!Next <=> QP!Next
    BY <1>2, <1>3, <1>4, <1>5, <1>6 DEF Queues!Next, QP!Next
  <1>8. ReplyIsMine <=> QP!ReplyIsMine
    BY DEF ReplyIsMine, Queues!ReplyIsMine, QP!ReplyIsMine, Queues!Awaited, QP!Awaited
  <1>9. NothingLost <=> QP!NothingLost
    BY DEF NothingLost, Queues!NothingLost, QP!NothingLost, Queues!InFlight, QP!InFlight
  <1>10. QP!RequestsAssumption
    BY QueuesAssumption DEF Queues!RequestsAssumption, QP!RequestsAssumption
  <1> QED BY <1>1, <1>7, <1>8, <1>9, <1>10

LEMMA QueuesStep == [MCNext]_<<vars, lockVars, queueVars, part>> => [QP!Next]_(QP!vars)
  BY SameQueues DEF MCNext, queueVars, QP!vars, QP!serverVars, QP!clientVars

LEMMA QueuesKept ==
  /\ MCInit => QP!RInv
  /\ QP!RInv /\ [MCNext]_<<vars, lockVars, queueVars, part>> => QP!RInv'
  BY SameQueues, QueuesStep, QP!InitRInv, QP!StepRInv DEF MCInit

(* ReplyIsMine, for any number of processes and servers: in every state of  *)
(* the server, the reply that a process finds under an id nobody had before *)
(* is the one to the request it waits for (btas in client.c).               *)
THEOREM RepliesStayMine == MCSpec => []ReplyIsMine
  <1>1. QP!RInv => ReplyIsMine
    BY SameQueues, QP!OursIsMine
  <1> QED BY <1>1, QueuesKept, PTL DEF MCSpec

(* NothingLost, for any number of processes and servers: the request of a   *)
(* process that waits for the running server is queued, being served or     *)
(* answered, through every reshuffle of cleanq (server.c).                  *)
THEOREM NothingIsLost == MCSpec => []NothingLost
  <1>1. QP!RInv => NothingLost
    BY SameQueues, QP!ExpectedIsNothingLost DEF QP!RInv, QP!IInv
  <1> QED BY <1>1, QueuesKept, PTL DEF MCSpec
=============================================================================

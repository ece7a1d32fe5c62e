--------------------------- MODULE FailSafe_proofs ---------------------------
(***************************************************************************)
(* Proofs about FailSafe, for every set of blocks, every checkpoint size   *)
(* and every setting of its switches: type correctness (with the bound on  *)
(* the checkpoint buffer), the coherence of the cache with the disk, and   *)
(* that checkpoints are atomic.  Then about the free space beside it       *)
(* (Space, in Device), for every number of blocks and depth of a file.     *)
(***************************************************************************)
EXTENDS Device, FiniteSetTheorems, WellFoundedInduction, TLAPS

(* A subset of the blocks has a size, and adding or removing a block        *)
(* changes it by one.                                                       *)
LEMMA QueueSize ==
  ASSUME NEW Q \in SUBSET Block, NEW b \in Block
  PROVE  /\ IsFiniteSet(Q) /\ Cardinality(Q) \in Nat
         /\ Cardinality(Q) = 0 <=> Q = {}
         /\ Cardinality(Q \cup {b}) <= Cardinality(Q) + 1
         /\ Cardinality(Q \ {b}) <= Cardinality(Q)
  <1>1. IsFiniteSet(Q)
    BY FailSafeAssumption, FS_Subset
  <1>2. Cardinality(Q) \in Nat /\ (Cardinality(Q) = 0 <=> Q = {})
    BY <1>1, FS_CardinalityType, FS_EmptySet
  <1>3. Cardinality(Q \cup {b}) <= Cardinality(Q) + 1
    BY <1>1, <1>2, FS_AddElement, Cardinality(Q \cup {b}) \in {Cardinality(Q), Cardinality(Q) + 1}
  <1>4. Cardinality(Q \ {b}) <= Cardinality(Q)
    BY <1>1, <1>2, FS_RemoveElement
  <1> QED BY <1>1, <1>2, <1>3, <1>4

(* The header with another flag and sequence number is a header. *)
LEMMA HeaderUpdates ==
  ASSUME NEW h \in Header, NEW m \in Nat, NEW n \in 0..MaxBlks \cup {Dirty}
  PROVE  /\ [h EXCEPT !.flag = n] \in Header
         /\ [h EXCEPT !.meta = m] \in Header
         /\ [h EXCEPT !.eof = 1] \in Header
         /\ [h EXCEPT !.flag = n, !.chkseq = (@ + 1) % SeqMod] \in Header
         /\ [h EXCEPT !.meta = m, !.chkseq = (@ + 1) % SeqMod] \in Header
  <1>1. (h.chkseq + 1) % SeqMod \in 0..(SeqMod - 1)
    BY FailSafeAssumption DEF Header
  <1> QED BY <1>1 DEF Header

LEMMA InitTypeOK == Init => TypeOK
  <1> SUFFICES ASSUME Init PROVE TypeOK
    OBVIOUS
  <1>1. Zeroed \in Header
    BY FailSafeAssumption DEF Zeroed, Header
  <1>2. Cardinality({}) = 0
    BY FS_EmptySet
  <1> QED BY <1>1, <1>2, FailSafeAssumption DEF Init, TypeOK, Phases, Jobs, Slots

LEMMA StepTypeOK == TypeOK /\ [Next]_vars => TypeOK'
  <1> SUFFICES ASSUME TypeOK, [Next]_vars PROVE TypeOK'
    OBVIOUS
  <1> USE FailSafeAssumption DEF TypeOK, Phases, Jobs
  <1>0. /\ Cardinality({}) = 0 /\ Zeroed \in Header
        /\ Slots \subseteq 0..MaxBlks /\ 0 \in 0..MaxBlks /\ 0 \in Nat
    BY FS_EmptySet DEF Zeroed, Header, Slots
  <1>1. CASE MountRefused
    BY <1>1 DEF MountRefused, server, area, bounds
  <1>2. CASE MountPlain
    BY <1>0, <1>2 DEF MountPlain, area, bounds
  <1>3. CASE MountCheckpoint
    <2>1. slot[sb.flag] \in Header
      BY <1>3 DEF MountCheckpoint, HasCheckpoint
    <2>2. hdr' \in Header
      BY <1>3, <2>1, HeaderUpdates DEF MountCheckpoint, Header
    <2> QED BY <1>0, <1>3, <2>2 DEF MountCheckpoint, area, bounds
  <1>4. ASSUME NEW S \in SUBSET Block, NEW m \in {hdr.meta, clock + 1}, Update(S, m)
        PROVE  TypeOK'
    <2>1. m \in Nat
      BY DEF Header
    <2>2. hdr' \in Header
      BY <1>4, <2>1, <1>0, HeaderUpdates DEF Update
    <2> QED BY <1>4, <2>2 DEF Update, area
  <1>5. CASE ExtentFull
    <2>1. hdr' \in Header
      BY <1>5, <1>0, HeaderUpdates DEF ExtentFull
    <2> QED BY <1>5, <2>1 DEF ExtentFull, area, bounds
  <1>6. ASSUME NEW h \in Header PROVE [h EXCEPT !.flag = Dirty] \in Header
    BY <1>6, <1>0, HeaderUpdates
  <1>7. ASSUME MarkDirty PROVE hdr' \in Header /\ sb' \in Header
    BY <1>6, <1>7 DEF MarkDirty
  <1>8. ASSUME NEW b \in Block, Preallocate(b) PROVE TypeOK'
    <2>1. CASE Cardinality(queue) < MaxBlks
      <3>1. Cardinality(queue') <= MaxBlks
        BY <1>8, <2>1, QueueSize DEF Preallocate
      <3> QED BY <1>8, <2>1, <3>1 DEF Preallocate, area, bounds
    <2>2. CASE ~(Cardinality(queue) < MaxBlks)
      BY <1>7, <1>8, <2>2 DEF Preallocate, area, bounds
    <2> QED BY <2>1, <2>2
  <1>9. ASSUME NEW b \in Block, Read(b) PROVE TypeOK'
    <2>1. PICK q \in queue : /\ disk' = [disk EXCEPT ![q] = qval[q]]
                             /\ queue' = queue \ {q}
      BY <1>9 DEF Read
    <2>2. /\ Cardinality(queue) \in Nat /\ Cardinality(queue \ {q}) \in Nat
          /\ Cardinality(queue \ {q}) <= Cardinality(queue)
      BY QueueSize, q \in Block, queue \ {q} \in SUBSET Block
    <2>3. Cardinality(queue') <= MaxBlks
      BY <2>1, <2>2
    <2>4. /\ disk' \in [Block -> Nat] /\ queue' \in SUBSET Block
      BY <2>1
    <2>5. UNCHANGED <<pc, job, cache, mod, chk, cnt, err, hdr, backup, qval, lastn,
                      sb, cpdom, cpval, slot, clock, crashes>>
      BY <1>9 DEF Read, area, bounds
    <2> QED BY <2>3, <2>4, <2>5
  <1>9a. ASSUME NEW b \in Block, ReadFails(b) PROVE TypeOK'
    <2>1. PICK q \in queue : queue' = queue \ {q}
      BY <1>9a DEF ReadFails
    <2>2. /\ Cardinality(queue) \in Nat /\ Cardinality(queue \ {q}) \in Nat
          /\ Cardinality(queue \ {q}) <= Cardinality(queue)
      BY QueueSize, q \in Block, queue \ {q} \in SUBSET Block
    <2>3. Cardinality(queue') <= MaxBlks /\ queue' \in SUBSET Block
      BY <2>1, <2>2
    <2>4. UNCHANGED <<pc, job, cache, mod, chk, cnt, err, hdr, backup, qval, lastn, disk,
                      sb, cpdom, cpval, slot, clock, crashes>>
      BY <1>9a DEF ReadFails, area, bounds
    <2> QED BY <2>3, <2>4
  <1>9b. ASSUME NEW b \in Block, PreallocateFails(b) PROVE TypeOK'
    <2>1. hdr' \in Header /\ sb' \in Header
      <3>1. PICK e \in {hdr.eof, 1} : hdr' = [hdr EXCEPT !.flag = Dirty, !.eof = e]
        BY <1>9b DEF PreallocateFails
      <3>2. hdr' \in Header
        BY <1>0, <3>1 DEF Header
      <3> QED BY <1>6, <1>9b, <3>2 DEF PreallocateFails
    <2> QED BY <1>9b, <2>1 DEF PreallocateFails, area, bounds
  <1>9c. ASSUME NEW b \in Block, NEW v \in Nat, NEW marks \in BOOLEAN, BlockFails(b, v, marks)
         PROVE  hdr' \in Header /\ sb' \in Header /\ disk' \in [Block -> Nat]
    BY <1>6, <1>9c DEF BlockFails
  <1>10. CASE StartFull \/ StartFlush \/ StartUnmount \/ WaitSome \/ WriteDone
    BY <1>10 DEF StartFull, StartFlush, StartUnmount, WaitSome, WriteDone,
                 server, area, bounds
  <1>11. CASE WaitNothing
    BY <1>11 DEF WaitNothing, area, bounds
  <1>12. CASE WaitDone
    BY <1>12 DEF WaitDone, area, bounds
  <1>12a. ASSUME NEW b \in Block, ApplyFails(b) PROVE TypeOK'
    <2>1. Cardinality(queue') <= MaxBlks
      BY <1>12a, QueueSize DEF ApplyFails
    <2>2. hdr' \in Header /\ sb' \in Header /\ disk' \in [Block -> Nat]
      BY <1>9c, <1>12a, qval[b] \in Nat, (hdr.flag = 0) \in BOOLEAN DEF ApplyFails
    <2> QED BY <1>12a, <2>1, <2>2 DEF ApplyFails, area, bounds
  <1>12b. ASSUME NEW b \in Block, WriteFails(b) PROVE TypeOK'
    <2>1. hdr' \in Header /\ sb' \in Header /\ disk' \in [Block -> Nat]
      BY <1>9c, <1>12b, cache[b] \in Nat, (hdr.flag # Dirty) \in BOOLEAN DEF WriteFails
    <2> QED BY <1>12b, <2>1 DEF WriteFails, area, bounds
  <1>13. ASSUME NEW b \in Block, Apply(b) PROVE TypeOK'
    <2>1. Cardinality(queue') <= MaxBlks
      BY <1>13, QueueSize DEF Apply
    <2>2. hdr' \in Header /\ sb' \in Header
      BY <1>7, <1>13 DEF Apply
    <2> QED BY <1>13, <2>1, <2>2 DEF Apply, area, bounds
  <1>14. ASSUME NEW b \in Block, WriteQueued(b) PROVE TypeOK'
    <2>1. Cardinality(queue) \in Nat /\ Cardinality(queue \cup {b}) \in Nat
      BY QueueSize, queue \cup {b} \in SUBSET Block
    <2>2. Cardinality(queue \cup {b}) <= Cardinality(queue) + 1
      BY QueueSize
    <2>3. Cardinality(queue) < MaxBlks /\ queue' = queue \cup {b}
      BY <1>14 DEF WriteQueued
    <2>4. Cardinality(queue') <= MaxBlks
      BY <2>1, <2>2, <2>3
    <2> QED BY <1>14, <2>4 DEF WriteQueued, area, bounds
  <1>15. ASSUME NEW b \in Block, WriteInPlace(b) PROVE TypeOK'
    <2>1. hdr' \in Header /\ sb' \in Header
      BY <1>7, <1>15 DEF WriteInPlace
    <2> QED BY <1>15, <2>1 DEF WriteInPlace, area, bounds
  <1>16. ASSUME Return PROVE pc' \in Phases /\ job' \in Jobs
    <2>1. CASE job = "full"
      BY <1>16, <2>1 DEF Return
    <2>2. CASE job = "unmount"
      BY <1>16, <2>2 DEF Return
    <2>3. CASE job = "unmount2"
      BY <1>16, <2>3 DEF Return
    <2>4. CASE job \notin {"full", "unmount", "unmount2"}
      BY <1>16, <2>4 DEF Return
    <2> QED BY <2>1, <2>2, <2>3, <2>4
  <1>16a. CASE WaitFailed
    <2>1. pc' \in Phases /\ job' \in Jobs
      <3>1. CASE job = "mount"
        BY <1>16a, <3>1 DEF WaitFailed
      <3>2. CASE job # "mount"
        BY <1>16, <1>16a, <3>2 DEF WaitFailed
      <3> QED BY <3>1, <3>2
    <2> QED BY <1>16a, <2>1 DEF WaitFailed, area, bounds
  <1>17. CASE WriteLimit
    BY <1>16, <1>17 DEF WriteLimit, server, area, bounds
  <1>18. CASE SyncClean
    <2>1. [hdr EXCEPT !.flag = 0] \in Header
      BY <1>0, HeaderUpdates
    <2> QED BY <1>16, <1>18, <2>1 DEF SyncClean, area, bounds
  <1>18a. CASE SyncCleanFails
    <2>1. [hdr EXCEPT !.flag = 0] \in Header
      BY <1>0, HeaderUpdates
    <2> QED BY <1>16, <1>18a, <2>1 DEF SyncCleanFails, area, bounds
  <1>19. ASSUME queue # {}
         PROVE  LET n == Cardinality(queue)
                IN /\ n \in Slots
                   /\ Front(n) \in Header
                   /\ Behind(n) \in Header
    <2>1. PICK b \in Block : b \in queue
      BY <1>19
    <2>2. Cardinality(queue) \in Nat /\ Cardinality(queue) # 0
      BY <1>19, <2>1, QueueSize
    <2>3. Cardinality(queue) \in Slots
      BY <2>2 DEF Slots
    <2> QED BY <1>0, <2>3, HeaderUpdates DEF Front, Behind
  <1>20. ASSUME NEW n \in Nat, NEW u \in Nat
         PROVE  Overwritten(n, u) \in [Slots -> Header]
    BY <1>0 DEF Overwritten
  <1>21. CASE SyncCheckpoint
    <2>1. Cardinality(queue) \in Nat /\ lastn \in Nat /\ Cardinality(queue) \in 0..MaxBlks
      BY <1>0, <1>19, <1>21 DEF SyncCheckpoint, Slots
    <2>2. /\ hdr' \in Header /\ sb' \in Header
          /\ slot' \in [Slots -> Header]
      BY <1>19, <1>20, <1>21, <2>1 DEF SyncCheckpoint
    <2> QED BY <1>16, <1>21, <2>1, <2>2 DEF SyncCheckpoint, bounds
  <1>22. ASSUME Die
         PROVE /\ pc' \in Phases /\ job' \in Jobs
               /\ cache' \in [Block -> Nat] /\ qval' \in [Block -> Nat]
               /\ mod' \in SUBSET Block /\ chk' \in SUBSET Block
               /\ queue' \in SUBSET Block
               /\ Cardinality(queue') <= MaxBlks
               /\ hdr' \in Header /\ backup' \in Header
               /\ cnt' \in Nat /\ err' \in {0, 1} /\ lastn' \in 0..MaxBlks /\ crashes' \in Nat
    BY <1>0, <1>22 DEF Die
  <1>23. CASE Crash
    BY <1>22, <1>23 DEF Crash, area
  <1>23a. ASSUME CutShort, queue # {}
          PROVE  /\ cpdom' = queue /\ cpval' \in [Block -> Nat]
                 /\ slot' \in [Slots -> Header] /\ sb' \in Header
    <2>1. PICK done \in SUBSET queue :
            /\ cpdom' = queue
            /\ cpval' = [b \in Block |-> IF b \in done THEN qval[b] ELSE cpval[b]]
            /\ slot' = Overwritten(Cardinality(done), 0)
      BY <1>23a DEF CutShort
    <2>2. Cardinality(done) \in Nat
      BY QueueSize, FS_Subset, FS_CardinalityType
    <2>3. slot' \in [Slots -> Header]
      BY <1>20, <2>1, <2>2
    <2>4. sb' \in Header
      BY <1>19, <1>23a DEF CutShort
    <2> QED BY <2>1, <2>3, <2>4
  <1>24. CASE TornBlocks
    BY <1>22, <1>23a, <1>24 DEF TornBlocks
  <1>24a. CASE SyncFails
    <2>1. hdr' \in Header /\ lastn' \in 0..MaxBlks
      BY <1>0, <1>19, <1>24a DEF SyncFails
    <2>2. CASE CutShort
      BY <1>16, <1>23a, <1>24a, <2>1, <2>2 DEF SyncFails, bounds
    <2>3. CASE UNCHANGED <<sb, area>>
      BY <1>16, <1>24a, <2>1, <2>3 DEF SyncFails, area, bounds
    <2> QED BY <1>24a, <2>2, <2>3 DEF SyncFails
  <1>25. CASE TornPadding
    <2>1. Cardinality(queue) \in Nat
      BY <1>0, <1>19, <1>25 DEF TornPadding, Slots
    <2>2. slot' \in [Slots -> Header] /\ sb' \in Header
      BY <1>19, <1>20, <1>25, <2>1 DEF TornPadding
    <2> QED BY <1>22, <1>25, <2>2 DEF TornPadding
  <1>26. CASE UNCHANGED vars
    BY <1>26 DEF vars, server, area, bounds
  <1> QED
    BY <1>1, <1>2, <1>3, <1>4, <1>5, <1>8, <1>9, <1>9a, <1>9b, <1>10, <1>11, <1>12, <1>12a,
       <1>12b, <1>13, <1>14, <1>15, <1>16a, <1>17, <1>18, <1>18a, <1>21, <1>23, <1>24, <1>24a,
       <1>25, <1>26 DEF Next, Sync

(* Every reachable state is well typed, and FDEV::buf never holds more than *)
(* maxblks blocks.                                                          *)
THEOREM TypeCorrect == Spec => []TypeOK
  BY InitTypeOK, StepTypeOK, PTL DEF Spec

-----------------------------------------------------------------------------
(* What Die and Return do to the phase. *)
LEMMA ReturnPhase ==
  ASSUME Return
  PROVE  /\ pc' \in {"sync", "idle", "closed"}
         /\ pc' = "closed" => job = "unmount2"
         /\ pc' \in {"idle", "closed"} => job' = "none"
         /\ job' = "unmount2" => job = "unmount"
  <1>1. CASE job = "full"
    BY <1>1 DEF Return
  <1>2. CASE job = "unmount"
    BY <1>2 DEF Return
  <1>3. CASE job = "unmount2"
    BY <1>3 DEF Return
  <1>4. CASE job \notin {"full", "unmount", "unmount2"}
    BY <1>4 DEF Return
  <1> QED BY <1>1, <1>2, <1>3, <1>4

(* What never happens while no write fails. *)
LEMMA NoFailure ==
  ASSUME ~Failing
  PROVE  /\ ~SyncCleanFails /\ ~SyncFails
         /\ \A b \in Block : /\ ~PreallocateFails(b) /\ ~ReadFails(b)
                             /\ ~ApplyFails(b) /\ ~WriteFails(b)
  BY DEF SyncCleanFails, SyncFails, PreallocateFails, ReadFails, ApplyFails, WriteFails, BlockFails

LEMMA InitIInv == Init => IInv
  BY DEF Init, IInv, Coherent, QueueTouched, WriteFresh, JobPhase, CleanHeader, NoError, Up,
         Idle

(* The step of each conjunct of IInv.  A crash leaves nothing mounted, so   *)
(* only JobPhase says anything after it.                                    *)
LEMMA StepDown ==
  ASSUME ~Failing, MountRefused \/ Crash \/ TornBlocks \/ TornPadding, IInv
  PROVE  IInv'
  <1>1. CASE MountRefused
    BY <1>1 DEF MountRefused, server, IInv, Coherent, QueueTouched, WriteFresh, JobPhase,
                CleanHeader, NoError, Up, Idle
  <1>2. CASE Crash \/ TornBlocks \/ TornPadding
    <2>1. pc' = "down" /\ job' = "none" /\ err' = 0
      BY <1>2 DEF Crash, TornBlocks, TornPadding, Die
    <2> QED BY <2>1 DEF IInv, Coherent, QueueTouched, WriteFresh, JobPhase,
                        CleanHeader, NoError, Up, Idle
  <1> QED BY <1>1, <1>2

LEMMA StepMount ==
  ASSUME TypeOK, IInv, MountPlain \/ MountCheckpoint
  PROVE  IInv'
  <1>1. CASE MountPlain
    BY <1>1 DEF MountPlain, TypeOK, IInv, Coherent, QueueTouched, WriteFresh,
                JobPhase, CleanHeader, NoError, Up, Idle
  <1>2. CASE MountCheckpoint
    <2>1. hdr'.flag # 0
      <3>1. hdr'.flag = sb.flag /\ sb.flag \in Slots
        BY <1>2 DEF MountCheckpoint, HasCheckpoint, TypeOK, Header
      <3> QED BY <3>1, FailSafeAssumption DEF Slots
    <2> QED BY <1>2, <2>1 DEF MountCheckpoint, TypeOK, IInv, Coherent, QueueTouched,
                              WriteFresh, JobPhase, CleanHeader, NoError, Up, Idle
  <1> QED BY <1>1, <1>2

LEMMA StepClient ==
  ASSUME TypeOK, IInv,
         \/ \E S \in SUBSET Block, m \in {hdr.meta, clock + 1} : Update(S, m)
         \/ ExtentFull
         \/ \E b \in Block : Preallocate(b) \/ Read(b)
  PROVE  IInv'
  <1> USE DEF TypeOK, IInv, Coherent, QueueTouched, WriteFresh, JobPhase, CleanHeader, NoError,
              Up, Idle, Touched
  <1>1. ASSUME NEW S \in SUBSET Block, NEW m \in {hdr.meta, clock + 1}, Update(S, m)
        PROVE  IInv'
    <2>1. /\ pc = "idle" /\ pc' = "idle" /\ S # {} /\ mod' = mod \cup S
          /\ UNCHANGED <<err, job, chk, queue, qval, disk, sb>>
      BY <1>1 DEF Update
    <2>2. \A b \in Block \ S : cache'[b] = cache[b]
      BY <1>1 DEF Update
    <2>3. hdr'.flag = hdr.flag
      BY <1>1 DEF Update, Header
    <2> QED BY <2>1, <2>2, <2>3
  <1>2. CASE ExtentFull
    <2>1. hdr'.flag = hdr.flag /\ hdr'.meta = hdr.meta
      BY <1>2 DEF ExtentFull, Header
    <2> QED BY <1>2, <2>1 DEF ExtentFull
  <1>3. ASSUME NEW b \in Block, Preallocate(b) PROVE IInv'
    <2>1. CASE Cardinality(queue) < MaxBlks
      <3>1. /\ pc = "idle" /\ pc' = "idle" /\ b \notin Touched \cup queue
            /\ cache[b] = 0 /\ disk[b] = 0
            /\ queue' = queue \cup {b}
            /\ qval'[b] = 0 /\ \A c \in Block \ {b} : qval'[c] = qval[c]
            /\ UNCHANGED <<err, job, cache, mod, chk, disk, hdr, sb>>
        BY <1>3, <2>1 DEF Preallocate
      <3> QED BY <3>1
    <2>2. CASE ~(Cardinality(queue) < MaxBlks)
      <3>1. hdr'.flag # 0
        BY <1>3, <2>2 DEF Preallocate, MarkDirty, Dirty, Header
      <3> QED BY <1>3, <2>2, <3>1 DEF Preallocate
    <2> QED BY <2>1, <2>2
  <1>4. ASSUME NEW b \in Block, Read(b) PROVE IInv'
    <2>1. PICK q \in queue : /\ disk' = [disk EXCEPT ![q] = qval[q]]
                             /\ queue' = queue \ {q}
      BY <1>4 DEF Read
    <2>2. /\ pc = "idle" /\ hdr.flag # 0
          /\ UNCHANGED <<err, pc, job, cache, mod, chk, hdr, qval, sb>>
      BY <1>4 DEF Read
    <2>3. disk'[q] = qval[q] /\ \A c \in Block \ {q} : disk'[c] = disk[c]
      BY <2>1
    <2> QED BY <2>1, <2>2, <2>3
  <1> QED BY <1>1, <1>2, <1>3, <1>4

LEMMA StepSync ==
  ASSUME ~Failing, TypeOK, IInv, StartFlush \/ StartUnmount \/ Sync
  PROVE  IInv'
  <1> USE DEF TypeOK, IInv, Coherent, QueueTouched, WriteFresh, JobPhase, CleanHeader, NoError,
              Up, Idle, Touched
  <1>1. CASE StartFull \/ StartFlush \/ StartUnmount \/ WaitSome
    BY <1>1 DEF StartFull, StartFlush, StartUnmount, WaitSome, server
  <1>2. CASE WaitNothing
    BY <1>2 DEF WaitNothing
  <1>3. CASE WaitDone
    BY <1>3 DEF WaitDone
  <1>3a. ~WaitFailed
    BY DEF WaitFailed
  <1>4. ASSUME NEW b \in Block, Apply(b) PROVE IInv'
    <2>1. /\ pc = "wait" /\ b \in queue /\ queue' = queue \ {b}
          /\ disk'[b] = qval[b] /\ \A c \in Block \ {b} : disk'[c] = disk[c]
          /\ UNCHANGED <<err, pc, job, cache, mod, chk, qval>>
      BY <1>4 DEF Apply
    <2>2. hdr'.flag # 0
      BY <1>4 DEF Apply, MarkDirty, Dirty, Header
    <2> QED BY <2>1, <2>2
  <1>5. ASSUME NEW b \in Block, WriteQueued(b) PROVE IInv'
    <2>1. /\ pc = "write" /\ b \in mod /\ queue' = queue \cup {b}
          /\ qval'[b] = cache[b] /\ \A c \in Block \ {b} : qval'[c] = qval[c]
          /\ mod' = mod \ {b} /\ chk' = chk \cup {b}
          /\ UNCHANGED <<err, pc, job, cache, hdr, disk, sb>>
      BY <1>5 DEF WriteQueued
    <2> QED BY <2>1
  <1>6. ASSUME NEW b \in Block, WriteInPlace(b) PROVE IInv'
    <2>1. /\ pc = "write" /\ b \in mod
          /\ disk'[b] = cache[b] /\ \A c \in Block \ {b} : disk'[c] = disk[c]
          /\ mod' = mod \ {b} /\ chk' = chk \cup {b}
          /\ UNCHANGED <<err, pc, job, cache, queue, qval>>
      BY <1>6 DEF WriteInPlace
    <2>2. hdr'.flag # 0
      BY <1>6 DEF WriteInPlace, MarkDirty, Dirty, Header
    <2> QED BY <2>1, <2>2
  <1>7. CASE WriteLimit
    <2>1. /\ pc = "write" /\ job = "full"
          /\ UNCHANGED <<err, cache, mod, chk, hdr, queue, qval, disk, sb>>
      BY <1>7 DEF WriteLimit, OverLimit, server
    <2>2. Return
      BY <1>7 DEF WriteLimit
    <2>3. \A b \in queue \ Touched : qval[b] = disk[b]
      BY <2>1
    <2> QED BY <2>1, <2>2, <2>3, ReturnPhase
  <1>8. CASE WriteDone
    BY <1>8 DEF WriteDone, server
  <1>9. CASE SyncClean
    <2>1. /\ pc = "devsync" /\ queue = {} /\ mod = {}
          /\ UNCHANGED <<err, cache, mod, chk, queue, qval, disk>>
      BY <1>9 DEF SyncClean
    <2>2. /\ pc' \in {"sync", "idle", "closed"}
          /\ pc' \in {"idle", "closed"} => job' = "none"
          /\ job' = "unmount2" => job = "unmount"
      BY <1>9, ReturnPhase DEF SyncClean
    <2>3. CASE hdr.flag # 0
      <3>1. hdr' = [hdr EXCEPT !.flag = 0] /\ sb' = hdr'
        BY <1>9, <2>3 DEF SyncClean
      <3>2. sb'.flag = 0 /\ hdr'.meta = sb'.meta
        BY <3>1 DEF Header
      <3> QED BY <2>1, <2>2, <3>2
    <2>4. CASE hdr.flag = 0
      <3>1. UNCHANGED <<hdr, sb>>
        BY <1>9, <2>4 DEF SyncClean
      <3> QED BY <2>1, <2>2, <3>1
    <2> QED BY <2>3, <2>4
  <1>10. CASE SyncCheckpoint
    <2>1. /\ pc = "devsync" /\ queue # {} /\ mod = {} /\ job # "unmount2"
          /\ UNCHANGED <<err, cache, mod, chk, queue, qval, disk>>
      BY <1>10 DEF SyncCheckpoint
    <2>2. /\ pc' \in {"sync", "idle", "closed"}
          /\ pc' \in {"idle", "closed"} => job' = "none"
      BY <1>10, ReturnPhase DEF SyncCheckpoint
    <2>3. hdr'.flag # 0
      <3>1. PICK b \in Block : b \in queue
        BY <2>1
      <3>2. Cardinality(queue) # 0
        BY <2>1, <3>1, QueueSize
      <3> QED BY <1>10, <3>2 DEF SyncCheckpoint, Behind, Header
    <2> QED BY <2>1, <2>2, <2>3
  <1> QED BY NoFailure, <1>1, <1>2, <1>3, <1>3a, <1>4, <1>5, <1>6, <1>7, <1>8, <1>9, <1>10 DEF Sync

LEMMA StepIInv ==
  ASSUME ~Failing
  PROVE  TypeOK /\ IInv /\ [Next]_vars => IInv'
  <1> SUFFICES ASSUME TypeOK, IInv, [Next]_vars PROVE IInv'
    OBVIOUS
  <1>1. CASE UNCHANGED vars
    BY <1>1 DEF vars, server, IInv, Coherent, QueueTouched, WriteFresh, JobPhase,
                CleanHeader, NoError, Up, Idle, Touched
  <1> QED BY <1>1, NoFailure, StepDown, StepMount, StepClient, StepSync DEF Next

LEMMA Invariance ==
  ASSUME ~Failing
  PROVE  Spec => [](TypeOK /\ IInv)
  BY InitTypeOK, InitIInv, StepTypeOK, StepIInv, PTL DEF Spec

(* A block whose buffer may have been evicted is current on disk.           *)
THEOREM ReadsAreCurrent ==
  ASSUME ~Failing
  PROVE  Spec => []ReadCurrent
  <1>1. TypeOK /\ IInv => ReadCurrent
    BY DEF TypeOK, IInv, Coherent, QueueTouched, ReadCurrent, Up, Idle, Touched
  <1> QED BY <1>1, Invariance, PTL

(* Only SyncClean marks the superblock clean, and there Coherent says that  *)
(* everything is in place.                                                  *)
THEOREM CleanIsWritten ==
  ASSUME ~Failing
  PROVE  Spec => CleanMeansWritten
  <1> DEFINE Written == sb.flag # 0 /\ sb'.flag = 0 => disk' = cache'
  <1>1. TypeOK /\ IInv /\ [Next]_vars => [Written]_vars
    <2> SUFFICES ASSUME TypeOK, IInv, Next, sb.flag # 0, sb'.flag = 0
                 PROVE  disk' = cache'
      OBVIOUS
    <2>1. MarkDirty => sb'.flag # 0
      BY DEF MarkDirty, TypeOK, Header, Dirty
    <2>2. ASSUME queue # {}
          PROVE  Front(Cardinality(queue)).flag # 0
      <3>1. PICK b \in Block : b \in queue
        BY <2>2 DEF TypeOK
      <3>2. Cardinality(queue) # 0
        BY <2>2, <3>1, QueueSize DEF TypeOK
      <3> QED BY <3>2 DEF Front, TypeOK, Header
    <2>3. ~SyncCheckpoint /\ ~TornBlocks /\ ~TornPadding
      BY <2>2 DEF SyncCheckpoint, TornBlocks, TornPadding, CutShort
    <2>4. \A b \in Block : ~Preallocate(b) /\ ~Apply(b) /\ ~WriteInPlace(b)
      BY <2>1 DEF Preallocate, Apply, WriteInPlace
    <2>5. SyncClean
      BY <2>3, <2>4, NoFailure DEF Next, Sync, MountRefused, MountPlain, MountCheckpoint, Update,
           ExtentFull, Read, StartFlush, StartUnmount, StartFull, WaitNothing, WaitSome,
           WaitDone, WaitFailed, WriteQueued, WriteLimit, WriteDone, Crash, server
    <2>6. /\ pc = "devsync" /\ queue = {} /\ mod = {}
          /\ UNCHANGED <<disk, cache>>
      BY <2>5 DEF SyncClean, IInv, JobPhase
    <2> QED BY <2>6 DEF IInv, Coherent, Up, TypeOK
  <1> QED BY <1>1, Invariance, PTL DEF Spec, CleanMeansWritten

(* An orderly unmount leaves everything in place under a clean superblock. *)
THEOREM UnmountsAreClean ==
  ASSUME ~Failing
  PROVE  Spec => UnmountClean
  <1> DEFINE Clean == pc # "closed" /\ pc' = "closed" =>
                        /\ sb'.flag = 0
                        /\ disk' = cache
                        /\ sb'.meta = hdr.meta
  <1>1. TypeOK /\ IInv /\ [Next]_vars => [Clean]_vars
    <2> SUFFICES ASSUME TypeOK, IInv, Next, pc # "closed", pc' = "closed"
                 PROVE  /\ sb'.flag = 0
                        /\ disk' = cache
                        /\ sb'.meta = hdr.meta
      OBVIOUS
    <2>1. WriteLimit \/ SyncClean \/ SyncCheckpoint
      BY NoFailure
         DEF Next, Sync, MountRefused, MountPlain, MountCheckpoint, Update, ExtentFull,
             Preallocate, Read, StartFlush, StartUnmount, StartFull, WaitNothing,
             WaitSome, WaitDone, WaitFailed, NoError, IInv, Apply, WriteQueued, WriteInPlace, WriteDone,
             Crash, TornBlocks, TornPadding, Die
    <2>2. job = "unmount2"
      BY <2>1, ReturnPhase DEF WriteLimit, SyncClean, SyncCheckpoint
    <2>3. SyncClean /\ queue = {} /\ mod = {} /\ UNCHANGED disk /\ pc = "devsync"
      BY <2>1, <2>2 DEF WriteLimit, OverLimit, SyncClean, SyncCheckpoint, IInv,
                        JobPhase
    <2>4. disk = cache
      BY <2>3 DEF IInv, Coherent, Up, TypeOK
    <2>5. CASE hdr.flag # 0
      <3>1. sb' = [hdr EXCEPT !.flag = 0]
        BY <2>3, <2>5 DEF SyncClean
      <3> QED BY <2>3, <2>4, <3>1 DEF TypeOK, Header
    <2>6. CASE hdr.flag = 0
      <3>1. sb' = sb
        BY <2>3, <2>6 DEF SyncClean
      <3> QED BY <2>3, <2>4, <2>6, <3>1 DEF IInv, CleanHeader, NoError, Up
    <2> QED BY <2>5, <2>6
  <1> QED BY <1>1, Invariance, PTL DEF Spec, UnmountClean

-----------------------------------------------------------------------------
(***************************************************************************)
(* FailSafe implements AtomicStore: blocks and superblock fields survive a *)
(* crash together, as they were at the last commit.  The proof has two     *)
(* parts, for the two ways the device is used: where every sync first      *)
(* checkpoints all it writes (and the checkpoint itself may be torn), and  *)
(* where a sync overflows its checkpoint and goes on in place.             *)
(***************************************************************************)

(* The superblock kept for a checkpoint that turns out partial differs from *)
(* the current one at most in meta, once everything queued is in place.     *)
EofSame == Up => backup.eof = hdr.eof

SeqSame ==
  Up => \/ backup.chkseq = hdr.chkseq
        \/ pc \in {"idle", "sync"} /\ queue # {}
        \/ pc = "wait"

(* The flag in memory is the one on disk. *)
FlagKnown == Up => hdr.flag = sb.flag

(* What is still queued under a checkpoint flag can be written in place     *)
(* without changing what a crash would recover.                             *)
Applying ==
  pc \in {"idle", "sync", "wait"} /\ hdr.flag \in Slots =>
    \A b \in queue : qval[b] = disk[b] \/ (HasCheckpoint /\ b \in cpdom)

(* As long as nothing went in place, every buffer counted is queued.        *)
CountQueued == pc = "write" /\ hdr.flag # Dirty => cnt <= Cardinality(queue)

AInv == EofSame /\ SeqSame /\ FlagKnown /\ Applying /\ CountQueued

-----------------------------------------------------------------------------
(* Recovery depends on the disk alone. *)
LEMMA RecoveredSame ==
  ASSUME UNCHANGED <<disk, sb, area>>
  PROVE  Recovered' = Recovered /\ (HasCheckpoint' <=> HasCheckpoint)
  BY DEF Recovered, HasCheckpoint, area

LEMMA RecoveredDirty ==
  ASSUME sb'.flag = Dirty
  PROVE  Recovered' = NoImage
  BY FailSafeAssumption DEF Recovered, HasCheckpoint, Slots, Dirty

LEMMA RecoveredPlain ==
  ASSUME sb'.flag # Dirty, ~HasCheckpoint'
  PROVE  Recovered' = [blk |-> disk', meta |-> sb'.meta]
  BY DEF Recovered

(* The size of a nonempty queue is the number of one of the slots, and no   *)
(* slot has the number of the dirty flag or of the clean one.               *)
LEMMA QueueSlot ==
  ASSUME TypeOK
  PROVE  /\ queue # {} => Cardinality(queue) \in Slots
         /\ 0 \notin Slots /\ Dirty \notin Slots /\ Slots \subseteq 1..254
         /\ Cardinality(queue) \in 0..MaxBlks
  <1>1. Cardinality(queue) \in Nat /\ (Cardinality(queue) = 0 <=> queue = {})
    <2>1. PICK b : b \in Block
      BY FailSafeAssumption
    <2> QED BY <2>1, QueueSize DEF TypeOK
  <1>2. Cardinality(queue) <= MaxBlks /\ MaxBlks \in 0..254
    BY FailSafeAssumption DEF TypeOK
  <1> QED BY <1>1, <1>2 DEF Slots, Dirty

(* The checkpoint that FDEV::sync writes is one a mount loads, and what it  *)
(* recovers is what the users see.                                          *)
LEMMA CheckpointComplete ==
  ASSUME TypeOK, IInv, AInv, pc = "devsync", queue # {},
         NEW n \in Nat, n = Cardinality(queue), NEW upto \in Nat,
         sb' = Front(n), cpdom' = queue, cpval' = qval, UNCHANGED disk,
         slot' = [Overwritten(n, upto) EXCEPT ![n] = Behind(n)]
  PROVE  /\ HasCheckpoint'
         /\ Recovered' = [blk |-> cache, meta |-> hdr.meta]
  <1>1. n \in Slots /\ n # Dirty
    BY QueueSlot
  <1>2. hdr \in Header /\ backup \in Header
    BY DEF TypeOK
  <1>3. backup.eof = hdr.eof /\ backup.chkseq = hdr.chkseq
    BY DEF AInv, EofSame, SeqSame, Up
  <1>4. /\ Front(n).flag = n /\ Front(n).eof = backup.eof
        /\ Front(n).chkseq = backup.chkseq
    BY <1>2 DEF Front, Header
  <1>5. /\ Behind(n).flag = n /\ Behind(n).eof = hdr.eof
        /\ Behind(n).chkseq = (hdr.chkseq + 1) % SeqMod /\ Behind(n).meta = hdr.meta
    BY <1>2 DEF Behind, Header
  <1>6. slot'[n] = Behind(n)
    BY <1>1 DEF Overwritten
  <1>7. HasCheckpoint'
    BY <1>1, <1>3, <1>4, <1>5, <1>6 DEF HasCheckpoint, Partial
  <1>8. cache = [b \in Block |-> IF b \in queue THEN qval[b] ELSE disk[b]]
    <2>1. mod = {} /\ Up
      BY DEF IInv, JobPhase, Up
    <2>2. \A b \in Block : cache[b] = IF b \in queue THEN qval[b] ELSE disk[b]
      BY <2>1 DEF IInv, Coherent
    <2> QED BY <2>2 DEF TypeOK
  <1>9. Recovered' = [blk |-> [b \in Block |-> IF b \in cpdom' THEN cpval'[b] ELSE disk'[b]],
                      meta |-> slot'[sb'.flag].meta]
    BY <1>1, <1>4, <1>7 DEF Recovered
  <1> QED BY <1>1, <1>4, <1>5, <1>6, <1>7, <1>8, <1>9

-----------------------------------------------------------------------------
(* AInv holds initially and is preserved by every step that KeepsBackup     *)
(* allows, which are all but those that leave an old superblock in buf.     *)
LEMMA InitAInv == Init => AInv
  BY DEF Init, AInv, EofSame, SeqSame, FlagKnown, Applying, CountQueued, Up

LEMMA AInvMount ==
  ASSUME TypeOK, MountPlain \/ MountCheckpoint
  PROVE  AInv'
  <1> USE DEF AInv, EofSame, SeqSame, FlagKnown, Applying, CountQueued, Up
  <1>1. CASE MountPlain
    BY <1>1 DEF MountPlain
  <1>2. CASE MountCheckpoint
    <2>1. /\ pc' = "wait" /\ backup' = sb /\ queue' = cpdom /\ sb' = sb
          /\ HasCheckpoint /\ UNCHANGED <<disk, sb, area>>
          /\ hdr' = [sb EXCEPT !.meta = slot[sb.flag].meta, !.chkseq = (@ + 1) % SeqMod]
      BY <1>2 DEF MountCheckpoint
    <2>2. HasCheckpoint'
      BY <2>1, RecoveredSame
    <2>3. hdr'.eof = backup'.eof /\ hdr'.flag = sb.flag
      BY <2>1 DEF TypeOK, Header
    <2>4. cpdom' = cpdom
      BY <2>1 DEF area
    <2> QED BY <2>1, <2>2, <2>3, <2>4
  <1> QED BY <1>1, <1>2

LEMMA AInvClient ==
  ASSUME TypeOK, AInv,
         \/ \E S \in SUBSET Block, m \in {hdr.meta, clock + 1} : Update(S, m)
         \/ \E b \in Block : Preallocate(b) \/ (Read(b) /\ queue' # {})
  PROVE  AInv'
  <1> USE DEF AInv, EofSame, SeqSame, FlagKnown, Applying, CountQueued, Up, Idle
  <1>1. ASSUME NEW S \in SUBSET Block, NEW m \in {hdr.meta, clock + 1}, Update(S, m)
        PROVE  AInv'
    <2>1. /\ pc = "idle" /\ pc' = "idle"
          /\ UNCHANGED <<backup, queue, qval, disk, sb, area>>
          /\ hdr'.flag = hdr.flag /\ hdr'.eof = hdr.eof /\ hdr'.chkseq = hdr.chkseq
      BY <1>1 DEF Update, TypeOK, Header
    <2>2. HasCheckpoint' <=> HasCheckpoint
      BY <2>1, RecoveredSame
    <2> QED BY <2>1, <2>2 DEF area
  <1>2. ASSUME NEW b \in Block, Preallocate(b) PROVE AInv'
    <2>1. CASE Cardinality(queue) < MaxBlks
      <3>1. /\ pc = "idle" /\ pc' = "idle" /\ disk[b] = 0
            /\ queue' = queue \cup {b}
            /\ qval'[b] = 0 /\ \A c \in Block \ {b} : qval'[c] = qval[c]
            /\ UNCHANGED <<backup, hdr, disk, sb, area>>
        BY <1>2, <2>1 DEF Preallocate, TypeOK
      <3>2. HasCheckpoint' <=> HasCheckpoint
        BY <3>1, RecoveredSame
      <3>3. \A c \in queue : qval'[c] = qval[c] \/ (c = b /\ qval'[c] = disk[c])
        BY <3>1 DEF TypeOK
      <3>4. Applying'
        BY <3>1, <3>2, <3>3 DEF area
      <3> QED BY <3>1, <3>4
    <2>2. CASE ~(Cardinality(queue) < MaxBlks)
      <3>1. /\ pc = "idle" /\ pc' = "idle" /\ UNCHANGED <<backup, queue>>
            /\ hdr' = [hdr EXCEPT !.flag = Dirty]
            /\ sb' = IF hdr.flag # Dirty THEN hdr' ELSE sb
        BY <1>2, <2>2 DEF Preallocate, MarkDirty
      <3>2. /\ hdr'.flag = Dirty /\ hdr'.eof = hdr.eof /\ hdr'.chkseq = hdr.chkseq
            /\ Dirty \notin Slots
        BY <3>1, QueueSlot DEF TypeOK, Header
      <3> QED BY <3>1, <3>2
    <2> QED BY <2>1, <2>2
  <1>3. ASSUME NEW b \in Block, Read(b), queue' # {} PROVE AInv'
    <2>1. /\ pc = "idle" /\ pc' = "idle" /\ UNCHANGED <<backup, hdr, qval, sb, area>>
      BY <1>3 DEF Read
    <2>2. PICK q \in queue : disk' = [disk EXCEPT ![q] = qval[q]] /\ queue' = queue \ {q}
      BY <1>3 DEF Read
    <2>3. HasCheckpoint' <=> HasCheckpoint
      BY <2>1 DEF HasCheckpoint, area
    <2>4. \A c \in queue' : c \in queue /\ disk'[c] = disk[c]
      BY <2>2 DEF TypeOK
    <2>5. Applying'
      BY <2>1, <2>3, <2>4 DEF area
    <2> QED BY <1>3, <2>1, <2>2, <2>5
  <1> QED BY <1>1, <1>2, <1>3

LEMMA AInvSync ==
  ASSUME ~Failing, TypeOK, IInv, AInv, StartFlush \/ StartUnmount \/ Sync
  PROVE  AInv'
  <1> USE DEF AInv, EofSame, SeqSame, FlagKnown, Applying, CountQueued, Up, Idle
  <1>0. ASSUME UNCHANGED <<disk, sb, area>>
        PROVE  (HasCheckpoint' <=> HasCheckpoint) /\ cpdom' = cpdom /\ sb' = sb /\ disk' = disk
    BY <1>0, RecoveredSame DEF area
  <1>1. CASE StartFull \/ StartFlush \/ StartUnmount \/ WaitSome \/ WriteDone
    <2>1. /\ UNCHANGED <<server, disk, sb, area>>
          /\ pc' \in {"sync", "wait", "devsync"}
          /\ pc' = "sync" => pc = "idle"
          /\ pc' = "wait" => pc = "sync"
          /\ pc' = "devsync" => pc = "write"
      BY <1>1 DEF StartFull, StartFlush, StartUnmount, WaitSome, WriteDone
    <2> QED BY <1>0, <2>1 DEF server
  <1>2. CASE WaitNothing
    <2>1. /\ pc = "sync" /\ pc' = "write" /\ queue = {} /\ cnt' = 0
          /\ UNCHANGED <<hdr, backup, queue, sb>>
      BY <1>2 DEF WaitNothing
    <2> QED BY <2>1, QueueSlot
  <1>3. CASE WaitDone
    <2>1. /\ pc = "wait" /\ pc' \in {"write", "idle"} /\ queue' = {} /\ cnt' = 0
          /\ backup' = hdr /\ UNCHANGED <<hdr, queue, sb>>
      BY <1>3 DEF WaitDone
    <2> QED BY <2>1, QueueSlot
  <1>3a. ~WaitFailed
    BY DEF WaitFailed, IInv, NoError
  <1>4. ASSUME NEW b \in Block, Apply(b) PROVE AInv'
    <2>1. /\ pc = "wait" /\ pc' = "wait" /\ b \in queue /\ queue' = queue \ {b}
          /\ disk'[b] = qval[b] /\ \A c \in Block \ {b} : disk'[c] = disk[c]
          /\ UNCHANGED <<backup, qval, cpdom, slot>>
      BY <1>4 DEF Apply, area, TypeOK
    <2>2. CASE hdr.flag = 0
      <3>1. hdr' = [hdr EXCEPT !.flag = Dirty] /\ sb' = hdr'
        BY <1>4, <2>2 DEF Apply, MarkDirty, Dirty
      <3>2. /\ hdr'.flag = Dirty /\ hdr'.eof = hdr.eof /\ hdr'.chkseq = hdr.chkseq
            /\ Dirty \notin Slots
        BY <3>1, QueueSlot DEF TypeOK, Header
      <3> QED BY <2>1, <3>1, <3>2
    <2>3. CASE hdr.flag # 0
      <3>1. UNCHANGED <<hdr, sb>>
        BY <1>4, <2>3 DEF Apply
      <3>2. HasCheckpoint' <=> HasCheckpoint
        BY <2>1, <3>1 DEF HasCheckpoint
      <3> QED BY <2>1, <3>1, <3>2 DEF TypeOK
    <2> QED BY <2>2, <2>3
  <1>5. ASSUME NEW b \in Block, WriteQueued(b) PROVE AInv'
    <2>1. /\ pc = "write" /\ pc' = "write" /\ b \in mod /\ queue' = queue \cup {b}
          /\ cnt' = cnt + 1 /\ UNCHANGED <<hdr, backup, sb>>
      BY <1>5 DEF WriteQueued
    <2>2. b \notin queue
      BY <2>1 DEF IInv, WriteFresh
    <2>3. Cardinality(queue') = Cardinality(queue) + 1 /\ Cardinality(queue) \in Nat
      BY <2>1, <2>2, QueueSize, FS_AddElement DEF TypeOK
    <2>4. CountQueued'
      BY <2>1, <2>3 DEF TypeOK
    <2> QED BY <2>1, <2>4
  <1>6. ASSUME NEW b \in Block, WriteInPlace(b) PROVE AInv'
    <2>1. /\ pc = "write" /\ pc' = "write" /\ UNCHANGED <<backup, queue>>
          /\ hdr' = [hdr EXCEPT !.flag = Dirty]
          /\ sb' = IF hdr.flag # Dirty THEN hdr' ELSE sb
      BY <1>6 DEF WriteInPlace, MarkDirty
    <2>2. /\ hdr'.flag = Dirty /\ hdr'.eof = hdr.eof /\ hdr'.chkseq = hdr.chkseq
      BY <2>1 DEF TypeOK, Header
    <2> QED BY <2>1, <2>2
  <1>7. CASE WriteLimit
    <2>1. /\ pc = "write" /\ job = "full" /\ cnt > Limit
          /\ pc' \in {"sync", "idle"}
          /\ UNCHANGED <<server, disk, sb, area>>
      BY <1>7, ReturnPhase DEF WriteLimit, OverLimit
    <2>2. hdr.flag \notin Slots
      <3>1. hdr.flag # Dirty => cnt <= MaxBlks
        BY <2>1, QueueSlot, FailSafeAssumption DEF TypeOK
      <3>2. MaxBlks > 0 => hdr.flag = Dirty
        BY <2>1, <3>1, FailSafeAssumption DEF Limit, TypeOK
      <3> QED BY <3>2, QueueSlot, FailSafeAssumption DEF Slots
    <2> QED BY <2>1, <2>2 DEF server
  <1>9. CASE SyncClean
    <2>1. /\ pc = "devsync" /\ queue = {} /\ pc' \in {"sync", "idle", "closed"}
          /\ UNCHANGED <<backup, queue>>
      BY <1>9, ReturnPhase DEF SyncClean
    <2>2. CASE hdr.flag # 0
      <3>1. hdr' = [hdr EXCEPT !.flag = 0] /\ sb' = hdr'
        BY <1>9, <2>2 DEF SyncClean
      <3>2. hdr'.flag = 0 /\ hdr'.eof = hdr.eof /\ hdr'.chkseq = hdr.chkseq
        BY <3>1 DEF TypeOK, Header
      <3> QED BY <2>1, <3>1, <3>2 DEF Dirty
    <2>3. CASE hdr.flag = 0
      <3>1. UNCHANGED <<hdr, sb>>
        BY <1>9, <2>3 DEF SyncClean
      <3> QED BY <2>1, <2>3, <3>1 DEF Dirty
    <2> QED BY <2>2, <2>3
  <1>10. CASE SyncCheckpoint
    <2> DEFINE n == Cardinality(queue)
    <2>1. /\ pc = "devsync" /\ queue # {} /\ pc' \in {"sync", "idle", "closed"}
          /\ UNCHANGED <<backup, queue, qval, disk>>
          /\ hdr' = Behind(n) /\ sb' = Front(n)
          /\ cpdom' = queue /\ cpval' = qval
          /\ slot' = [Overwritten(n, lastn) EXCEPT ![n] = Behind(n)]
      BY <1>10, ReturnPhase DEF SyncCheckpoint
    <2>2. n \in Nat /\ n \in Slots /\ lastn \in Nat
      BY <2>1, QueueSlot, FailSafeAssumption DEF TypeOK
    <2>3. HasCheckpoint'
      BY <2>1, <2>2, CheckpointComplete
    <2>4. hdr'.flag = n /\ hdr'.eof = hdr.eof /\ n # Dirty /\ sb'.flag = n
      BY <2>1, <2>2, QueueSlot DEF Behind, Front, TypeOK, Header
    <2> QED BY <2>1, <2>3, <2>4
  <1> QED BY NoFailure, <1>1, <1>2, <1>3, <1>3a, <1>4, <1>5, <1>6, <1>7, <1>9, <1>10 DEF Sync

LEMMA StepAInv ==
  ASSUME ~Failing
  PROVE  TypeOK /\ IInv /\ AInv /\ [Next]_vars /\ [KeepsBackup]_vars => AInv'
  <1> SUFFICES ASSUME TypeOK, IInv, AInv, [Next]_vars, [KeepsBackup]_vars PROVE AInv'
    OBVIOUS
  <1>1. CASE MountRefused \/ Crash \/ TornBlocks \/ TornPadding
    <2>1. pc' \in {"down", "closed", "broken"}
      BY <1>1 DEF MountRefused, Crash, TornBlocks, TornPadding, Die
    <2> QED BY <2>1 DEF AInv, EofSame, SeqSame, FlagKnown, Applying, CountQueued, Up
  <1>2. CASE UNCHANGED vars
    <2>1. HasCheckpoint' <=> HasCheckpoint
      BY <1>2, RecoveredSame DEF vars
    <2> QED BY <1>2, <2>1 DEF vars, server, area, AInv, EofSame, SeqSame, FlagKnown,
                              Applying, CountQueued, Up
  <1>3. CASE KeepsBackup
    BY <1>1, <1>2, <1>3, NoFailure, AInvMount, AInvClient, AInvSync DEF Next, KeepsBackup
  <1> QED BY <1>2, <1>3

-----------------------------------------------------------------------------
(* The mapping, and the steps of AtomicStore under it. *)
Seen == IF Up THEN [blk |-> cache, meta |-> hdr.meta] ELSE NoImage

StoreStep == [Store!Next]_Store!vars

LEMMA Mapped ==
  /\ (Up' <=> Up) /\ Seen' = Seen /\ Recovered' = Recovered => StoreStep
  /\ Up /\ Up' /\ Seen' \in Image /\ Recovered' = Recovered => StoreStep
  /\ Up /\ Up' /\ Seen' = Seen /\ Recovered' \in {Recovered, Seen, NoImage} => StoreStep
  /\ Up /\ ~Up' /\ Recovered' \in {Recovered, Seen} => StoreStep
  /\ ~Up /\ Up' /\ Recovered # NoImage /\ Seen' = Recovered /\ Recovered' = Recovered
       => StoreStep
  <1> USE DEF Seen, StoreStep, Store!vars, Store!Next
  <1>1. (Up' <=> Up) /\ Seen' = Seen /\ Recovered' = Recovered => StoreStep
    BY DEF Up
  <1>2. Up /\ Up' /\ Seen' \in Image /\ Recovered' = Recovered => StoreStep
    BY DEF Store!Update
  <1>3. Up /\ Up' /\ Seen' = Seen /\ Recovered' = Seen => StoreStep
    BY DEF Store!Commit, Up
  <1>4. Up /\ Up' /\ Seen' = Seen /\ Recovered' = NoImage => StoreStep
    BY DEF Store!Expose, Up
  <1>5. Up /\ ~Up' /\ Recovered' \in {Recovered, Seen} => StoreStep
    BY DEF Store!Stop
  <1>6. /\ ~Up /\ Up' /\ Recovered # NoImage /\ Seen' = Recovered /\ Recovered' = Recovered
        => StoreStep
    BY DEF Store!Mount
  <1> HIDE DEF Seen, StoreStep, Store!vars, Store!Next
  <1> QED BY <1>1, <1>2, <1>3, <1>4, <1>5, <1>6 DEF Up

(* A mounted filesystem, and one that a mount would not refuse, is an image. *)
LEMMA Images ==
  ASSUME NEW d \in [Block -> Nat], NEW m \in Nat
  PROVE  /\ [blk |-> d, meta |-> m] \in Image
         /\ [blk |-> d, meta |-> m] # NoImage
  <1>1. d # <<>>
    <2>1. DOMAIN d = Block /\ Block # {}
      BY FailSafeAssumption
    <2>2. DOMAIN <<>> = {}
      OBVIOUS
    <2> QED BY <2>1, <2>2
  <1>2. [blk |-> d, meta |-> m].blk # NoImage.blk
    BY <1>1 DEF NoImage
  <1> QED BY <1>2 DEF Image

LEMMA InitStore == Init => Store!Init
  <1> SUFFICES ASSUME Init PROVE Store!Init
    OBVIOUS
  <1>1. ~Up /\ sb = Zeroed /\ disk = [b \in Block |-> 0]
    BY DEF Init, Up
  <1>2. ~HasCheckpoint /\ sb.flag # Dirty /\ sb.meta = 0
    BY <1>1 DEF HasCheckpoint, Zeroed, Slots, Dirty
  <1>3. Recovered = [blk |-> disk, meta |-> 0]
    BY <1>2 DEF Recovered
  <1>4. disk \in [Block -> Nat]
    BY <1>1
  <1> QED BY <1>1, <1>3, <1>4, Images DEF Store!Init

(* A mount brings back what would be recovered, or is refused. *)
LEMMA StoreMounts ==
  ASSUME TypeOK, MountRefused \/ MountPlain \/ MountCheckpoint
  PROVE  StoreStep
  <1>1. CASE MountRefused
    <2>1. ~Up /\ ~Up' /\ UNCHANGED <<disk, sb, area>>
      BY <1>1 DEF MountRefused, Up
    <2> QED BY <2>1, RecoveredSame, Mapped DEF Seen
  <1>2. CASE MountPlain
    <2>1. /\ ~Up /\ Up' /\ UNCHANGED <<disk, sb, area>>
          /\ Seen' = [blk |-> disk, meta |-> sb.meta]
      BY <1>2 DEF MountPlain, Up, Seen
    <2>2. Recovered = [blk |-> disk, meta |-> sb.meta]
      BY <1>2 DEF MountPlain, Recovered
    <2> QED BY <2>1, <2>2, RecoveredSame, Images, Mapped DEF TypeOK, Header
  <1>3. CASE MountCheckpoint
    <2> DEFINE blocks == [b \in Block |-> IF b \in cpdom THEN cpval[b] ELSE disk[b]]
    <2>1. /\ ~Up /\ Up' /\ UNCHANGED <<disk, sb, area>> /\ HasCheckpoint
          /\ hdr'.meta = slot[sb.flag].meta
          /\ Seen' = [blk |-> blocks, meta |-> slot[sb.flag].meta]
      BY <1>3 DEF MountCheckpoint, Up, Seen, TypeOK, Header
    <2>2. Recovered = [blk |-> blocks, meta |-> slot[sb.flag].meta]
      BY <2>1, QueueSlot DEF HasCheckpoint, Recovered
    <2>3. blocks \in [Block -> Nat] /\ slot[sb.flag].meta \in Nat
      BY <2>1 DEF TypeOK, HasCheckpoint, Header
    <2> HIDE DEF blocks
    <2> QED BY <2>1, <2>2, <2>3, RecoveredSame, Images, Mapped
  <1> QED BY <1>1, <1>2, <1>3

(* A queued block goes in place under a checkpoint, or under the dirty flag. *)
LEMMA StorePutInPlace ==
  ASSUME TypeOK, AInv, pc \in {"idle", "wait"}, pc' = pc, hdr.flag # 0, NEW b \in queue,
         disk' = [disk EXCEPT ![b] = qval[b]], UNCHANGED <<cache, hdr, sb, area>>
  PROVE  StoreStep
  <1>0. Up /\ Up'
    BY DEF Up
  <1>1. CASE hdr.flag = Dirty
    <2>1. sb'.flag = Dirty /\ sb.flag = Dirty
      BY <1>0, <1>1 DEF AInv, FlagKnown
    <2> QED BY <1>0, <2>1, RecoveredDirty, Mapped DEF Seen
  <1>2. CASE hdr.flag # Dirty
    <2>1. hdr.flag \in Slots
      BY <1>2 DEF TypeOK, Header, Slots
    <2>2. (qval[b] = disk[b]) \/ (HasCheckpoint /\ b \in cpdom)
      BY <2>1 DEF AInv, Applying
    <2>3. CASE qval[b] = disk[b]
      <3>1. disk' = disk
        BY <2>3 DEF TypeOK
      <3> QED BY <1>0, <3>1, RecoveredSame, Mapped DEF Seen
    <2>4. CASE HasCheckpoint /\ b \in cpdom
      <3>1. UNCHANGED <<cpdom, cpval, slot, sb>>
        BY DEF area
      <3>2. [c \in Block |-> IF c \in cpdom THEN cpval[c] ELSE disk[c]]
              = [c \in Block |-> IF c \in cpdom THEN cpval[c] ELSE disk'[c]]
        BY <2>4 DEF TypeOK
      <3>3. sb.flag # Dirty /\ HasCheckpoint'
        BY <2>4, <3>1, QueueSlot DEF HasCheckpoint
      <3>4. Recovered = [blk |-> [c \in Block |-> IF c \in cpdom THEN cpval[c] ELSE disk[c]],
                         meta |-> slot[sb.flag].meta]
        BY <2>4, <3>3 DEF Recovered
      <3>5. Recovered' = [blk |-> [c \in Block |-> IF c \in cpdom THEN cpval[c] ELSE disk'[c]],
                          meta |-> slot[sb.flag].meta]
        BY <3>1, <3>3 DEF Recovered
      <3> QED BY <1>0, <3>2, <3>4, <3>5, Mapped DEF Seen
    <2> QED BY <2>2, <2>3, <2>4
  <1> QED BY <1>1, <1>2

(* Client operations change what users see and nothing durable, except that *)
(* reserving space with the checkpoint full goes in place, and a read may   *)
(* put one queued block there.                                              *)
LEMMA StoreClients ==
  ASSUME TypeOK, IInv, AInv,
         \/ \E S \in SUBSET Block, m \in {hdr.meta, clock + 1} : Update(S, m)
         \/ \E b \in Block : Preallocate(b) \/ Read(b)
  PROVE  StoreStep
  <1>1. ASSUME NEW S \in SUBSET Block, NEW m \in {hdr.meta, clock + 1}, Update(S, m)
        PROVE  StoreStep
    <2>1. /\ Up /\ Up' /\ UNCHANGED <<disk, sb, area>>
          /\ Seen' = [blk |-> cache', meta |-> m]
          /\ cache' \in [Block -> Nat] /\ m \in Nat
      BY <1>1 DEF Update, Up, Idle, Seen, TypeOK, Header
    <2> QED BY <2>1, RecoveredSame, Images, Mapped
  <1>2. ASSUME NEW b \in Block, Preallocate(b) PROVE StoreStep
    <2>1. Up /\ Up' /\ UNCHANGED <<pc, cache, disk, area>>
      BY <1>2 DEF Preallocate, Up, Idle
    <2>2. CASE Cardinality(queue) < MaxBlks
      <3>1. UNCHANGED <<hdr, sb>>
        BY <1>2, <2>2 DEF Preallocate
      <3> QED BY <2>1, <3>1, RecoveredSame, Mapped DEF Seen
    <2>3. CASE ~(Cardinality(queue) < MaxBlks)
      <3>1. hdr' = [hdr EXCEPT !.flag = Dirty] /\ sb' = IF hdr.flag # Dirty THEN hdr' ELSE sb
        BY <1>2, <2>3 DEF Preallocate, MarkDirty
      <3>2. sb'.flag = Dirty /\ hdr'.meta = hdr.meta
        BY <2>1, <3>1 DEF TypeOK, Header, AInv, FlagKnown
      <3> QED BY <2>1, <3>2, RecoveredDirty, Mapped DEF Seen
    <2> QED BY <2>2, <2>3
  <1>3. ASSUME NEW b \in Block, Read(b) PROVE StoreStep
    <2>1. PICK q \in queue : disk' = [disk EXCEPT ![q] = qval[q]]
      BY <1>3 DEF Read
    <2>2. pc = "idle" /\ pc' = pc /\ hdr.flag # 0 /\ UNCHANGED <<cache, hdr, sb, area>>
      BY <1>3 DEF Read, Idle
    <2> QED BY <2>1, <2>2, StorePutInPlace
  <1> QED BY <1>1, <1>2, <1>3

(* A sync commits when it writes a checkpoint or marks the superblock       *)
(* clean, exposes when it goes in place, and otherwise only does what a     *)
(* mount would do.                                                          *)
LEMMA StoreSyncs ==
  ASSUME ~Failing, TypeOK, IInv, AInv, StartFlush \/ StartUnmount \/ Sync
  PROVE  StoreStep
  <1>1. CASE StartFull \/ StartFlush \/ StartUnmount \/ WaitSome \/ WriteDone \/ WaitNothing \/ WaitDone
    <2>1. Up /\ Up' /\ UNCHANGED <<cache, hdr, disk, sb, area>>
      BY <1>1 DEF StartFull, StartFlush, StartUnmount, WaitSome, WriteDone, WaitNothing,
                  WaitDone, Up, Idle, server
    <2> QED BY <2>1, RecoveredSame, Mapped DEF Seen
  <1>2. ASSUME NEW b \in Block, WriteQueued(b) PROVE StoreStep
    <2>1. Up /\ Up' /\ UNCHANGED <<cache, hdr, disk, sb, area>>
      BY <1>2 DEF WriteQueued, Up
    <2> QED BY <2>1, RecoveredSame, Mapped DEF Seen
  <1>3. ~WaitFailed
    BY DEF WaitFailed, IInv, NoError
  <1>4. ASSUME NEW b \in Block, Apply(b) PROVE StoreStep
    <2>1. /\ pc = "wait" /\ b \in queue /\ Up /\ Up' /\ UNCHANGED <<cache, area>>
          /\ disk' = [disk EXCEPT ![b] = qval[b]]
      BY <1>4 DEF Apply, Up
    <2>2. CASE hdr.flag = 0
      <3>1. hdr' = [hdr EXCEPT !.flag = Dirty] /\ sb' = hdr'
        BY <1>4, <2>2 DEF Apply, MarkDirty, Dirty
      <3>2. sb'.flag = Dirty /\ hdr'.meta = hdr.meta
        BY <3>1 DEF TypeOK, Header
      <3> QED BY <2>1, <3>2, RecoveredDirty, Mapped DEF Seen
    <2>3. CASE hdr.flag # 0
      <3>1. UNCHANGED <<hdr, sb, area>> /\ pc' = pc
        BY <1>4, <2>3 DEF Apply
      <3> QED BY <2>1, <2>3, <3>1, StorePutInPlace
    <2> QED BY <2>2, <2>3
  <1>5. ASSUME NEW b \in Block, WriteInPlace(b) PROVE StoreStep
    <2>1. /\ Up /\ Up' /\ UNCHANGED cache
          /\ hdr' = [hdr EXCEPT !.flag = Dirty]
          /\ sb' = IF hdr.flag # Dirty THEN hdr' ELSE sb
      BY <1>5 DEF WriteInPlace, MarkDirty, Up
    <2>2. sb'.flag = Dirty /\ hdr'.meta = hdr.meta
      BY <2>1 DEF TypeOK, Header, AInv, FlagKnown
    <2> QED BY <2>1, <2>2, RecoveredDirty, Mapped DEF Seen
  <1>6. CASE WriteLimit
    <2>1. Up /\ Up' /\ UNCHANGED <<cache, hdr, disk, sb, area>>
      BY <1>6, ReturnPhase DEF WriteLimit, OverLimit, server, Up
    <2> QED BY <2>1, RecoveredSame, Mapped DEF Seen
  <1>7. CASE SyncClean
    <2>1. /\ pc = "devsync" /\ queue = {} /\ mod = {} /\ Up /\ UNCHANGED <<cache, disk, area>>
      BY <1>7 DEF SyncClean, Up, IInv, JobPhase
    <2>2. disk = cache
      BY <2>1 DEF IInv, Coherent, TypeOK
    <2>3. CASE hdr.flag # 0
      <3>1. hdr' = [hdr EXCEPT !.flag = 0] /\ sb' = hdr'
        BY <1>7, <2>3 DEF SyncClean
      <3>2. sb'.flag = 0 /\ hdr'.meta = hdr.meta /\ sb'.meta = hdr.meta
        BY <3>1 DEF TypeOK, Header
      <3>3. Recovered' = [blk |-> disk, meta |-> hdr.meta]
        BY <2>1, <3>2, QueueSlot, RecoveredPlain DEF HasCheckpoint, Dirty
      <3> QED BY <2>1, <2>2, <3>2, <3>3, Mapped DEF Seen
    <2>4. CASE hdr.flag = 0
      <3>1. UNCHANGED <<hdr, sb>>
        BY <1>7, <2>4 DEF SyncClean
      <3> QED BY <2>1, <3>1, RecoveredSame, Mapped DEF Seen
    <2> QED BY <2>3, <2>4
  <1>8. CASE SyncCheckpoint
    <2> DEFINE n == Cardinality(queue)
    <2>1. /\ pc = "devsync" /\ queue # {} /\ Up
          /\ UNCHANGED <<cache, disk>>
          /\ hdr' = Behind(n) /\ sb' = Front(n)
          /\ cpdom' = queue /\ cpval' = qval
          /\ slot' = [Overwritten(n, lastn) EXCEPT ![n] = Behind(n)]
      BY <1>8 DEF SyncCheckpoint, Up
    <2>2. n \in Nat /\ lastn \in Nat
      BY QueueSlot, FailSafeAssumption DEF TypeOK
    <2>3. Recovered' = Seen
      BY <2>1, <2>2, CheckpointComplete DEF Seen
    <2>4. hdr'.meta = hdr.meta
      BY <2>1 DEF Behind, TypeOK, Header
    <2> QED BY <2>1, <2>3, <2>4, Mapped DEF Seen
  <1> QED BY NoFailure, <1>1, <1>2, <1>3, <1>4, <1>5, <1>6, <1>7, <1>8 DEF Sync

LEMMA StoreCrash ==
  ASSUME Crash
  PROVE  StoreStep
  <1>1. Up /\ ~Up' /\ UNCHANGED <<disk, sb, area>>
    BY DEF Crash, Die, Up
  <1> QED BY <1>1, RecoveredSame, Mapped

LEMMA StoreIdle ==
  ASSUME UNCHANGED vars
  PROVE  StoreStep
  <1>1. (Up' <=> Up) /\ Seen' = Seen /\ UNCHANGED <<disk, sb, area>>
    BY DEF vars, server, Up, Seen
  <1> QED BY <1>1, RecoveredSame, Mapped

(* A checkpoint cut short in the zeros behind it is there. *)
LEMMA StoreTornPadding ==
  ASSUME TypeOK, IInv, AInv, TornPadding
  PROVE  StoreStep
  <1> DEFINE n == Cardinality(queue)
  <1>1. /\ Up /\ ~Up' /\ pc = "devsync" /\ queue # {} /\ sb' = Front(n) /\ UNCHANGED disk
        /\ cpdom' = queue /\ cpval' = qval
        /\ slot' = [Overwritten(n, 0) EXCEPT ![n] = Behind(n)]
    BY DEF TornPadding, Die, Up
  <1>2. n \in Nat
    BY QueueSlot
  <1>3. Recovered' = Seen
    BY <1>1, <1>2, CheckpointComplete DEF Seen
  <1> QED BY <1>1, <1>3, Mapped

LEMMA StepStore ==
  ASSUME ~Failing
  PROVE  /\ TypeOK /\ IInv /\ AInv
         /\ [Next]_vars /\ [KeepsBackup]_vars /\ ~TornBlocks
         => StoreStep
  <1> SUFFICES ASSUME TypeOK, IInv, AInv, [Next]_vars, [KeepsBackup]_vars, ~TornBlocks
               PROVE  StoreStep
    OBVIOUS
  <1>1. CASE UNCHANGED vars
    BY <1>1, StoreIdle
  <1>2. CASE Next /\ KeepsBackup
    <2>1. ~ExtentFull
      BY <1>2 DEF KeepsBackup
    <2> QED BY <1>2, <2>1, NoFailure, StoreMounts, StoreClients, StoreSyncs, StoreCrash,
               StoreTornPadding DEF Next
  <1> QED BY <1>1, <1>2

-----------------------------------------------------------------------------
(* A sync that does not fit its checkpoint goes on in place, with the       *)
(* superblock marked dirty (FDEV::write): the filesystem still recovers to  *)
(* a moment its users saw, or is refused.  This holds for every size of the *)
(* checkpoint, none included, with flush() running between operations,      *)
(* blocks read back, space reserved ahead and a checkpoint cut short in the *)
(* zeros behind it, as long as no write fails, no read puts the last queued *)
(* block in place, the extent is not found full (KeepsBackup), and no       *)
(* checkpoint is cut short before its end.                                  *)
THEOREM OverflowIsAtomic ==
  ASSUME ~Failing
  PROVE  Spec /\ [][KeepsBackup /\ ~TornBlocks]_vars => StoreSpec
  <1> DEFINE I == TypeOK /\ IInv /\ AInv
             K == KeepsBackup /\ ~TornBlocks
  <1>1. Init => I
    BY InitTypeOK, InitIInv, InitAInv
  <1>2. I /\ [Next]_vars /\ [K]_vars => I'
    BY StepTypeOK, StepIInv, StepAInv
  <1>3. I /\ [Next]_vars /\ [K]_vars => StoreStep
    <2> SUFFICES ASSUME I, [Next]_vars, [K]_vars PROVE StoreStep
      OBVIOUS
    <2>1. CASE UNCHANGED vars
      BY <2>1, StoreIdle
    <2>2. CASE K
      BY <2>2, StepStore
    <2> QED BY <2>1, <2>2
  <1> HIDE DEF I, K
  <1>4. Spec /\ [][K]_vars => []I
    BY <1>1, <1>2, PTL DEF Spec
  <1>5. Spec /\ [][K]_vars => Store!Init /\ [][Store!Next]_Store!vars
    BY <1>3, <1>4, InitStore, PTL DEF Spec, StoreStep
  <1> QED BY <1>5 DEF K, StoreSpec, Store!Spec

-----------------------------------------------------------------------------
(* Where checkpoints may be cut short before their end too.                 *)

(* A complete checkpoint is on disk and its blocks are being written in     *)
(* place: those done are as the checkpoint has them, those to be done are   *)
(* in it.                                                                   *)
Draining == (pc \in {"idle", "sync"} /\ queue # {}) \/ pc = "wait"

Drains ==
  Draining /\ sb.flag # Dirty =>
    (/\ HasCheckpoint /\ hdr.flag \in Slots
     /\ hdr.meta = slot[sb.flag].meta
     /\ queue \subseteq cpdom
     /\ \A b \in queue : cpval[b] = qval[b]
     /\ \A b \in cpdom \ queue : disk[b] = cpval[b])

(* Otherwise what a mount recovers is in place, and goes with the backup    *)
(* superblock; the current one is newer only while something is modified or *)
(* queued.  Without a checkpoint area there is no backup to keep.           *)
BackupInPlace ==
  Up /\ ~Draining /\ sb.flag # Dirty /\ MaxBlks > 0 =>
    Recovered = [blk |-> disk, meta |-> backup.meta]

MetaSame ==
  Up /\ mod = {} /\ queue = {} /\ pc # "wait" /\ MaxBlks > 0 => hdr.meta = backup.meta

(* The sequence number the next checkpoint takes for its front, and how far *)
(* behind it those left in the checkpoint area can be: a header that an     *)
(* earlier checkpoint left behind never looks like the one that follows a   *)
(* torn write, unless as many crashes as there are numbers went by.         *)
NextSeq == IF HasCheckpoint THEN (sb.chkseq + 1) % SeqMod ELSE sb.chkseq

Behindness(x, y) == IF x <= y THEN y - x ELSE y - x + SeqMod

Stale ==
  \A i \in Slots : slot[i].flag = 0 \/ Behindness(slot[i].chkseq, NextSeq) <= crashes

Sequenced ==
  /\ Up => hdr.chkseq = NextSeq
  /\ Up => \A i \in Slots : i > lastn => slot[i].flag = 0
  /\ Stale

WInv == Drains /\ BackupInPlace /\ MetaSame /\ Sequenced

LEMMA InitWInv == Init => WInv
  <1> SUFFICES ASSUME Init PROVE WInv
    OBVIOUS
  <1>1. /\ pc = "closed" /\ queue = {} /\ sb = Zeroed /\ slot = [i \in Slots |-> Zeroed]
    BY DEF Init
  <1> QED BY <1>1 DEF Zeroed, Up, WInv, Draining, Drains, BackupInPlace, MetaSame, Sequenced, Stale

(* Where the checkpoint on disk and the number of crashes stay, so do the   *)
(* sequence numbers.                                                        *)
LEMMA SeqSteady ==
  ASSUME UNCHANGED <<sb, area>>
  PROVE  /\ NextSeq' = NextSeq /\ (HasCheckpoint' <=> HasCheckpoint)
         /\ crashes' = crashes /\ Stale => Stale'
  <1>1. HasCheckpoint' <=> HasCheckpoint
    BY DEF HasCheckpoint, area
  <1>2. NextSeq' = NextSeq
    BY <1>1 DEF NextSeq
  <1> QED BY <1>1, <1>2 DEF Stale, area

(* The superblock is marked dirty: nothing can be recovered, and there is   *)
(* no checkpoint to count from.                                             *)
LEMMA SeqDirty ==
  ASSUME TypeOK, WInv, Up, hdr' = [hdr EXCEPT !.flag = Dirty], sb' = hdr',
         UNCHANGED <<area, crashes>>
  PROVE  /\ sb'.flag = Dirty /\ NextSeq' = NextSeq /\ hdr'.chkseq = NextSeq'
         /\ Stale'
  <1>1. sb'.flag = Dirty /\ hdr'.chkseq = hdr.chkseq /\ sb'.chkseq = hdr.chkseq
    BY DEF TypeOK, Header
  <1>2. ~HasCheckpoint'
    BY <1>1, QueueSlot DEF HasCheckpoint
  <1>3. NextSeq' = NextSeq
    BY <1>1, <1>2 DEF NextSeq, WInv, Sequenced
  <1> QED BY <1>1, <1>3 DEF WInv, Sequenced, Stale, area

LEMMA WMount ==
  ASSUME TypeOK, WInv, MountPlain \/ MountCheckpoint
  PROVE  WInv'
  <1> USE DEF WInv, Up
  <1>0. /\ UNCHANGED <<disk, sb, area, bounds>> /\ crashes' = crashes
        /\ cpdom' = cpdom /\ cpval' = cpval /\ slot' = slot
        /\ lastn' = MaxBlks /\ mod' = {}
    BY DEF MountPlain, MountCheckpoint, bounds, area
  <1>1. /\ NextSeq' = NextSeq /\ Stale' /\ (HasCheckpoint' <=> HasCheckpoint)
        /\ Recovered' = Recovered
    BY <1>0, SeqSteady, RecoveredSame DEF Sequenced
  <1>2. \A i \in Slots : ~(i > lastn')
    BY <1>0, FailSafeAssumption DEF Slots
  <1>3. CASE MountPlain
    <2>1. /\ pc' = "idle" /\ hdr' = sb /\ backup' = sb /\ queue' = {} /\ ~HasCheckpoint
          /\ sb.flag # Dirty
      BY <1>3 DEF MountPlain
    <2>2. Recovered = [blk |-> disk, meta |-> sb.meta]
      BY <2>1 DEF Recovered
    <2>3. BackupInPlace'
      BY <1>0, <1>1, <2>1, <2>2 DEF BackupInPlace
    <2>4. NextSeq = sb.chkseq
      BY <2>1 DEF NextSeq
    <2>5. Sequenced'
      BY <1>1, <1>2, <2>1, <2>4 DEF Sequenced
    <2> QED BY <2>1, <2>3, <2>5 DEF Draining, Drains, MetaSame
  <1>4. CASE MountCheckpoint
    <2>1. /\ pc' = "wait" /\ HasCheckpoint
          /\ hdr' = [sb EXCEPT !.meta = slot[sb.flag].meta, !.chkseq = (@ + 1) % SeqMod]
          /\ queue' = cpdom /\ qval' = cpval
      BY <1>4 DEF MountCheckpoint
    <2>2. /\ hdr'.meta = slot[sb.flag].meta /\ hdr'.flag = sb.flag
          /\ hdr'.chkseq = (sb.chkseq + 1) % SeqMod /\ sb.flag \in Slots
      BY <2>1 DEF TypeOK, Header, HasCheckpoint
    <2>3. Drains'
      BY <1>0, <1>1, <2>1, <2>2 DEF Drains
    <2>4. NextSeq = (sb.chkseq + 1) % SeqMod
      BY <2>1 DEF NextSeq
    <2>5. Sequenced'
      BY <1>1, <1>2, <2>2, <2>4 DEF Sequenced
    <2> QED BY <2>1, <2>3, <2>5 DEF Draining, BackupInPlace, MetaSame
  <1> QED BY <1>3, <1>4

LEMMA WUpdate ==
  ASSUME TypeOK, WInv, Orderly,
         NEW S \in SUBSET Block, NEW m \in {hdr.meta, clock + 1}, Update(S, m)
  PROVE  WInv'
  <1> USE DEF WInv, Up
  <1>1. /\ pc = "idle" /\ pc' = "idle" /\ S # {}
        /\ mod' = mod \cup S
        /\ UNCHANGED <<backup, queue, qval, lastn, disk, sb, area, crashes>>
    BY DEF Update, Idle
  <1>2. hdr'.flag = hdr.flag /\ hdr'.chkseq = hdr.chkseq
    BY DEF Update, TypeOK, Header
  <1>3. queue # {} => hdr'.meta = hdr.meta
    BY <1>1 DEF Orderly, Idle
  <1>4. /\ NextSeq' = NextSeq /\ Stale' /\ Recovered' = Recovered
        /\ (HasCheckpoint' <=> HasCheckpoint)
        /\ cpdom' = cpdom /\ cpval' = cpval /\ slot' = slot
    BY <1>1, SeqSteady, RecoveredSame DEF Sequenced, area
  <1>5. mod' # {}
    BY <1>1
  <1>6. Drains'
    BY <1>1, <1>2, <1>3, <1>4 DEF Draining, Drains
  <1>7. BackupInPlace' /\ MetaSame'
    BY <1>1, <1>4, <1>5 DEF Draining, BackupInPlace, MetaSame
  <1>8. Sequenced'
    BY <1>1, <1>2, <1>4 DEF Sequenced
  <1> QED BY <1>6, <1>7, <1>8

(* The steps of a sync that leave the disk alone. *)
LEMMA WPool ==
  ASSUME TypeOK, IInv, WInv,
         StartFull \/ StartFlush \/ StartUnmount \/ WaitSome \/ WriteDone \/ WaitNothing \/ WaitDone
           \/ (\E b \in Block : WriteQueued(b))
  PROVE  WInv'
  <1> USE DEF WInv, Up
  <1>0. UNCHANGED <<hdr, lastn, disk, sb, area, crashes>>
    BY DEF StartFull, StartFlush, StartUnmount, WaitSome, WriteDone, WaitNothing, WaitDone,
           WriteQueued, server, bounds
  <1>1. /\ NextSeq' = NextSeq /\ Stale' /\ (HasCheckpoint' <=> HasCheckpoint)
        /\ Recovered' = Recovered
        /\ hdr' = hdr /\ lastn' = lastn /\ disk' = disk /\ sb' = sb
        /\ cpdom' = cpdom /\ cpval' = cpval /\ slot' = slot
    BY <1>0, SeqSteady, RecoveredSame DEF Sequenced, area
  <1>2. pc \in {"idle", "sync", "wait", "write", "devsync"} /\ Sequenced'
    BY <1>1 DEF StartFull, StartFlush, StartUnmount, WaitSome, WriteDone, WaitNothing, WaitDone,
                WriteQueued, Idle, Sequenced
  <1>3. CASE StartFull \/ StartFlush \/ StartUnmount \/ WaitSome \/ WriteDone
    <2>1. /\ UNCHANGED <<mod, backup, queue, qval>>
          /\ \/ pc = "idle" /\ pc' = "sync"
             \/ pc = "sync" /\ pc' = "wait" /\ queue # {}
             \/ pc = "write" /\ pc' = "devsync"
      BY <1>3 DEF StartFull, StartFlush, StartUnmount, WaitSome, WriteDone, server, Idle
    <2>2. MetaSame'
      BY <1>1, <2>1 DEF MetaSame
    <2>3. Draining' <=> Draining
      BY <2>1 DEF Draining
    <2>4. Drains' /\ BackupInPlace'
      BY <1>1, <2>1, <2>3 DEF Drains, BackupInPlace
    <2> QED BY <1>2, <2>2, <2>4
  <1>4. CASE WaitNothing
    <2>1. /\ pc = "sync" /\ pc' = "write" /\ queue = {}
          /\ UNCHANGED <<mod, backup, queue>>
      BY <1>4 DEF WaitNothing
    <2> QED BY <1>1, <1>2, <2>1 DEF Draining, Drains, BackupInPlace, MetaSame
  <1>5. CASE WaitDone
    <2>1. /\ pc = "wait" /\ queue = {} /\ backup' = hdr
          /\ UNCHANGED <<mod, queue>> /\ pc' \in {"idle", "write"}
      BY <1>5 DEF WaitDone
    <2>2. ~Draining'
      BY <2>1 DEF Draining
    <2>3. ASSUME sb.flag # Dirty PROVE Recovered = [blk |-> disk, meta |-> hdr.meta]
      <3>1. /\ HasCheckpoint /\ sb.flag \in Slots /\ hdr.meta = slot[sb.flag].meta
            /\ \A b \in cpdom : disk[b] = cpval[b]
        BY <2>1, <2>3 DEF Draining, Drains, HasCheckpoint
      <3>2. disk = [b \in Block |-> IF b \in cpdom THEN cpval[b] ELSE disk[b]]
        BY <3>1 DEF TypeOK
      <3> QED BY <2>3, <3>1, <3>2 DEF Recovered
    <2>4. BackupInPlace' /\ MetaSame' /\ Drains'
      BY <1>1, <2>1, <2>2, <2>3 DEF BackupInPlace, MetaSame, Drains
    <2> QED BY <1>2, <2>4
  <1>6. ASSUME NEW b \in Block, WriteQueued(b) PROVE WInv'
    <2>1. /\ pc = "write" /\ pc' = "write" /\ queue' = queue \cup {b} /\ backup' = backup
      BY <1>6 DEF WriteQueued
    <2> QED BY <1>1, <1>2, <2>1 DEF Draining, Drains, BackupInPlace, MetaSame
  <1> QED BY <1>3, <1>4, <1>5, <1>6

(* A block of the checkpoint goes in place: by wait(), or by a read that    *)
(* leaves others queued.                                                    *)
LEMMA WPutInPlace ==
  ASSUME TypeOK, AInv, WInv, NEW b \in queue, pc \in {"idle", "wait"}, pc' = pc,
         pc = "idle" => queue' # {},
         queue' = queue \ {b}, disk' = [disk EXCEPT ![b] = qval[b]],
         sb.flag # Dirty => UNCHANGED hdr,
         UNCHANGED <<sb, area, backup, qval, lastn, mod, crashes>>,
         hdr'.chkseq = hdr.chkseq
  PROVE  WInv'
  <1> USE DEF WInv, Up
  <1>1. /\ (HasCheckpoint' <=> HasCheckpoint) /\ NextSeq' = NextSeq /\ Stale'
        /\ cpdom' = cpdom /\ cpval' = cpval /\ slot' = slot
    BY SeqSteady DEF Sequenced, area
  <1>2. Sequenced'
    BY <1>1 DEF Sequenced
  <1>3. Draining /\ Draining'
    BY DEF Draining
  <1>4. Drains'
    <2> SUFFICES ASSUME sb.flag # Dirty PROVE Drains'
      BY DEF Drains
    <2>1. disk'[b] = cpval[b] /\ \A c \in Block \ {b} : disk'[c] = disk[c]
      BY <1>3 DEF Drains, TypeOK
    <2> QED BY <1>1, <1>3, <2>1 DEF Drains, TypeOK
  <1> QED BY <1>2, <1>3, <1>4 DEF BackupInPlace, MetaSame

LEMMA WApply ==
  ASSUME TypeOK, AInv, WInv, NEW b \in Block, Apply(b)
  PROVE  WInv'
  <1>1. /\ pc = "wait" /\ pc' = pc /\ b \in queue /\ queue' = queue \ {b}
        /\ disk' = [disk EXCEPT ![b] = qval[b]]
        /\ UNCHANGED <<area, backup, qval, lastn, mod, crashes>>
    BY DEF Apply, bounds
  <1>2. hdr.flag # 0
    <2>1. sb.flag = Dirty \/ hdr.flag \in Slots
      BY <1>1 DEF WInv, Drains, Draining
    <2> QED BY <1>1, <2>1, QueueSlot DEF AInv, FlagKnown, Up, Dirty
  <1>3. UNCHANGED <<hdr, sb>>
    BY <1>2 DEF Apply
  <1> QED BY <1>1, <1>3, WPutInPlace

LEMMA WRead ==
  ASSUME TypeOK, AInv, WInv, NEW b \in Block, Read(b), queue' # {}
  PROVE  WInv'
  <1>1. PICK q \in queue : disk' = [disk EXCEPT ![q] = qval[q]] /\ queue' = queue \ {q}
    BY DEF Read
  <1>2. pc = "idle" /\ pc' = pc /\ UNCHANGED <<hdr, sb, area, backup, qval, lastn, mod, crashes>>
    BY DEF Read, Idle, bounds
  <1> QED BY <1>1, <1>2, WPutInPlace

(* The checkpoint is full: the superblock is dirty from here on, and the    *)
(* limit on what one sync writes is exceeded only then.                     *)
LEMMA WInPlace ==
  ASSUME TypeOK, AInv, WInv, NEW b \in Block, WriteInPlace(b)
  PROVE  WInv'
  <1> USE DEF WInv, Up
  <1>1. /\ pc = "write" /\ pc' = "write" /\ queue' = queue /\ Cardinality(queue) >= MaxBlks
        /\ UNCHANGED <<area, backup, lastn, crashes>> /\ Up
        /\ hdr' = [hdr EXCEPT !.flag = Dirty]
        /\ sb' = IF hdr.flag # Dirty THEN hdr' ELSE sb
    BY DEF WriteInPlace, MarkDirty, bounds
  <1>2. /\ sb'.flag = Dirty /\ NextSeq' = NextSeq /\ hdr'.chkseq = NextSeq' /\ Stale'
    <2>1. CASE hdr.flag # Dirty
      BY <1>1, <2>1, SeqDirty
    <2>2. CASE hdr.flag = Dirty
      <3>1. UNCHANGED sb /\ sb.flag = Dirty /\ hdr'.chkseq = hdr.chkseq
        BY <1>1, <2>2 DEF AInv, FlagKnown, TypeOK, Header
      <3> QED BY <1>1, <3>1, SeqSteady DEF Sequenced
    <2> QED BY <2>1, <2>2
  <1>3. MaxBlks > 0 => queue' # {}
    BY <1>1, FS_EmptySet, FailSafeAssumption
  <1>4. MetaSame'
    BY <1>1, <1>3 DEF MetaSame
  <1>5. Sequenced'
    BY <1>1, <1>2 DEF Sequenced, area
  <1> QED BY <1>1, <1>2, <1>4, <1>5 DEF Drains, BackupInPlace

LEMMA WLimit ==
  ASSUME TypeOK, AInv, WInv, WriteLimit
  PROVE  WInv'
  <1> USE DEF WInv, Up
  <1>1. /\ pc = "write" /\ pc' \in {"sync", "idle"} /\ cnt > Limit
        /\ UNCHANGED <<mod, hdr, backup, queue, lastn, disk, sb, area, crashes>>
    BY ReturnPhase DEF WriteLimit, OverLimit, server, bounds
  <1>2. MaxBlks > 0 => sb.flag = Dirty
    <2>1. hdr.flag # Dirty => cnt <= Cardinality(queue) /\ Cardinality(queue) <= MaxBlks
      BY <1>1 DEF AInv, CountQueued, TypeOK
    <2>2. Cardinality(queue) \in Nat /\ cnt \in Nat /\ MaxBlks \in Nat
      BY QueueSlot, FailSafeAssumption DEF TypeOK
    <2>3. MaxBlks > 0 => hdr.flag = Dirty
      BY <1>1, <2>1, <2>2 DEF Limit
    <2> QED BY <1>1, <2>3 DEF AInv, FlagKnown
  <1>3. MaxBlks = 0 => queue = {}
    BY QueueSlot DEF Slots
  <1>4. NextSeq' = NextSeq /\ Stale'
    BY <1>1, SeqSteady DEF Sequenced
  <1>5. Sequenced'
    BY <1>1, <1>4 DEF Sequenced, area
  <1>6. Drains'
    BY <1>1, <1>2, <1>3, FailSafeAssumption DEF Drains, Draining
  <1>7. BackupInPlace' /\ MetaSame'
    BY <1>1, <1>2 DEF BackupInPlace, MetaSame
  <1> QED BY <1>5, <1>6, <1>7

(* The sequence numbers wrap around, and one that is not too far behind is  *)
(* not the one after.                                                       *)
LEMMA NextNumber ==
  ASSUME NEW x \in 0..(SeqMod - 1)
  PROVE  (x + 1) % SeqMod = IF x = SeqMod - 1 THEN 0 ELSE x + 1
  <1>1. SeqMod \in Nat \ {0}
    BY FailSafeAssumption
  <1>2. CASE x = SeqMod - 1
    <2>1. x + 1 = SeqMod /\ SeqMod % SeqMod = 0
      BY <1>1, <1>2
    <2> QED BY <1>2, <2>1
  <1>3. CASE x # SeqMod - 1
    <2>1. x + 1 \in 0..(SeqMod - 1)
      BY <1>1, <1>3
    <2> QED BY <1>1, <1>3, <2>1
  <1> QED BY <1>2, <1>3

LEMMA Behind1 ==
  ASSUME NEW x \in 0..(SeqMod - 1), NEW y \in 0..(SeqMod - 1), NEW c \in Nat,
         Behindness(x, y) <= c
  PROVE  /\ c < SeqMod - 1 => x # (y + 1) % SeqMod
         /\ Behindness(x, (y + 1) % SeqMod) <= c + 1
         /\ Behindness((y + 1) % SeqMod, (y + 1) % SeqMod) = 0
  <1>1. SeqMod \in Nat \ {0} /\ (y + 1) % SeqMod = IF y = SeqMod - 1 THEN 0 ELSE y + 1
    BY FailSafeAssumption, NextNumber
  <1> QED BY <1>1 DEF Behindness

LEMMA SeqRange ==
  ASSUME TypeOK
  PROVE  /\ NextSeq \in 0..(SeqMod - 1)
         /\ \A i \in Slots : slot[i].chkseq \in 0..(SeqMod - 1)
         /\ \A i \in Slots : Behindness(slot[i].chkseq, NextSeq) \in Nat
  <1>1. sb.chkseq \in 0..(SeqMod - 1) /\ SeqMod \in Nat \ {0}
    BY FailSafeAssumption DEF TypeOK, Header
  <1>2. (sb.chkseq + 1) % SeqMod \in 0..(SeqMod - 1)
    BY <1>1
  <1>3. NextSeq \in 0..(SeqMod - 1)
    BY <1>1, <1>2 DEF NextSeq
  <1>4. \A i \in Slots : slot[i].chkseq \in 0..(SeqMod - 1)
    BY DEF TypeOK, Header
  <1> QED BY <1>1, <1>3, <1>4 DEF Behindness

LEMMA WClean ==
  ASSUME TypeOK, IInv, AInv, WInv, SyncClean
  PROVE  WInv'
  <1> USE DEF WInv, Up
  <1>1. /\ pc = "devsync" /\ queue = {} /\ mod = {}
        /\ UNCHANGED <<mod, backup, queue, lastn, disk, crashes, area>>
    BY DEF SyncClean, bounds, IInv, JobPhase
  <1>2. pc' \in {"sync", "idle", "closed"}
    BY ReturnPhase DEF SyncClean
  <1>3. MaxBlks > 0 => hdr.meta = backup.meta
    BY <1>1 DEF MetaSame
  <1>4. /\ NextSeq' = NextSeq /\ hdr'.chkseq = NextSeq /\ hdr'.meta = hdr.meta
        /\ MaxBlks > 0 => Recovered' = [blk |-> disk, meta |-> backup.meta]
    <2>1. CASE hdr.flag # 0
      <3>1. hdr' = [hdr EXCEPT !.flag = 0] /\ sb' = hdr'
        BY <2>1 DEF SyncClean
      <3>2. /\ sb'.flag = 0 /\ sb'.meta = hdr.meta /\ sb'.chkseq = hdr.chkseq
            /\ hdr'.meta = hdr.meta /\ hdr'.chkseq = hdr.chkseq
        BY <3>1 DEF TypeOK, Header
      <3>3. ~HasCheckpoint' /\ sb'.flag # Dirty
        BY <3>2, QueueSlot DEF HasCheckpoint, Dirty
      <3>4. MaxBlks > 0 => Recovered' = [blk |-> disk, meta |-> backup.meta]
        BY <1>1, <1>3, <3>2, <3>3, RecoveredPlain
      <3>5. NextSeq' = NextSeq
        BY <1>1, <3>2, <3>3 DEF NextSeq, Sequenced
      <3> QED BY <1>1, <3>2, <3>4, <3>5 DEF Sequenced
    <2>2. CASE hdr.flag = 0
      <3>1. UNCHANGED <<hdr, sb, disk, area>> /\ sb.flag # Dirty
        BY <1>1, <2>2 DEF SyncClean, AInv, FlagKnown, Dirty
      <3>2. MaxBlks > 0 => Recovered = [blk |-> disk, meta |-> backup.meta]
        BY <1>1, <3>1 DEF BackupInPlace, Draining
      <3> QED BY <1>1, <3>1, <3>2, RecoveredSame, SeqSteady DEF Sequenced
    <2> QED BY <2>1, <2>2
  <1>5. Sequenced'
    BY <1>1, <1>4 DEF Sequenced, Stale, area
  <1> QED BY <1>1, <1>2, <1>3, <1>4, <1>5 DEF Draining, Drains, BackupInPlace, MetaSame

(* The checkpoint written by FDEV::sync is the only header left in its      *)
(* area: zeros hide the end of a longer predecessor.                        *)
LEMMA WCheckpoint ==
  ASSUME TypeOK, IInv, AInv, WInv, SyncCheckpoint
  PROVE  WInv'
  <1> USE DEF WInv, Up
  <1> DEFINE n == Cardinality(queue)
  <1>1. /\ pc = "devsync" /\ queue # {}
        /\ UNCHANGED <<backup, queue, qval, disk, crashes>>
        /\ hdr' = Behind(n) /\ sb' = Front(n) /\ lastn' = n
        /\ cpdom' = queue /\ cpval' = qval
        /\ slot' = [Overwritten(n, lastn) EXCEPT ![n] = Behind(n)]
    BY DEF SyncCheckpoint, bounds
  <1>2. /\ n \in Slots /\ n \in Nat /\ lastn \in Nat /\ n # Dirty /\ Slots \subseteq Nat
    BY <1>1, QueueSlot, FailSafeAssumption DEF TypeOK, Slots
  <1>3. /\ hdr'.flag = n /\ hdr'.meta = hdr.meta
        /\ hdr'.chkseq = (hdr.chkseq + 1) % SeqMod
        /\ sb'.flag = n /\ sb'.chkseq = backup.chkseq
    BY <1>1 DEF Behind, Front, TypeOK, Header
  <1>4. HasCheckpoint'
    BY <1>1, <1>2, CheckpointComplete
  <1>5. pc' \in {"sync", "idle"}
    BY <1>1, ReturnPhase DEF SyncCheckpoint, IInv, JobPhase
  <1>6. slot'[n] = Behind(n) /\ \A i \in Slots \ {n} : slot'[i].flag = 0
    <2>1. slot'[n] = Behind(n)
      BY <1>1, <1>2 DEF Overwritten
    <2>2. ASSUME NEW i \in Slots \ {n} PROVE slot'[i].flag = 0
      <3>1. slot'[i] = IF i < n \/ (n < i /\ i <= lastn) THEN Zeroed ELSE slot[i]
        BY <1>1, <1>2 DEF Overwritten
      <3>2. i > lastn => slot[i].flag = 0
        BY <1>1 DEF Sequenced
      <3>3. i < n \/ n < i
        BY <1>2
      <3> QED BY <1>2, <3>1, <3>2, <3>3 DEF Zeroed
    <2> QED BY <2>1, <2>2
  <1>7. Sequenced'
    <2>1. NextSeq' = (hdr.chkseq + 1) % SeqMod
      BY <1>1, <1>3, <1>4 DEF NextSeq, AInv, SeqSame
    <2>2. slot'[n].chkseq = (hdr.chkseq + 1) % SeqMod
      BY <1>1, <1>3, <1>6
    <2>3. Behindness(slot'[n].chkseq, NextSeq') <= crashes'
      <3>1. hdr.chkseq \in 0..(SeqMod - 1) /\ SeqMod \in Nat \ {0}
        BY FailSafeAssumption DEF TypeOK, Header
      <3>2. (hdr.chkseq + 1) % SeqMod \in 0..(SeqMod - 1)
        BY <3>1
      <3> QED BY <1>1, <2>1, <2>2, <3>1, <3>2 DEF Behindness, TypeOK
    <2> QED BY <1>1, <1>2, <1>3, <1>6, <2>1, <2>3 DEF Sequenced, Stale
  <1>8. Drains'
    BY <1>1, <1>2, <1>3, <1>4, <1>6 DEF Drains, Behind, TypeOK, Header
  <1>9. Draining' /\ queue' # {}
    BY <1>1, <1>5 DEF Draining
  <1> QED BY <1>7, <1>8, <1>9 DEF BackupInPlace, MetaSame

(* Nothing of WInv but the sequence numbers outlives the process. *)
LEMMA WDown ==
  ASSUME ~Up', Stale'
  PROVE  WInv'
  BY DEF WInv, Up, Draining, Drains, BackupInPlace, MetaSame, Sequenced

LEMMA WCrash ==
  ASSUME TypeOK, WInv, Crash
  PROVE  WInv'
  <1>1. UNCHANGED <<disk, sb, area>> /\ crashes' = crashes + 1 /\ ~Up' /\ slot' = slot
    BY DEF Crash, Die, area, Up
  <1>2. NextSeq' = NextSeq
    BY <1>1, SeqSteady
  <1>3. Stale'
    BY <1>1, <1>2, SeqRange DEF Stale, WInv, Sequenced, TypeOK
  <1> QED BY <1>1, <1>3, WDown

LEMMA WRefused ==
  ASSUME WInv, MountRefused
  PROVE  WInv'
  <1>1. ~Up' /\ UNCHANGED <<sb, area>> /\ crashes' = crashes
    BY DEF MountRefused, Up, bounds
  <1> QED BY <1>1, SeqSteady, WDown DEF WInv, Sequenced

(* A checkpoint cut short before the header behind its last block is not    *)
(* mistaken for a complete one: what an earlier checkpoint left there has   *)
(* another sequence number.                                                 *)
LEMMA TornIgnored ==
  ASSUME MaxCrash < SeqMod, TypeOK, AInv, WInv, TornBlocks
  PROVE  /\ ~HasCheckpoint' /\ sb'.flag # Dirty
         /\ sb'.chkseq = NextSeq /\ sb'.meta = backup.meta
         /\ \A i \in Slots : slot'[i].flag = 0 \/ slot'[i] = slot[i]
  <1> DEFINE n == Cardinality(queue)
  <1>1. pc = "devsync" /\ queue # {} /\ sb' = Front(n) /\ crashes < MaxCrash
    BY DEF TornBlocks, CutShort, Die
  <1>2. PICK done \in SUBSET queue : slot' = Overwritten(Cardinality(done), 0)
    BY DEF TornBlocks, CutShort
  <1>3. n \in Slots /\ n \in 1..254 /\ n # Dirty
    BY <1>1, QueueSlot
  <1>4. Cardinality(done) \in Nat /\ Cardinality(done) <= n
    <2>1. IsFiniteSet(queue)
      BY FailSafeAssumption, FS_Subset DEF TypeOK
    <2> QED BY <2>1, FS_Subset, FS_CardinalityType
  <1>5. \A i \in Slots : slot'[i] = IF i < Cardinality(done) THEN Zeroed ELSE slot[i]
    BY <1>2, <1>4, QueueSlot DEF Overwritten
  <1>6. slot'[n] = slot[n]
    BY <1>3, <1>4, <1>5
  <1>7. /\ sb'.flag = n /\ sb'.chkseq = backup.chkseq /\ sb'.meta = backup.meta
    BY <1>1 DEF Front, TypeOK, Header
  <1>8. backup.chkseq = NextSeq
    BY <1>1 DEF AInv, SeqSame, Up, WInv, Sequenced
  <1>9. slot[n].flag # 0 => slot[n].chkseq # (NextSeq + 1) % SeqMod
    <2>1. crashes < SeqMod - 1 /\ crashes \in Nat
      BY <1>1, FailSafeAssumption DEF TypeOK
    <2>2. slot[n].flag # 0 => Behindness(slot[n].chkseq, NextSeq) <= crashes
      BY <1>3 DEF WInv, Sequenced, Stale
    <2> QED BY <1>3, <2>1, <2>2, SeqRange, Behind1
  <1>10. ~HasCheckpoint'
    BY <1>3, <1>6, <1>7, <1>8, <1>9 DEF HasCheckpoint, Partial
  <1> QED BY <1>3, <1>5, <1>7, <1>8, <1>10 DEF Zeroed

LEMMA WTornBlocks ==
  ASSUME MaxCrash < SeqMod, TypeOK, AInv, WInv, TornBlocks
  PROVE  WInv'
  <1>1. NextSeq' = NextSeq /\ ~Up'
    BY TornIgnored DEF NextSeq, TornBlocks, Die, Up
  <1>2. Stale'
    BY <1>1, TornIgnored, SeqRange DEF Stale, WInv, Sequenced, TypeOK, TornBlocks, Die
  <1> QED BY <1>1, <1>2, WDown

LEMMA WTornPadding ==
  ASSUME TypeOK, IInv, AInv, WInv, TornPadding
  PROVE  WInv'
  <1> DEFINE n == Cardinality(queue)
  <1>1. /\ pc = "devsync" /\ queue # {} /\ sb' = Front(n) /\ UNCHANGED disk
        /\ cpdom' = queue /\ cpval' = qval
        /\ slot' = [Overwritten(n, 0) EXCEPT ![n] = Behind(n)]
        /\ Die /\ crashes' = crashes + 1
    BY DEF TornPadding, Die
  <1>2. n \in Slots /\ n \in Nat /\ n # Dirty
    BY <1>1, QueueSlot
  <1>3. HasCheckpoint'
    BY <1>1, <1>2, CheckpointComplete
  <1>4. /\ sb'.flag = n /\ sb'.chkseq = backup.chkseq
        /\ Behind(n).chkseq = (hdr.chkseq + 1) % SeqMod
    BY <1>1 DEF Front, Behind, TypeOK, Header
  <1>5. backup.chkseq = NextSeq /\ hdr.chkseq = NextSeq
    BY <1>1 DEF AInv, SeqSame, Up, WInv, Sequenced
  <1>6. NextSeq' = (NextSeq + 1) % SeqMod
    BY <1>3, <1>4, <1>5 DEF NextSeq
  <1>7. Stale'
    <2> SUFFICES ASSUME NEW i \in Slots, slot'[i].flag # 0
                 PROVE  Behindness(slot'[i].chkseq, NextSeq') <= crashes'
      BY DEF Stale
    <2>1. crashes \in Nat /\ 0 <= crashes + 1
      BY DEF TypeOK
    <2>2. CASE i = n
      <3>1. slot'[i].chkseq = (NextSeq + 1) % SeqMod
        BY <1>1, <1>2, <1>4, <1>5, <2>2 DEF Overwritten
      <3>2. Behindness(NextSeq, NextSeq) <= 0
        BY SeqRange, FailSafeAssumption DEF Behindness
      <3>3. Behindness(slot'[i].chkseq, NextSeq') = 0
        BY <1>6, <3>1, <3>2, SeqRange, Behind1
      <3> QED BY <1>1, <2>1, <3>3
    <2>3. CASE i # n
      <3>1. slot'[i] = IF i < n \/ (n < i /\ i <= 0) THEN Zeroed ELSE slot[i]
        BY <1>1, <1>2, <2>3 DEF Overwritten
      <3>2. slot'[i] = slot[i]
        BY <3>1 DEF Zeroed
      <3>3. Behindness(slot[i].chkseq, NextSeq) <= crashes
        BY <3>2 DEF WInv, Sequenced, Stale
      <3> QED BY <1>1, <1>6, <2>1, <3>2, <3>3, SeqRange, Behind1
    <2> QED BY <2>2, <2>3
  <1> QED BY <1>1, <1>7, WDown DEF Die, Up

LEMMA StepWInv ==
  ASSUME ~Failing, ~Prealloc, MaxCrash < SeqMod
  PROVE  TypeOK /\ IInv /\ AInv /\ WInv /\ [Next]_vars /\ [Orderly]_vars => WInv'
  <1> SUFFICES ASSUME TypeOK, IInv, AInv, WInv, [Next]_vars, [Orderly]_vars PROVE WInv'
    OBVIOUS
  <1>1. CASE UNCHANGED vars
    <2>1. /\ UNCHANGED <<disk, sb, area>>
          /\ UNCHANGED <<pc, mod, hdr, backup, queue, qval, lastn, cpdom, cpval, slot, crashes>>
      BY <1>1 DEF vars, server, area, bounds
    <2>2. /\ NextSeq' = NextSeq /\ (Stale => Stale') /\ (HasCheckpoint' <=> HasCheckpoint)
          /\ Recovered' = Recovered
      BY <2>1, SeqSteady, RecoveredSame
    <2> QED BY <2>1, <2>2 DEF WInv, Up, Draining, Drains, BackupInPlace, MetaSame, Sequenced
  <1>2. CASE Next /\ Orderly
    <2>1. ~ExtentFull /\ (\A b \in Block : Read(b) => queue' # {})
      BY <1>2 DEF Orderly, KeepsBackup
    <2>2. ~WaitFailed /\ \A b \in Block : ~Preallocate(b)
      BY DEF WaitFailed, IInv, NoError, Preallocate
    <2> QED BY <1>2, <2>1, <2>2, NoFailure, WRefused, WMount, WUpdate, WPool, WApply, WRead, WInPlace,
               WLimit, WClean, WCheckpoint, WCrash, WTornBlocks, WTornPadding DEF Next, Sync
  <1> QED BY <1>1, <1>2

(* The invariant of orderly steps. *)
CInv == TypeOK /\ IInv /\ AInv /\ WInv

LEMMA StepCInv ==
  ASSUME ~Failing, ~Prealloc, MaxCrash < SeqMod
  PROVE  CInv /\ [Next]_vars /\ [Orderly]_vars => CInv'
  <1> SUFFICES ASSUME CInv, [Next]_vars, [Orderly]_vars PROVE CInv'
    OBVIOUS
  <1>1. [KeepsBackup]_vars
    BY DEF Orderly
  <1> QED BY <1>1, StepTypeOK, StepIInv, StepAInv, StepWInv DEF CInv

LEMMA OrderlyInvariance ==
  ASSUME ~Failing, ~Prealloc, MaxCrash < SeqMod
  PROVE  Spec /\ [][Orderly]_vars => []CInv
  <1>1. Init => CInv
    BY InitTypeOK, InitIInv, InitAInv, InitWInv DEF CInv
  <1> QED BY <1>1, StepCInv, PTL DEF Spec

(* The blocks and the superblock fields survive a crash together, as they   *)
(* were at the last sync that was complete on disk, wherever the process is *)
(* killed: in the middle of the write of a checkpoint (FDEV::sync), and     *)
(* while its blocks are put in place (FDEV::wait, FDEV::read), however      *)
(* often that is repeated, with flush() between operations; where a sync    *)
(* overflows its checkpoint, the mount may be refused instead.  No write    *)
(* fails, no space is reserved ahead, chkseq does not go around, and every  *)
(* step is Orderly.                                                         *)
THEOREM CheckpointsAreAtomic ==
  ASSUME ~Failing, ~Prealloc, MaxCrash < SeqMod
  PROVE  Spec /\ [][Orderly]_vars => StoreSpec
  <1>1. CInv /\ [Next]_vars /\ [Orderly]_vars => StoreStep
    <2> SUFFICES ASSUME CInv, [Next]_vars, [Orderly]_vars PROVE StoreStep
      OBVIOUS
    <2> USE DEF CInv
    <2>1. CASE UNCHANGED vars
      BY <2>1, StoreIdle
    <2>2. CASE TornBlocks /\ Orderly
      <3>1. Up /\ ~Up' /\ ~Draining /\ disk' = disk /\ sb.flag # Dirty /\ queue # {}
        BY <2>2 DEF TornBlocks, Die, Up, Draining, Orderly
      <3>2. MaxBlks > 0
        BY <3>1, QueueSlot, FailSafeAssumption DEF Slots
      <3>3. Recovered = [blk |-> disk, meta |-> backup.meta]
        BY <3>1, <3>2 DEF WInv, BackupInPlace
      <3>4. Recovered' = [blk |-> disk, meta |-> backup.meta]
        BY <2>2, <3>1, TornIgnored, RecoveredPlain
      <3> QED BY <3>1, <3>3, <3>4, Mapped
    <2>3. CASE ~TornBlocks
      <3>1. [KeepsBackup]_vars
        BY DEF Orderly
      <3> QED BY <2>3, <3>1, StepStore
    <2> QED BY <2>1, <2>2, <2>3
  <1>2. Spec /\ [][Orderly]_vars => Store!Init /\ [][Store!Next]_Store!vars
    BY <1>1, OrderlyInvariance, InitStore, PTL DEF Spec, StoreStep
  <1> QED BY <1>2 DEF StoreSpec, Store!Spec

(* What the invariant says of a queue that is not yet in place, and of the  *)
(* superblock kept for a checkpoint that turns out partial.                 *)
LEMMA QueueRecoverable ==
  ASSUME CInv
  PROVE  UnappliedRecoverable /\ (sb.flag # Dirty => BackupIsOld)
  <1>1. UnappliedRecoverable
    <2> SUFFICES ASSUME pc \in {"idle", "sync", "wait"}, queue # {}, hdr.flag \in Slots
                 PROVE  HasCheckpoint
      BY DEF UnappliedRecoverable
    <2>1. sb.flag # Dirty /\ Draining
      BY QueueSlot DEF CInv, AInv, FlagKnown, Up, Draining
    <2> QED BY <2>1 DEF CInv, WInv, Drains
  <1>2. sb.flag # Dirty => BackupIsOld
    <2> SUFFICES ASSUME sb.flag # Dirty, pc = "devsync", queue # {}
                 PROVE  Recovered = [blk |-> disk, meta |-> backup.meta]
      BY DEF BackupIsOld
    <2>1. MaxBlks > 0
      BY QueueSlot, FailSafeAssumption DEF Slots, CInv
    <2> QED BY <2>1 DEF CInv, WInv, BackupInPlace, Up, Draining
  <1> QED BY <1>1, <1>2

(* Under the same conditions, until a checkpoint is in place it is one that *)
(* a mount loads, and until it is complete the disk with the backup         *)
(* superblock is what was there before, unless an update in place was under *)
(* way.                                                                     *)
THEOREM CheckpointsAreRecoverable ==
  ASSUME ~Failing, ~Prealloc, MaxCrash < SeqMod
  PROVE  Spec /\ [][Orderly]_vars => [](UnappliedRecoverable /\ (sb.flag # Dirty => BackupIsOld))
  BY QueueRecoverable, OrderlyInvariance, PTL

-----------------------------------------------------------------------------
(* A sync never overflows its checkpoint where the touched list, which      *)
(* get(0) keeps short enough for one more operation, is no longer than      *)
(* maxblks allows (maxtouch <= maxblks + 1).                                *)
NoOverflow ==
  /\ Up /\ pc # "wait" => queue \subseteq chk
  /\ Cardinality(Touched) <= MaxBlks
  /\ sb.flag # Dirty

LEMMA TouchedSize ==
  ASSUME TypeOK, NEW T \in SUBSET Block, NEW Q \in SUBSET T
  PROVE  /\ IsFiniteSet(T) /\ IsFiniteSet(Q)
         /\ Cardinality(T) \in Nat /\ Cardinality(Q) \in Nat /\ Cardinality(Q) <= Cardinality(T)
  <1>1. IsFiniteSet(T)
    BY FailSafeAssumption, FS_Subset
  <1> QED BY <1>1, FS_Subset, FS_CardinalityType

LEMMA InitNoOverflow == Init => NoOverflow
  <1> SUFFICES ASSUME Init PROVE NoOverflow
    OBVIOUS
  <1>1. pc = "closed" /\ Touched = {} /\ sb = Zeroed
    BY DEF Init, Touched
  <1>2. Cardinality(Touched) = 0
    BY <1>1, FS_EmptySet
  <1> QED BY <1>1, <1>2, FailSafeAssumption DEF NoOverflow, Up, Zeroed, Dirty

LEMMA StepNoOverflow ==
  ASSUME ~Failing, ~Prealloc, Threshold + MaxBuf <= MaxBlks + 1
  PROVE  CInv /\ NoOverflow /\ [Next]_vars => NoOverflow'
  <1> SUFFICES ASSUME CInv, NoOverflow, [Next]_vars PROVE NoOverflow'
    OBVIOUS
  <1> USE DEF CInv, NoOverflow
  <1>0. /\ mod \in SUBSET Block /\ chk \in SUBSET Block /\ Touched \in SUBSET Block
        /\ MaxBlks \in Nat /\ MaxBlks > 0 /\ Cardinality({}) = 0
    BY FailSafeAssumption, FS_EmptySet DEF TypeOK, Touched
  <1>1. ASSUME Touched' \subseteq Touched
        PROVE  Cardinality(Touched') <= MaxBlks
    BY <1>0, <1>1, TouchedSize
  <1>2. Up => hdr.flag # Dirty
    BY DEF AInv, FlagKnown
  <1>3. CASE UNCHANGED vars
    BY <1>3 DEF vars, server, Touched, Up
  <1>4. ASSUME NEW S \in SUBSET Block, NEW m \in {hdr.meta, clock + 1}, Update(S, m)
        PROVE  NoOverflow'
    <2>1. /\ Touched' = Touched \cup S /\ ~Full /\ Cardinality(S) <= MaxBuf
          /\ UNCHANGED <<pc, chk, queue, sb>>
      BY <1>4 DEF Update, Touched
    <2>2. IsFiniteSet(S) /\ IsFiniteSet(Touched) /\ Cardinality(S) \in Nat /\ Cardinality(Touched) \in Nat
      BY <1>0, TouchedSize
    <2>3. /\ Cardinality(Touched \cup S) = Cardinality(Touched) + Cardinality(S) - Cardinality(Touched \cap S)
          /\ Cardinality(Touched \cap S) \in Nat
      BY <2>2, FS_Union, FS_Intersection, FS_CardinalityType
    <2>4. Cardinality(Touched) < Threshold
      BY <2>1, <2>2, FailSafeAssumption DEF Full
    <2>5. Cardinality(Touched') <= MaxBlks
      BY <2>1, <2>2, <2>3, <2>4, <1>0, FailSafeAssumption
    <2> QED BY <2>1, <2>5 DEF Up
  <1>5. CASE ExtentFull \/ StartFull \/ StartFlush \/ StartUnmount \/ WaitSome \/ WriteDone
    <2>1. UNCHANGED <<mod, chk, queue, sb>> /\ Up /\ Up' /\ (pc = "wait" => pc' = "wait") 
      BY <1>5 DEF ExtentFull, StartFull, StartFlush, StartUnmount, WaitSome, WriteDone, server, Up, Idle
    <2> QED BY <2>1 DEF Touched
  <1>6. CASE WaitNothing \/ WaitDone
    <2>1. UNCHANGED <<mod, queue, sb>> /\ queue = {} /\ chk' = {}
      BY <1>6 DEF WaitNothing, WaitDone
    <2> QED BY <1>1, <2>1 DEF Touched
  <1>7. ASSUME NEW b \in Block, Read(b) PROVE NoOverflow'
    <2>1. UNCHANGED <<pc, mod, chk, sb>> /\ queue' \subseteq queue
      BY <1>7 DEF Read
    <2> QED BY <2>1 DEF Touched, Up
  <1>8. ASSUME NEW b \in Block, Apply(b) PROVE NoOverflow'
    <2>1. /\ pc = "wait" /\ pc' = "wait" /\ UNCHANGED <<mod, chk>>
          /\ hdr.flag # 0 => sb' = sb
      BY <1>8 DEF Apply
    <2>2. hdr.flag # 0
      BY <2>1, QueueSlot DEF WInv, Drains, Draining
    <2> QED BY <2>1, <2>2 DEF Touched
  <1>9. ASSUME NEW b \in Block, WriteQueued(b) PROVE NoOverflow'
    <2>1. /\ pc = "write" /\ pc' = "write" /\ b \in mod /\ UNCHANGED sb
          /\ queue' = queue \cup {b} /\ mod' = mod \ {b} /\ chk' = chk \cup {b}
      BY <1>9 DEF WriteQueued
    <2>2. Touched' = Touched /\ queue \subseteq chk
      BY <2>1 DEF Touched, Up
    <2> QED BY <2>1, <2>2
  <1>10. ASSUME NEW b \in Block PROVE ~WriteInPlace(b)
    <2> SUFFICES ASSUME WriteInPlace(b) PROVE FALSE
      OBVIOUS
    <2>1. b \in mod /\ b \notin queue /\ Cardinality(queue) >= MaxBlks /\ queue \subseteq chk
      BY DEF WriteInPlace, IInv, WriteFresh, Up
    <2>2. queue \cup {b} \in SUBSET Touched
      BY <2>1 DEF Touched
    <2>3. Cardinality(queue \cup {b}) <= Cardinality(Touched) /\ IsFiniteSet(queue) /\ Cardinality(Touched) \in Nat
      BY <1>0, <2>2, TouchedSize, queue \in SUBSET Touched
    <2>4. Cardinality(queue \cup {b}) = Cardinality(queue) + 1 /\ Cardinality(queue) \in Nat
      BY <2>1, <2>3, FS_AddElement, FS_CardinalityType
    <2> QED BY <1>0, <2>1, <2>3, <2>4
  <1>11. ~WriteLimit
    <2> SUFFICES ASSUME WriteLimit PROVE FALSE
      OBVIOUS
    <2>1. cnt > Limit /\ cnt <= Cardinality(queue) /\ Cardinality(queue) \in Nat
      BY <1>2, QueueSlot DEF WriteLimit, OverLimit, AInv, CountQueued, Up
    <2> QED BY <1>0, <2>1 DEF Limit, TypeOK
  <1>12. CASE SyncClean
    <2>1. UNCHANGED <<mod, chk, queue>> /\ queue = {}
      BY <1>12 DEF SyncClean
    <2>2. sb'.flag # Dirty
      BY <1>12 DEF SyncClean, TypeOK, Header, Dirty
    <2> QED BY <2>1, <2>2 DEF Touched
  <1>13. ASSUME queue # {} PROVE Front(Cardinality(queue)).flag # Dirty
    BY <1>13, QueueSlot DEF Front, TypeOK, Header
  <1>14. CASE SyncCheckpoint
    <2>1. UNCHANGED <<mod, chk, queue>> /\ pc = "devsync" /\ sb'.flag # Dirty
      BY <1>13, <1>14 DEF SyncCheckpoint
    <2> QED BY <2>1 DEF Touched, Up
  <1>15. CASE Crash \/ TornBlocks \/ TornPadding
    <2>1. ~Up' /\ Touched' = {}
      BY <1>15 DEF Crash, TornBlocks, TornPadding, Die, Up, Touched
    <2>2. sb'.flag # Dirty
      BY <1>13, <1>15 DEF Crash, TornBlocks, TornPadding, CutShort
    <2> QED BY <1>0, <2>1, <2>2
  <1>16. CASE MountPlain \/ MountCheckpoint
    <2>1. /\ Touched' = {} /\ sb' = sb /\ (pc' # "wait" => queue' = {})
      BY <1>16 DEF MountPlain, MountCheckpoint, Touched
    <2> QED BY <1>0, <2>1
  <1>17. ~MountRefused /\ ~WaitFailed /\ \A b \in Block : ~Preallocate(b)
    BY DEF MountRefused, WaitFailed, IInv, NoError, Preallocate
  <1> QED BY NoFailure, <1>3, <1>4, <1>5, <1>6, <1>7, <1>8, <1>9, <1>10, <1>11, <1>12, <1>14, <1>15, <1>16,
             <1>17 DEF Next, Sync

(* THEOREM: of the device beside the free space (Device), in the part where  *)
(* steps are orderly: what is not yet in place can be recovered, and the     *)
(* backup header stays that of the disk as it was before the sync, if        *)
(* besides no sync has more to write than a checkpoint holds.                *)
THEOREM DeviceStaysRecoverable ==
  ASSUME ~Failing, ~Prealloc, MaxCrash < SeqMod, Threshold + MaxBuf <= MaxBlks + 1
  PROVE  DeviceSpec => []WholeRecoverable
  <1> DEFINE W == part = "full" => CInv /\ NoOverflow
  <1>1. DeviceInit => W
    BY InitTypeOK, InitIInv, InitAInv, InitWInv, InitNoOverflow DEF DeviceInit, CInv
  <1>2. W /\ [DeviceNext]_deviceVars => W'
    <2> SUFFICES ASSUME W, [DeviceNext]_deviceVars, part = "full" PROVE (CInv /\ NoOverflow)'
      BY DEF DeviceNext, deviceVars
    <2>1. [Next]_vars /\ [Orderly]_vars /\ CInv /\ NoOverflow
      BY DEF DeviceNext, deviceVars
    <2> QED BY <2>1, StepCInv, StepNoOverflow
  <1>3. W => WholeRecoverable
    BY QueueRecoverable DEF WholeRecoverable, NoOverflow
  <1> QED BY <1>1, <1>2, <1>3, PTL DEF DeviceSpec
-----------------------------------------------------------------------------
(* The free space, for every size of the filesystem and of the device.      *)

\* The blocks of a file, level by level: the root above, none in two places.
Levels(r, t) ==
  /\ t \in Seq(Seq(Free!Blk)) /\ Len(t) \in 1..MaxTree
  /\ t[1] = <<r>>
  /\ \A l \in 1..Len(t) : Len(t[l]) >= 1
  /\ \A l, m \in 1..Len(t) : \A i \in 1..Len(t[l]), j \in 1..Len(t[m]) : t[l][i] = t[m][j] => l = m /\ i = j

\* What instant delete relies on in a block: its root, whether it is a stem,
\* where the ends of a level lead, and its left brother.
Leads(b, r, t, l, i) ==
  /\ b.root = r
  /\ b.stem = (l < Len(t))
  /\ l < Len(t) /\ i = 1 => b.son = t[l + 1][1]
  /\ l < Len(t) /\ i = Len(t[l]) => b.last = t[l + 1][Len(t[l + 1])]
  /\ i > 1 => b.lbro = t[l][i - 1]

Placed(d, r, t) == \A l \in 1..Len(t) : \A i \in 1..Len(t[l]) : Leads(d[t[l][i]], r, t, l, i)

FilesOf(tr) == {r \in Free!Blk : tr[r] # <<>>}
FilesPlaced(d, tr) == \A r \in FilesOf(tr) : Levels(r, tr[r]) /\ Placed(d, r, tr[r])

\* The blocks in no file and not left of the one under recovery.
LiveIn(tr) == UNION {Free!Blocks(tr[r]) : r \in FilesOf(tr)}
Unused(tr, left, eod) == (1..eod) \ (LiveIn(tr) \union left)

\* The free list leads from free through every block of F down to its end, and
\* to a block deleted with its file before the root, which is deleted too.
NextFree(d, b) == IF d[b].root = 0 THEN d[b].son ELSE d[b].lbro
Ranked(d, free, F, rk) ==
  /\ free = 0 <=> F = {}
  /\ F # {} => free \in F
  /\ \A b \in F : rk[b] <= rk[free]
  /\ \A b \in F : NextFree(d, b) = 0 \/ (NextFree(d, b) \in F /\ rk[NextFree(d, b)] < rk[b])
  /\ \A b \in F \ {free} : \E c \in F : NextFree(d, c) = b
  /\ \A b \in F : d[b].root = 0 \/ (d[b].root \in F /\ d[d[b].root].root = 0 /\ rk[d[b].root] < rk[b])
FreeChain(d, free, F) == \E rk \in [Free!Blk -> Nat] : Ranked(d, free, F, rk)

\* The blocks still to be copied and freed by btrcvr: those with the old root,
\* in what it has read or beyond.
Recovering(d, tr, rc) ==
  /\ rc.old = 0 => rc = Free!Idle
  /\ rc.old # 0 =>
       /\ tr[rc.old] = <<>>
       /\ rc.left = {b \in Free!Blk : d[b].root = rc.old}
       /\ rc.left \subseteq 1..rc.upto
       /\ rc.left \subseteq rc.batch \union {b \in Free!Blk : b > rc.at}
       /\ rc.batch \subseteq rc.left /\ rc.need \subseteq rc.left
       /\ rc.copied => rc.batch # {} /\ \A b \in rc.need \intersect rc.batch : \E c \in rc.batch : c < b

Link == [root : 0..MaxBlk, son : 0..MaxBlk, lbro : 0..MaxBlk, stem : BOOLEAN, last : 0..MaxBlk]
SpaceHdr == [free : 0..MaxBlk, droot : 0..MaxBlk, space : Int, eod : 1..MaxBlk, eof : 0..MaxBlk, newspace : Nat]
Rcvr == [old : 0..MaxBlk, new : 0..MaxBlk, at : Nat, upto : 0..MaxBlk, batch : SUBSET Free!Blk,
         copied : BOOLEAN, left : SUBSET Free!Blk, need : SUBSET Free!Blk]
SpaceType(d, tr, h, rc) ==
  /\ d \in [Free!Blk -> Link]
  /\ tr \in [Free!Blk -> Seq(Seq(Free!Blk))]
  /\ h \in SpaceHdr /\ rc \in Rcvr
  /\ h.eof # 0 => h.eod <= h.eof
  /\ LiveIn(tr) \union rc.left \subseteq 1..h.eod
  /\ \A b \in Free!Blk : b > h.eod => d[b].root = 0

Counted(h, F) == h.space = Cardinality(F) + (IF h.eof # 0 THEN h.eof - h.eod ELSE 0)

SpaceHolds(d, tr, h, rc) ==
  /\ SpaceType(d, tr, h, rc)
  /\ FilesPlaced(d, tr)
  /\ Recovering(d, tr, rc)
  /\ FreeChain(d, h.free, Unused(tr, rc.left, h.eod))
  /\ Counted(h, Unused(tr, rc.left, h.eod))

SInv == SpaceHolds(links, tree, space, rcv)

\* A set of numbers has a least one.
LEMMA Least ==
  ASSUME NEW J \in SUBSET Nat, J # {}
  PROVE  \E j \in J : \A k \in J : j <= k
  <1>1. PICK j \in J : \A k \in J : ~(<<k, j>> \in OpToRel(<, Nat))
    BY NatLessThanWellFounded, WFMin
  <1>2. \A k \in J : ~(k < j)
    BY <1>1 DEF OpToRel
  <1> QED BY <1>2

\* Induction up to n, for a set.
LEMMA Upto ==
  ASSUME NEW n \in Nat, NEW J, 0 \in J, \A i \in 0..(n - 1) : i \in J => i + 1 \in J
  PROVE  \A i \in 0..n : i \in J
  <1> SUFFICES ASSUME NEW i \in 0..n, i \notin J PROVE FALSE
    OBVIOUS
  <1> DEFINE K == {k \in 0..n : k \notin J}
  <1>1. K \in SUBSET Nat /\ K # {}
    OBVIOUS
  <1>2. PICK k \in K : \A l \in K : k <= l
    BY <1>1, Least
  <1>3. k \in 0..n /\ k \notin J /\ k # 0
    BY <1>2
  <1>4. k - 1 \in 0..(n - 1) /\ k - 1 \in J
    <2>1. k - 1 \in 0..n /\ ~(k <= k - 1)
      BY <1>3
    <2>2. k - 1 \notin K
      BY <2>1, <1>2
    <2> QED BY <1>3, <2>1, <2>2
  <1>5. (k - 1) + 1 \in J
    BY <1>4
  <1> QED BY <1>3, <1>5

\* Iterating a function n times, from a state of S.
Iterates(f, n, S, s, g) ==
  f \in [0..n -> S] /\ f[0] = s /\ \A i \in 1..n : f[i] = g[<<f[i - 1], i>>]
LEMMA Iterate ==
  ASSUME NEW n \in Nat, NEW S, NEW s \in S, NEW g \in [S \X (1..n) -> S]
  PROVE  \E f : Iterates(f, n, S, s, g)
  <1> DEFINE J == {m \in 0..n : \E f \in [0..m -> S] : f[0] = s /\ \A i \in 1..m : f[i] = g[<<f[i - 1], i>>]}
  <1>1. 0 \in J
    <2> DEFINE f == [i \in 0..0 |-> s]
    <2>1. f \in [0..0 -> S] /\ f[0] = s /\ (\A i \in 1..0 : f[i] = g[<<f[i - 1], i>>]) /\ 0 \in 0..n
      OBVIOUS
    <2> HIDE DEF f
    <2> QED BY <2>1
  <1>2. ASSUME NEW m \in 0..(n - 1), m \in J PROVE m + 1 \in J
    <2>1. PICK f \in [0..m -> S] : f[0] = s /\ \A i \in 1..m : f[i] = g[<<f[i - 1], i>>]
      BY <1>2
    <2> DEFINE h == [i \in 0..(m + 1) |-> IF i = m + 1 THEN g[<<f[m], m + 1>>] ELSE f[i]]
    <2>2. \A i \in 0..m : h[i] = f[i]
      OBVIOUS
    <2>3. h[m + 1] = g[<<f[m], m + 1>>] /\ h[m + 1] \in S
      BY <2>1
    <2>4. h \in [0..(m + 1) -> S]
      BY <2>1, <2>3
    <2> HIDE DEF h
    <2>5. h[0] = s
      BY <2>1, <2>2
    <2>6. ASSUME NEW i \in 1..(m + 1) PROVE h[i] = g[<<h[i - 1], i>>]
      <3>1. CASE i = m + 1
        BY <3>1, <2>2, <2>3, SMTT(60)
      <3>2. CASE i # m + 1
        <4>1. i \in 1..m /\ i - 1 \in 0..m /\ i \in 0..m
          BY <3>2
        <4> QED BY <4>1, <2>1, <2>2
      <3> QED BY <3>1, <3>2
    <2> QED BY <2>4, <2>5, <2>6
  <1>3. n \in J
    <2> HIDE DEF J
    <2> QED BY <1>1, <1>2, Upto
  <1> QED BY <1>3 DEF Iterates

LEMMA Sizes ==
  /\ MaxBlk \in Nat \ {0} /\ MaxTree \in Nat \ {0} /\ Batch \in Nat \ {0} /\ Capacity \in 1..MaxBlk
  /\ Free!Blk = 1..MaxBlk
  BY DeviceAssumption DEF Free!SpaceAssumption, Free!Blk

LEMMA SomeBlocks ==
  ASSUME NEW S \in SUBSET Free!Blk
  PROVE  IsFiniteSet(S) /\ Cardinality(S) \in 0..MaxBlk
  <1>1. IsFiniteSet(Free!Blk) /\ Cardinality(Free!Blk) = MaxBlk
    BY Sizes, FS_Interval
  <1>2. IsFiniteSet(S) /\ Cardinality(S) <= MaxBlk
    BY <1>1, FS_Subset
  <1> QED BY <1>2, FS_CardinalityType, Sizes

LEMMA LevelTypes ==
  ASSUME NEW r \in Free!Blk, NEW t, Levels(r, t)
  PROVE  /\ DOMAIN t = 1..Len(t) /\ Len(t) \in Nat /\ Len(t) >= 1
         /\ \A l \in 1..Len(t) : /\ t[l] \in Seq(Free!Blk) /\ DOMAIN t[l] = 1..Len(t[l])
                                 /\ Len(t[l]) \in Nat /\ Len(t[l]) >= 1
                                 /\ \A i \in 1..Len(t[l]) : t[l][i] \in Free!Blk
  BY Sizes, SMTT(60) DEF Levels

LEMMA BlocksAre ==
  ASSUME NEW r \in Free!Blk, NEW t, Levels(r, t), NEW b
  PROVE  b \in Free!Blocks(t) <=> \E l \in 1..Len(t) : \E i \in 1..Len(t[l]) : b = t[l][i]
  <1>1. b \in Free!Blocks(t) <=> \E l \in DOMAIN t : b \in Free!ToSet(t[l])
    BY DEF Free!Blocks
  <1>2. \A l \in DOMAIN t : b \in Free!ToSet(t[l]) <=> \E i \in DOMAIN t[l] : b = t[l][i]
    BY DEF Free!ToSet
  <1> QED BY <1>1, <1>2, LevelTypes

LEMMA LinkedIs ==
  ASSUME NEW r \in Free!Blk, NEW t, Levels(r, t), NEW l \in 1..Len(t), NEW i \in 1..Len(t[l])
  PROVE  /\ Leads(Free!Linked(r, t, t[l][i]), r, t, l, i)
         /\ Free!Linked(r, t, t[l][i]) \in Link
  <1> DEFINE b == t[l][i]
             L == CHOOSE m \in DOMAIN t : b \in Free!ToSet(t[m])
             I == CHOOSE j \in DOMAIN t[L] : t[L][j] = b
  <1>1. /\ DOMAIN t = 1..Len(t) /\ Len(t) \in Nat
        /\ \A m \in 1..Len(t) : DOMAIN t[m] = 1..Len(t[m])
    BY LevelTypes
  <1>2. \A m \in DOMAIN t : b \in Free!ToSet(t[m]) <=> m = l
    <2>1. SUFFICES ASSUME NEW m \in DOMAIN t PROVE b \in Free!ToSet(t[m]) <=> m = l
      OBVIOUS
    <2>2. b \in Free!ToSet(t[m]) <=> \E j \in 1..Len(t[m]) : b = t[m][j]
      BY <1>1 DEF Free!ToSet
    <2> QED BY <1>1, <2>2 DEF Levels
  <1>3. L = l
    <2>1. l \in DOMAIN t /\ b \in Free!ToSet(t[l])
      BY <1>1, <1>2
    <2> HIDE DEF b
    <2> QED BY <2>1, <1>2
  <1>4. \A j \in DOMAIN t[l] : t[l][j] = b <=> j = i
    BY <1>1 DEF Levels
  <1>5. I = i
    <2>1. i \in DOMAIN t[l] /\ t[l][i] = b
      BY <1>1
    <2> HIDE DEF b
    <2> QED BY <2>1, <1>3, <1>4
  <1> DEFINE below == IF l < Len(t) THEN t[l + 1] ELSE <<0>>
             v == [root |-> r, stem |-> l < Len(t),
                   son |-> IF i = 1 THEN below[1] ELSE below[Len(below)],
                   last |-> IF i = Len(t[l]) THEN below[Len(below)] ELSE below[1],
                   lbro |-> IF i = 1 THEN 0 ELSE t[l][i - 1]]
  <1>6. Free!Linked(r, t, b) = v
    <2> HIDE DEF L, I, b
    <2>1. Free!Linked(r, t, b) =
            LET stem == L < Len(t)
                bel == IF stem THEN t[L + 1] ELSE <<0>>
            IN [root |-> r, stem |-> stem,
                son |-> IF I = 1 THEN bel[1] ELSE bel[Len(bel)],
                last |-> IF I = Len(t[L]) THEN bel[Len(bel)] ELSE bel[1],
                lbro |-> IF I = 1 THEN 0 ELSE t[L][I - 1]]
      BY DEF Free!Linked, L, I
    <2> QED BY <2>1, <1>3, <1>5
  <1>7. below[1] \in 0..MaxBlk /\ below[Len(below)] \in 0..MaxBlk
    <2>1. CASE l < Len(t)
      <3>1. l + 1 \in 1..Len(t)
        BY <1>1, <2>1
      <3> QED BY <2>1, <3>1, LevelTypes, Sizes, SMTT(60)
    <2>2. CASE ~(l < Len(t))
      <3>1. below = <<0>>
        BY <2>2
      <3> QED BY <3>1, Sizes, SMTT(60)
    <2> QED BY <2>1, <2>2
  <1>8. i = 1 \/ (i - 1 \in 1..Len(t[l]) /\ t[l][i - 1] \in Free!Blk)
    BY LevelTypes
  <1>9. v \in Link
    <2> HIDE DEF below
    <2> QED BY <1>7, <1>8, Sizes, SMTT(60) DEF Link
  <1>10. Leads(v, r, t, l, i)
    BY <1>8, LevelTypes DEF Leads
  <1> HIDE DEF v
  <1> QED BY <1>6, <1>9, <1>10

LEMMA GrownIs ==
  ASSUME NEW r \in Free!Blk, NEW t, Levels(r, t), links \in [Free!Blk -> Link]
  PROVE  /\ Free!Grown(r, t) \in [Free!Blk -> Link]
         /\ Placed(Free!Grown(r, t), r, t)
         /\ \A b \in Free!Blk : b \notin Free!Blocks(t) => Free!Grown(r, t)[b] = links[b]
  <1>1. \A b \in Free!Blk : Free!Grown(r, t)[b] = IF b \in Free!Blocks(t) THEN Free!Linked(r, t, b) ELSE links[b]
    BY DEF Free!Grown
  <1>2. \A l \in 1..Len(t) : \A i \in 1..Len(t[l]) :
          /\ t[l][i] \in Free!Blk /\ t[l][i] \in Free!Blocks(t)
          /\ Leads(Free!Linked(r, t, t[l][i]), r, t, l, i)
    BY LevelTypes, BlocksAre, LinkedIs
  <1>3. Placed(Free!Grown(r, t), r, t)
    BY <1>1, <1>2 DEF Placed
  <1>4. \A b \in Free!Blocks(t) : Free!Linked(r, t, b) \in Link
    BY BlocksAre, LinkedIs
  <1>5. \A b \in Free!Blk : Free!Grown(r, t)[b] \in Link
    BY <1>1, <1>4
  <1>6. Free!Grown(r, t) \in [Free!Blk -> Link]
    BY <1>5 DEF Free!Grown
  <1> QED BY <1>1, <1>3, <1>6

LEMMA PlacedSame ==
  ASSUME NEW r \in Free!Blk, NEW t, Levels(r, t), NEW d, NEW e, Placed(d, r, t),
         \A b \in Free!Blocks(t) : e[b] = d[b]
  PROVE  Placed(e, r, t)
  <1>1. \A l \in 1..Len(t) : \A i \in 1..Len(t[l]) : e[t[l][i]] = d[t[l][i]]
    BY BlocksAre
  <1> QED BY <1>1 DEF Placed

\* The blocks of a file have its root.
LEMMA RootOf ==
  ASSUME NEW r \in Free!Blk, NEW t, Levels(r, t), NEW d, Placed(d, r, t)
  PROVE  /\ r \in Free!Blocks(t) /\ Free!Blocks(t) \subseteq Free!Blk
         /\ \A b \in Free!Blocks(t) : d[b].root = r
  <1>1. 1 \in 1..Len(t) /\ 1 \in 1..Len(t[1]) /\ t[1][1] = r
    BY LevelTypes DEF Levels
  <1>2. r \in Free!Blocks(t)
    BY <1>1, BlocksAre
  <1>3. \A b \in Free!Blocks(t) : b \in Free!Blk /\ d[b].root = r
    BY BlocksAre, LevelTypes DEF Placed, Leads
  <1> QED BY <1>2, <1>3

LEMMA Joined ==
  ASSUME NEW S, NEW x \in Seq(S), NEW y \in Seq(S)
  PROVE  /\ x \o y \in Seq(S) /\ Len(x \o y) = Len(x) + Len(y)
         /\ \A m \in 1..(Len(x) + Len(y)) : (x \o y)[m] = IF m <= Len(x) THEN x[m] ELSE y[m - Len(x)]
  OBVIOUS

\* The ways a file grows and shrinks.
LEMMA Alone ==
  ASSUME NEW b \in Free!Blk
  PROVE  Levels(b, << <<b>> >>) /\ Free!Blocks(<< <<b>> >>) = {b}
  <1> DEFINE u == << <<b>> >>
  <1>1. u \in Seq(Seq(Free!Blk)) /\ Len(u) = 1 /\ u[1] = <<b>> /\ Len(u[1]) = 1 /\ u[1][1] = b
    OBVIOUS
  <1> HIDE DEF u
  <1>2. Levels(b, u)
    <2>0. \A m \in 1..1 : m = 1
      OBVIOUS
    <2>1. \A m \in 1..Len(u) : m = 1 /\ Len(u[m]) = 1 /\ \A i \in 1..Len(u[m]) : i = 1
      BY <1>1, <2>0
    <2>2. Len(u) \in 1..MaxTree
      BY <1>1, Sizes
    <2>3. \A l, m \in 1..Len(u) : \A i \in 1..Len(u[l]), j \in 1..Len(u[m]) : u[l][i] = u[m][j] => l = m /\ i = j
      BY <2>1
    <2>4. \A l \in 1..Len(u) : Len(u[l]) >= 1
      BY <2>1
    <2> QED BY <1>1, <2>2, <2>3, <2>4 DEF Levels
  <1>3. \A c : c \in Free!Blocks(u) <=> c = b
    BY <1>1, <1>2, BlocksAre
  <1> QED BY <1>2, <1>3 DEF u

LEMMA Appended ==
  ASSUME NEW r \in Free!Blk, NEW t, Levels(r, t), NEW b \in Free!Blk, b \notin Free!Blocks(t),
         NEW l \in 2..Len(t)
  PROVE  LET u == [t EXCEPT ![l] = Append(@, b)]
         IN  Levels(r, u) /\ Free!Blocks(u) = Free!Blocks(t) \union {b}
  <1> DEFINE u == [t EXCEPT ![l] = Append(@, b)]
  <1>0. /\ Len(t) \in Nat /\ l \in 1..Len(t) /\ l # 1 /\ DOMAIN t = 1..Len(t)
        /\ \A m \in 1..Len(t) : Len(t[m]) \in Nat /\ t[m] \in Seq(Free!Blk)
    BY LevelTypes
  <1>1. u \in Seq(Seq(Free!Blk)) /\ Len(u) = Len(t)
    <2>1. Append(t[l], b) \in Seq(Free!Blk)
      BY <1>0
    <2> QED BY <1>0, <2>1 DEF Levels
  <1>2. /\ \A m \in 1..Len(t) : m # l => u[m] = t[m]
        /\ u[l] = Append(t[l], b)
    BY <1>0
  <1>3. /\ Len(u[l]) = Len(t[l]) + 1 /\ u[l][Len(t[l]) + 1] = b
        /\ \A i \in 1..Len(t[l]) : u[l][i] = t[l][i]
    BY <1>0, <1>2
  <1>4. \A m \in 1..Len(t) : \A i \in 1..Len(t[m]) : t[m][i] # b
    BY BlocksAre
  <1> HIDE DEF u
  <1>5. \A m, n \in 1..Len(u) : \A i \in 1..Len(u[m]), j \in 1..Len(u[n]) : u[m][i] = u[n][j] => m = n /\ i = j
    <2>1. SUFFICES ASSUME NEW m \in 1..Len(t), NEW n \in 1..Len(t), NEW i \in 1..Len(u[m]), NEW j \in 1..Len(u[n]),
                          u[m][i] = u[n][j]
                   PROVE  m = n /\ i = j
      BY <1>1
    <2>2. \A p \in 1..Len(t) : \A k \in 1..Len(u[p]) :
            (k \in 1..Len(t[p]) /\ u[p][k] = t[p][k]) \/ (p = l /\ k = Len(t[l]) + 1 /\ u[p][k] = b)
      <3>1. SUFFICES ASSUME NEW p \in 1..Len(t), NEW k \in 1..Len(u[p])
                     PROVE  (k \in 1..Len(t[p]) /\ u[p][k] = t[p][k]) \/ (p = l /\ k = Len(t[l]) + 1 /\ u[p][k] = b)
        OBVIOUS
      <3>2. CASE p # l
        BY <3>2, <1>2
      <3>3. CASE p = l
        <4>1. k \in 1..(Len(t[l]) + 1) /\ Len(t[l]) \in Nat
          BY <3>3, <1>0, <1>3
        <4>2. k = Len(t[l]) + 1 \/ k \in 1..Len(t[l])
          BY <4>1
        <4> QED BY <4>2, <3>3, <1>3
      <3> QED BY <3>2, <3>3
    <2>3. (i \in 1..Len(t[m]) /\ u[m][i] = t[m][i]) \/ (m = l /\ i = Len(t[l]) + 1 /\ u[m][i] = b)
      BY <2>2
    <2>4. (j \in 1..Len(t[n]) /\ u[n][j] = t[n][j]) \/ (n = l /\ j = Len(t[l]) + 1 /\ u[n][j] = b)
      BY <2>2
    <2> QED BY <2>1, <2>3, <2>4, <1>4, SMTT(60) DEF Levels
  <1>6. Levels(r, u)
    <2>1. u[1] = <<r>> /\ Len(u) \in 1..MaxTree
      BY <1>0, <1>1, <1>2 DEF Levels
    <2>2. \A m \in 1..Len(t) : Len(t[m]) >= 1
      BY LevelTypes
    <2>3. Len(u[l]) >= 1
      BY <1>0, <1>3
    <2>4. \A m \in 1..Len(u) : Len(u[m]) >= 1
      BY <2>2, <2>3, <1>1, <1>2
    <2> QED BY <1>1, <2>1, <2>4, <1>5 DEF Levels
  <1>7. \A c : c \in Free!Blocks(u) <=> c \in Free!Blocks(t) \/ c = b
    <2>1. SUFFICES ASSUME NEW c PROVE c \in Free!Blocks(u) <=> c \in Free!Blocks(t) \/ c = b
      OBVIOUS
    <2>2. c \in Free!Blocks(u) <=> \E m \in 1..Len(u) : \E i \in 1..Len(u[m]) : c = u[m][i]
      BY <1>6, BlocksAre
    <2>3. c \in Free!Blocks(t) <=> \E m \in 1..Len(t) : \E i \in 1..Len(t[m]) : c = t[m][i]
      BY BlocksAre
    <2>4. ASSUME c \in Free!Blocks(u) PROVE c \in Free!Blocks(t) \/ c = b
      <3>0. PICK m \in 1..Len(t) : \E i \in 1..Len(u[m]) : c = u[m][i]
        BY <2>2, <2>4, <1>1
      <3>1. PICK i \in 1..Len(u[m]) : c = u[m][i]
        BY <3>0
      <3>2. CASE m # l
        BY <3>1, <3>2, <2>3, <1>2
      <3>3. CASE m = l
        BY <3>1, <3>3, <2>3, <1>0, <1>3
      <3> QED BY <3>2, <3>3
    <2>5. ASSUME c \in Free!Blocks(t) PROVE c \in Free!Blocks(u)
      <3>0. PICK m \in 1..Len(t) : \E i \in 1..Len(t[m]) : c = t[m][i]
        BY <2>3, <2>5
      <3>1. PICK i \in 1..Len(t[m]) : c = t[m][i]
        BY <3>0
      <3>2. i \in 1..Len(u[m]) /\ u[m][i] = t[m][i]
        <4>1. CASE m = l
          BY <4>1, <1>0, <1>3
        <4>2. CASE m # l
          BY <4>2, <1>2
        <4> QED BY <4>1, <4>2
      <3> QED BY <3>1, <3>2, <2>2, <1>1
    <2>6. b \in Free!Blocks(u)
      <3>1. Len(t[l]) + 1 \in 1..Len(u[l])
        BY <1>0, <1>3
      <3>2. \E i \in 1..Len(u[l]) : b = u[l][i]
        BY <3>1, <1>3
      <3> QED BY <3>2, <1>0, <1>1, <1>6, BlocksAre
    <2> QED BY <2>4, <2>5, <2>6
  <1> QED BY <1>6, <1>7 DEF u

LEMMA Deepened ==
  ASSUME NEW r \in Free!Blk, NEW t, Levels(r, t), NEW b \in Free!Blk, b \notin Free!Blocks(t),
         Len(t) < MaxTree
  PROVE  LET u == <<t[1], <<b>> >> \o Tail(t)
         IN  Levels(r, u) /\ Free!Blocks(u) = Free!Blocks(t) \union {b}
  <1> DEFINE u == <<t[1], <<b>> >> \o Tail(t)
             At(m) == IF m = 1 THEN 1 ELSE m + 1
  <1>0. /\ Len(t) \in Nat /\ Len(t) >= 1 /\ DOMAIN t = 1..Len(t)
        /\ \A m \in 1..Len(t) : Len(t[m]) \in Nat /\ t[m] \in Seq(Free!Blk)
    BY LevelTypes
  <1>1. /\ u \in Seq(Seq(Free!Blk)) /\ Len(u) = Len(t) + 1 /\ u[1] = t[1] /\ u[2] = <<b>>
        /\ \A m \in 2..Len(t) : u[m + 1] = t[m]
    <2>1. t \in Seq(Seq(Free!Blk)) /\ t # <<>>
      BY <1>0 DEF Levels
    <2>2. /\ Tail(t) \in Seq(Seq(Free!Blk)) /\ Len(Tail(t)) = Len(t) - 1
          /\ \A m \in 1..(Len(t) - 1) : Tail(t)[m] = t[m + 1]
      BY <2>1, <1>0
    <2>3. <<t[1], <<b>> >> \in Seq(Seq(Free!Blk))
      BY <1>0
    <2>4. /\ u \in Seq(Seq(Free!Blk)) /\ Len(u) = 2 + Len(Tail(t))
          /\ u[1] = t[1] /\ u[2] = <<b>>
          /\ \A m \in 1..Len(Tail(t)) : u[2 + m] = Tail(t)[m]
      <3> DEFINE v == <<t[1], <<b>> >>
                 w == Tail(t)
      <3>1. v \in Seq(Seq(Free!Blk)) /\ Len(v) = 2 /\ v[1] = t[1] /\ v[2] = <<b>> /\ w \in Seq(Seq(Free!Blk)) /\ Len(w) \in Nat
        BY <2>2, <2>3, <1>0
      <3> HIDE DEF v, w
      <3>4. 1 \in 1..(2 + Len(w)) /\ 2 \in 1..(2 + Len(w))
              /\ \A m \in 1..Len(w) : 2 + m \in 1..(2 + Len(w)) /\ ~(2 + m <= 2) /\ (2 + m) - 2 = m
        BY <3>1
      <3> DEFINE x == v \o w
      <3>7. x \in Seq(Seq(Free!Blk)) /\ Len(x) = Len(v) + Len(w)
        BY <3>1, Joined
      <3>8. \A m \in 1..(Len(v) + Len(w)) : x[m] = IF m <= Len(v) THEN v[m] ELSE w[m - Len(v)]
        BY <3>1, Joined
      <3> HIDE DEF x
      <3>5. x[1] = v[1] /\ x[2] = v[2]
        BY <3>1, <3>8, <3>4
      <3>6. \A m \in 1..Len(w) : x[2 + m] = w[m]
        <4>1. SUFFICES ASSUME NEW m \in 1..Len(w) PROVE x[2 + m] = w[m]
          OBVIOUS
        <4>2. x[2 + m] = w[(2 + m) - 2]
          BY <3>1, <3>8, <3>4
        <4> QED BY <4>2, <3>4
      <3> QED BY <3>1, <3>5, <3>6, <3>7 DEF v, w, x
    <2> HIDE DEF u
    <2>5. \A m \in 2..Len(t) : u[m + 1] = t[m]
      <3>1. SUFFICES ASSUME NEW m \in 2..Len(t) PROVE u[m + 1] = t[m]
        OBVIOUS
      <3>2. m - 1 \in 1..Len(Tail(t)) /\ 2 + (m - 1) = m + 1 /\ (m - 1) + 1 = m /\ m - 1 \in 1..(Len(t) - 1)
        BY <2>2, <1>0
      <3> QED BY <3>2, <2>2, <2>4, ZenonT(60)
    <2> QED BY <2>2, <2>4, <2>5, <1>0
  <1>2. \A m \in 1..Len(t) : At(m) \in 1..Len(u) /\ At(m) # 2 /\ u[At(m)] = t[m]
    BY <1>0, <1>1
  <1>3. \A n \in 1..Len(u) : n = 2 \/ \E m \in 1..Len(t) : n = At(m)
    <2>1. SUFFICES ASSUME NEW n \in 1..Len(u), n # 2 PROVE \E m \in 1..Len(t) : n = At(m)
      OBVIOUS
    <2>2. CASE n = 1
      BY <2>2, <1>0
    <2>3. CASE n # 1
      <3>1. n - 1 \in 1..Len(t) /\ n - 1 # 1 /\ (n - 1) + 1 = n
        BY <2>1, <2>3, <1>0, <1>1
      <3> QED BY <3>1
    <2> QED BY <2>2, <2>3
  <1>4. \A m, n \in 1..Len(t) : At(m) = At(n) => m = n
    BY <1>0
  <1>5. \A m \in 1..Len(t) : \A i \in 1..Len(t[m]) : t[m][i] # b
    BY BlocksAre
  <1>6. Len(u[2]) = 1 /\ u[2][1] = b
    BY <1>1
  <1> HIDE DEF u, At
  <1>7. \A m, n \in 1..Len(u) : \A i \in 1..Len(u[m]), j \in 1..Len(u[n]) : u[m][i] = u[n][j] => m = n /\ i = j
    <2>1. SUFFICES ASSUME NEW m \in 1..Len(u), NEW n \in 1..Len(u), NEW i \in 1..Len(u[m]), NEW j \in 1..Len(u[n]),
                          u[m][i] = u[n][j]
                   PROVE  m = n /\ i = j
      OBVIOUS
    <2>2. \A p \in 1..Len(u) : \A k \in 1..Len(u[p]) :
            (p = 2 /\ k = 1 /\ u[p][k] = b)
              \/ \E q \in 1..Len(t) : p = At(q) /\ k \in 1..Len(t[q]) /\ u[p][k] = t[q][k]
      <3>1. SUFFICES ASSUME NEW p \in 1..Len(u), NEW k \in 1..Len(u[p])
                     PROVE  (p = 2 /\ k = 1 /\ u[p][k] = b)
                              \/ \E q \in 1..Len(t) : p = At(q) /\ k \in 1..Len(t[q]) /\ u[p][k] = t[q][k]
        OBVIOUS
      <3>2. CASE p = 2
        BY <3>2, <1>6
      <3>3. CASE p # 2
        <4>1. PICK q \in 1..Len(t) : p = At(q)
          BY <3>3, <1>3
        <4> QED BY <4>1, <1>2
      <3> QED BY <3>2, <3>3
    <2>3. (m = 2 /\ i = 1 /\ u[m][i] = b)
              \/ \E q \in 1..Len(t) : m = At(q) /\ i \in 1..Len(t[q]) /\ u[m][i] = t[q][i]
      BY <2>2
    <2>4. (n = 2 /\ j = 1 /\ u[n][j] = b)
              \/ \E q \in 1..Len(t) : n = At(q) /\ j \in 1..Len(t[q]) /\ u[n][j] = t[q][j]
      BY <2>2
    <2>5. \A p, q \in 1..Len(t) : \A k \in 1..Len(t[p]), e \in 1..Len(t[q]) : t[p][k] = t[q][e] => p = q /\ k = e
      BY DEF Levels
    <2> QED BY <2>1, <2>3, <2>4, <2>5, <1>5, SMTT(60)
  <1>8. Levels(r, u)
    <2>1. Len(u) \in 1..MaxTree
      BY <1>0, <1>1, Sizes
    <2>2. u[1] = <<r>>
      BY <1>1 DEF Levels
    <2>3. \A n \in 1..Len(u) : Len(u[n]) >= 1
      <3>1. \A m \in 1..Len(t) : Len(t[m]) >= 1
        BY LevelTypes
      <3> QED BY <3>1, <1>2, <1>3, <1>6, SMTT(60)
    <2> QED BY <2>1, <2>2, <2>3, <1>1, <1>7 DEF Levels
  <1>9. \A c : c \in Free!Blocks(u) <=> c \in Free!Blocks(t) \/ c = b
    <2>1. SUFFICES ASSUME NEW c PROVE c \in Free!Blocks(u) <=> c \in Free!Blocks(t) \/ c = b
      OBVIOUS
    <2>2. c \in Free!Blocks(u) <=> \E m \in 1..Len(u) : \E i \in 1..Len(u[m]) : c = u[m][i]
      BY <1>8, BlocksAre
    <2>3. c \in Free!Blocks(t) <=> \E m \in 1..Len(t) : \E i \in 1..Len(t[m]) : c = t[m][i]
      BY BlocksAre
    <2>4. ASSUME c \in Free!Blocks(u) PROVE c \in Free!Blocks(t) \/ c = b
      <3>0. PICK n \in 1..Len(u) : \E i \in 1..Len(u[n]) : c = u[n][i]
        BY <2>2, <2>4
      <3>1. PICK i \in 1..Len(u[n]) : c = u[n][i]
        BY <3>0
      <3>2. CASE n = 2
        BY <3>1, <3>2, <1>6
      <3>3. CASE n # 2
        <4>1. PICK m \in 1..Len(t) : n = At(m)
          BY <3>3, <1>3
        <4> QED BY <4>1, <3>1, <1>2, <2>3
      <3> QED BY <3>2, <3>3
    <2>5. ASSUME c \in Free!Blocks(t) PROVE c \in Free!Blocks(u)
      BY <2>2, <2>3, <2>5, <1>2
    <2>6. 2 \in 1..Len(u) /\ 1 \in 1..Len(u[2])
      BY <1>0, <1>1, <1>6
    <2> QED BY <2>2, <2>4, <2>5, <2>6, <1>6
  <1> QED BY <1>8, <1>9 DEF u

LEMMA TakenOut ==
  ASSUME NEW S, NEW s \in Seq(S), NEW i \in 1..Len(s)
  PROVE  /\ Free!RemoveAt(s, i) \in Seq(S) /\ Len(Free!RemoveAt(s, i)) = Len(s) - 1
         /\ \A j \in 1..(Len(s) - 1) : Free!RemoveAt(s, i)[j] = IF j < i THEN s[j] ELSE s[j + 1]
  <1> DEFINE v == SubSeq(s, 1, i - 1)
             w == SubSeq(s, i + 1, Len(s))
  <1>1. /\ v \in Seq(S) /\ Len(v) = i - 1 /\ \A j \in 1..(i - 1) : v[j] = s[j]
    OBVIOUS
  <1>2. /\ w \in Seq(S) /\ Len(w) = Len(s) - i /\ \A j \in 1..(Len(s) - i) : w[j] = s[j + i]
    OBVIOUS
  <1>3. Free!RemoveAt(s, i) = v \o w
    BY DEF Free!RemoveAt
  <1> HIDE DEF v, w
  <1>4. /\ v \o w \in Seq(S) /\ Len(v \o w) = Len(v) + Len(w)
        /\ \A j \in 1..(Len(v) + Len(w)) : (v \o w)[j] = IF j <= Len(v) THEN v[j] ELSE w[j - Len(v)]
    BY <1>1, <1>2, Joined
  <1> DEFINE x == v \o w
  <1> HIDE DEF x
  <1>5. /\ x \in Seq(S) /\ Len(x) = Len(s) - 1
        /\ \A j \in 1..(Len(s) - 1) : x[j] = IF j <= i - 1 THEN v[j] ELSE w[j - (i - 1)]
    <2>1. Len(v) + Len(w) = Len(s) - 1 /\ Len(v) = i - 1
      BY <1>1, <1>2
    <2> QED BY <2>1, <1>4 DEF x
  <1>6. \A j \in 1..(Len(s) - 1) : x[j] = IF j < i THEN s[j] ELSE s[j + 1]
    <2>1. SUFFICES ASSUME NEW j \in 1..(Len(s) - 1) PROVE x[j] = IF j < i THEN s[j] ELSE s[j + 1]
      OBVIOUS
    <2>2. CASE j < i
      BY <2>2, <1>1, <1>5
    <2>3. CASE ~(j < i)
      <3>1. j - (i - 1) \in 1..(Len(s) - i) /\ (j - (i - 1)) + i = j + 1 /\ ~(j <= i - 1)
        BY <2>3
      <3>2. x[j] = w[j - (i - 1)] /\ w[j - (i - 1)] = s[(j - (i - 1)) + i]
        BY <3>1, <1>2, <1>5
      <3> QED BY <3>1, <3>2, <2>3
    <2> QED BY <2>2, <2>3
  <1> QED BY <1>3, <1>5, <1>6 DEF x

Without(t, l, i) == [t EXCEPT ![l] = Free!RemoveAt(@, i)]
LEMMA Removed ==
  ASSUME NEW r \in Free!Blk, NEW t, Levels(r, t), NEW l \in 2..Len(t), NEW i \in 1..Len(t[l]), Len(t[l]) > 1
  PROVE  Levels(r, Without(t, l, i)) /\ Free!Blocks(Without(t, l, i)) = Free!Blocks(t) \ {t[l][i]}
  <1> DEFINE u == [t EXCEPT ![l] = Free!RemoveAt(@, i)]
             Was(j) == IF j < i THEN j ELSE j + 1
  <1>0. /\ Len(t) \in Nat /\ l \in 1..Len(t) /\ l # 1 /\ DOMAIN t = 1..Len(t)
        /\ \A m \in 1..Len(t) : Len(t[m]) \in Nat /\ Len(t[m]) >= 1 /\ t[m] \in Seq(Free!Blk)
    BY LevelTypes
  <1>1. /\ Free!RemoveAt(t[l], i) \in Seq(Free!Blk) /\ Len(Free!RemoveAt(t[l], i)) = Len(t[l]) - 1
        /\ \A j \in 1..(Len(t[l]) - 1) : Free!RemoveAt(t[l], i)[j] = IF j < i THEN t[l][j] ELSE t[l][j + 1]
    BY <1>0, TakenOut
  <1>2. u \in Seq(Seq(Free!Blk)) /\ Len(u) = Len(t)
    BY <1>0, <1>1 DEF Levels
  <1>3. /\ \A m \in 1..Len(t) : m # l => u[m] = t[m]
        /\ u[l] = Free!RemoveAt(t[l], i)
    BY <1>0
  <1>4. /\ Len(u[l]) = Len(t[l]) - 1
        /\ \A j \in 1..(Len(t[l]) - 1) : Was(j) \in 1..Len(t[l]) /\ Was(j) # i /\ u[l][j] = t[l][Was(j)]
    BY <1>0, <1>1, <1>3
  <1>5. \A j, k \in 1..(Len(t[l]) - 1) : Was(j) = Was(k) => j = k
    BY <1>0
  <1>6. \A k \in 1..Len(t[l]) : k = i \/ \E j \in 1..(Len(t[l]) - 1) : k = Was(j)
    <2>1. SUFFICES ASSUME NEW k \in 1..Len(t[l]), k # i PROVE \E j \in 1..(Len(t[l]) - 1) : k = Was(j)
      OBVIOUS
    <2>2. CASE k < i
      <3>1. k \in 1..(Len(t[l]) - 1) /\ k = Was(k)
        BY <2>2, <1>0
      <3> QED BY <3>1
    <2>3. CASE k > i
      <3>1. k - 1 \in 1..(Len(t[l]) - 1) /\ k = Was(k - 1)
        BY <2>3, <1>0
      <3> QED BY <3>1
    <2> QED BY <2>1, <2>2, <2>3, <1>0
  <1> HIDE DEF u, Was
  <1>7. \A p \in 1..Len(t) : \A k \in 1..Len(u[p]) :
          \E j \in 1..Len(t[p]) : /\ u[p][k] = t[p][j] /\ (p = l => j # i)
                                  /\ (p # l => j = k) /\ (p = l => j = Was(k) /\ k \in 1..(Len(t[l]) - 1))
    <2>1. SUFFICES ASSUME NEW p \in 1..Len(t), NEW k \in 1..Len(u[p])
                   PROVE  \E j \in 1..Len(t[p]) : /\ u[p][k] = t[p][j] /\ (p = l => j # i)
                                  /\ (p # l => j = k) /\ (p = l => j = Was(k) /\ k \in 1..(Len(t[l]) - 1))
      OBVIOUS
    <2>2. CASE p = l
      BY <2>2, <1>4
    <2>3. CASE p # l
      BY <2>3, <1>3
    <2> QED BY <2>2, <2>3
  <1>8. \A m, n \in 1..Len(u) : \A a \in 1..Len(u[m]), b \in 1..Len(u[n]) : u[m][a] = u[n][b] => m = n /\ a = b
    <2>1. SUFFICES ASSUME NEW m \in 1..Len(t), NEW n \in 1..Len(t), NEW a \in 1..Len(u[m]), NEW b \in 1..Len(u[n]),
                          u[m][a] = u[n][b]
                   PROVE  m = n /\ a = b
      BY <1>2
    <2>2. PICK j \in 1..Len(t[m]) : /\ u[m][a] = t[m][j]
                                    /\ (m # l => j = a) /\ (m = l => j = Was(a) /\ a \in 1..(Len(t[l]) - 1))
      BY <1>7
    <2>3. PICK k \in 1..Len(t[n]) : /\ u[n][b] = t[n][k]
                                    /\ (n # l => k = b) /\ (n = l => k = Was(b) /\ b \in 1..(Len(t[l]) - 1))
      BY <1>7
    <2>4. t[m][j] = t[n][k]
      BY <2>1, <2>2, <2>3
    <2>5. m = n /\ j = k
      BY <2>4, SMTT(60) DEF Levels
    <2> QED BY <2>2, <2>3, <2>5, <1>5
  <1>9. Levels(r, u)
    <2>1. u[1] = <<r>> /\ Len(u) \in 1..MaxTree
      <3>1. 1 \in 1..Len(t) /\ u[1] = t[1]
        BY <1>0, <1>3
      <3> QED BY <3>1, <1>2 DEF Levels
    <2>2. Len(u[l]) >= 1
      BY <1>0, <1>4
    <2>3. \A m \in 1..Len(u) : Len(u[m]) >= 1
      BY <1>0, <2>2, <1>2, <1>3
    <2> QED BY <1>2, <2>1, <2>3, <1>8 DEF Levels
  <1>10. \A c : c \in Free!Blocks(u) <=> c \in Free!Blocks(t) /\ c # t[l][i]
    <2>1. SUFFICES ASSUME NEW c PROVE c \in Free!Blocks(u) <=> c \in Free!Blocks(t) /\ c # t[l][i]
      OBVIOUS
    <2>2. c \in Free!Blocks(u) <=> \E m \in 1..Len(u) : \E k \in 1..Len(u[m]) : c = u[m][k]
      BY <1>9, BlocksAre
    <2>3. c \in Free!Blocks(t) <=> \E m \in 1..Len(t) : \E k \in 1..Len(t[m]) : c = t[m][k]
      BY BlocksAre
    <2>4. ASSUME c \in Free!Blocks(u) PROVE c \in Free!Blocks(t) /\ c # t[l][i]
      <3>1. PICK m \in 1..Len(t) : \E k \in 1..Len(u[m]) : c = u[m][k]
        BY <2>2, <2>4, <1>2
      <3>2. PICK k \in 1..Len(u[m]) : c = u[m][k]
        BY <3>1
      <3>3. PICK j \in 1..Len(t[m]) : u[m][k] = t[m][j] /\ (m = l => j # i)
        BY <1>7
      <3>4. c # t[l][i]
        BY <3>2, <3>3, <1>0 DEF Levels
      <3> QED BY <3>2, <3>3, <3>4, <2>3
    <2>5. ASSUME c \in Free!Blocks(t), c # t[l][i] PROVE c \in Free!Blocks(u)
      <3>1. PICK m \in 1..Len(t) : \E k \in 1..Len(t[m]) : c = t[m][k]
        BY <2>3, <2>5
      <3>2. PICK k \in 1..Len(t[m]) : c = t[m][k]
        BY <3>1
      <3>3. CASE m = l
        <4>1. k # i
          BY <3>2, <3>3, <2>5
        <4>2. PICK j \in 1..(Len(t[l]) - 1) : k = Was(j)
          BY <4>1, <3>3, <1>6
        <4>3. j \in 1..Len(u[l]) /\ u[l][j] = c
          BY <4>2, <3>2, <3>3, <1>4
        <4> QED BY <4>3, <2>2, <1>0, <1>2
      <3>4. CASE m # l
        BY <3>2, <3>4, <2>2, <1>2, <1>3
      <3> QED BY <3>3, <3>4
    <2> QED BY <2>4, <2>5
  <1> QED BY <1>9, <1>10 DEF u, Without

\* Of some blocks with ranks, one has the highest.
LEMMA Highest ==
  ASSUME NEW G, NEW rk, NEW bound \in Nat, G # {}, \A c \in G : rk[c] \in Nat /\ rk[c] <= bound
  PROVE  \E m \in G : \A c \in G : rk[c] <= rk[m]
  <1> DEFINE J == {bound - rk[c] : c \in G}
  <1>1. J \in SUBSET Nat /\ J # {}
    OBVIOUS
  <1>2. PICK j \in J : \A k \in J : j <= k
    BY <1>1, Least
  <1>3. PICK m \in G : j = bound - rk[m]
    BY <1>2
  <1>4. \A c \in G : bound - rk[m] <= bound - rk[c]
    BY <1>2, <1>3
  <1> QED BY <1>4

\* The free list, with a block more or less.
LEMMA ChainSame ==
  ASSUME NEW d, NEW e, NEW free, NEW F \in SUBSET Free!Blk, FreeChain(d, free, F), \A c \in F : e[c] = d[c]
  PROVE  FreeChain(e, free, F)
  <1>1. PICK rk \in [Free!Blk -> Nat] : Ranked(d, free, F, rk)
    BY DEF FreeChain
  <1>2. \A c \in F : NextFree(e, c) = NextFree(d, c)
    BY DEF NextFree
  <1>3. Ranked(e, free, F, rk)
    BY <1>1, <1>2 DEF Ranked
  <1> QED BY <1>3 DEF FreeChain

LEMMA ChainEnds ==
  ASSUME NEW d, NEW free, NEW F \in SUBSET Free!Blk, FreeChain(d, free, F)
  PROVE  /\ free = 0 <=> F = {}
         /\ F # {} => free \in F
         /\ \A b \in F : d[b].root = 0 \/ (d[b].root \in F /\ d[d[b].root].root = 0)
         /\ free # 0 => NextFree(d, free) \in F \union {0} /\ NextFree(d, free) # free
  <1>1. PICK rk \in [Free!Blk -> Nat] : Ranked(d, free, F, rk)
    BY DEF FreeChain
  <1>2. \A b \in F : rk[b] \in Nat /\ rk[free] \in Nat
    BY <1>1 DEF Ranked
  <1> QED BY <1>1, <1>2 DEF Ranked

LEMMA ChainPush ==
  ASSUME NEW d, NEW e, NEW free, NEW F \in SUBSET Free!Blk, FreeChain(d, free, F),
         NEW b \in Free!Blk, b \notin F, \A c \in F : e[c] = d[c], e[b].root = 0, e[b].son = free
  PROVE  FreeChain(e, b, F \union {b})
  <1>1. PICK rk \in [Free!Blk -> Nat] : Ranked(d, free, F, rk)
    BY DEF FreeChain
  <1> DEFINE top == IF F = {} THEN 1 ELSE rk[free] + 1
             up == [c \in Free!Blk |-> IF c = b THEN top ELSE rk[c]]
  <1>2. top \in Nat /\ \A c \in F : rk[c] \in Nat /\ rk[c] < top
    BY <1>1 DEF Ranked
  <1>3. up \in [Free!Blk -> Nat] /\ up[b] = top /\ \A c \in F : up[c] = rk[c]
    BY <1>2
  <1>4. NextFree(e, b) = free /\ \A c \in F : NextFree(e, c) = NextFree(d, c)
    BY DEF NextFree
  <1>5. b # 0
    BY Sizes
  <1>6. \A c \in F \union {b} : up[c] \in Nat /\ up[c] <= up[b]
    BY <1>2, <1>3
  <1>7. \A c \in F \union {b} : NextFree(e, c) = 0 \/ (NextFree(e, c) \in F \union {b} /\ up[NextFree(e, c)] < up[c])
    <2>1. SUFFICES ASSUME NEW c \in F \union {b}
                   PROVE  NextFree(e, c) = 0 \/ (NextFree(e, c) \in F \union {b} /\ up[NextFree(e, c)] < up[c])
      OBVIOUS
    <2>2. CASE c = b
      <3>1. free = 0 \/ free \in F
        BY <1>1 DEF Ranked
      <3> QED BY <2>2, <3>1, <1>2, <1>3, <1>4
    <2>3. CASE c \in F
      BY <2>3, <1>1, <1>3, <1>4 DEF Ranked
    <2> QED BY <2>2, <2>3
  <1>8. \A c \in (F \union {b}) \ {b} : \E a \in F \union {b} : NextFree(e, a) = c
    <2>1. SUFFICES ASSUME NEW c \in F PROVE \E a \in F \union {b} : NextFree(e, a) = c
      OBVIOUS
    <2>2. CASE c = free
      BY <2>2, <1>4
    <2>3. CASE c # free
      BY <2>3, <1>1, <1>4 DEF Ranked
    <2> QED BY <2>2, <2>3
  <1>9. \A c \in F \union {b} : e[c].root = 0 \/ (e[c].root \in F \union {b} /\ e[e[c].root].root = 0 /\ up[e[c].root] < up[c])
    BY <1>1, <1>3 DEF Ranked
  <1>10. Ranked(e, b, F \union {b}, up)
    <2> HIDE DEF up
    <2> QED BY <1>5, <1>6, <1>7, <1>8, <1>9 DEF Ranked
  <1> HIDE DEF up
  <1> QED BY <1>3, <1>10 DEF FreeChain

LEMMA ChainPop ==
  ASSUME NEW d, NEW e, NEW free, NEW F \in SUBSET Free!Blk, FreeChain(d, free, F), free # 0,
         \A c \in F \ {free} : e[c] = d[c]
  PROVE  FreeChain(e, NextFree(d, free), F \ {free})
  <1>1. PICK rk \in [Free!Blk -> Nat] : Ranked(d, free, F, rk)
    BY DEF FreeChain
  <1> DEFINE next == NextFree(d, free)
  <1>2. free \in F /\ F # {}
    BY <1>1 DEF Ranked
  <1>3. \A c \in F : rk[c] \in Nat /\ rk[c] <= rk[free]
    BY <1>1 DEF Ranked
  <1>4. \A c \in F \ {free} : NextFree(e, c) = NextFree(d, c)
    BY DEF NextFree
  <1>5. \A c \in F : NextFree(d, c) # free
    BY <1>1, <1>2, <1>3, Sizes DEF Ranked
  <1>6. \A c \in F \ {free} : NextFree(e, c) = 0 \/ (NextFree(e, c) \in F \ {free} /\ rk[NextFree(e, c)] < rk[c])
    BY <1>1, <1>4, <1>5 DEF Ranked
  <1>7. next = 0 \/ next \in F \ {free}
    BY <1>1, <1>2, <1>5 DEF Ranked
  <1>8. \A c \in (F \ {free}) \ {next} : \E a \in F \ {free} : NextFree(e, a) = c
    <2>1. SUFFICES ASSUME NEW c \in F \ {free}, c # next PROVE \E a \in F \ {free} : NextFree(e, a) = c
      OBVIOUS
    <2>2. PICK a \in F : NextFree(d, a) = c
      BY <2>1, <1>1 DEF Ranked
    <2> QED BY <2>1, <2>2, <1>4
  <1>9. \A c \in F \ {free} : d[c].root # free
    BY <1>1, <1>2, <1>3, Sizes, SMTT(60) DEF Ranked
  <1>10. \A c \in F \ {free} :
           e[c].root = 0 \/ (e[c].root \in F \ {free} /\ e[e[c].root].root = 0 /\ rk[e[c].root] < rk[c])
    BY <1>1, <1>9 DEF Ranked
  <1>11. F \ {free} # {} => next \in F \ {free} /\ \A c \in F \ {free} : rk[c] <= rk[next]
    <2>1. SUFFICES ASSUME F \ {free} # {} PROVE next \in F \ {free} /\ \A c \in F \ {free} : rk[c] <= rk[next]
      OBVIOUS
    <2>2. PICK m \in F \ {free} : \A c \in F \ {free} : rk[c] <= rk[m]
      <3> DEFINE G == F \ {free}
                 top == rk[free]
      <3>1. top \in Nat /\ G # {} /\ \A c \in G : rk[c] \in Nat /\ rk[c] <= top
        BY <2>1, <1>2, <1>3
      <3> HIDE DEF G, top
      <3>2. \E m \in G : \A c \in G : rk[c] <= rk[m]
        BY <3>1, Highest
      <3> QED BY <3>2 DEF G
    <2>3. m = next
      <3>1. SUFFICES ASSUME m # next PROVE FALSE
        OBVIOUS
      <3>2. PICK a \in F \ {free} : NextFree(e, a) = m
        BY <3>1, <1>8
      <3>3. rk[m] < rk[a] /\ rk[a] <= rk[m] /\ rk[a] \in Nat /\ rk[m] \in Nat
        <4>1. m # 0
          BY Sizes
        <4> QED BY <4>1, <3>2, <2>2, <1>3, <1>6
      <3> QED BY <3>3
    <2> QED BY <2>2, <2>3
  <1>12. F \ {free} = {} => next = 0
    BY <1>7
  <1>13. next = 0 <=> F \ {free} = {}
    BY <1>11, <1>12, Sizes
  <1> HIDE DEF next
  <1>14. Ranked(e, next, F \ {free}, rk)
    BY <1>6, <1>8, <1>10, <1>11, <1>13 DEF Ranked
  <1> QED BY <1>14 DEF FreeChain, next

LEMMA LevelShort ==
  ASSUME NEW r \in Free!Blk, NEW t, Levels(r, t), NEW l \in 1..Len(t)
  PROVE  Len(t[l]) <= MaxBlk
  <1> DEFINE f == [i \in 1..Len(t[l]) |-> t[l][i]]
  <1>1. Len(t[l]) \in Nat /\ \A i \in 1..Len(t[l]) : t[l][i] \in Free!Blk
    BY LevelTypes
  <1>2. \A i, j \in 1..Len(t[l]) : f[i] = f[j] => i = j
    BY DEF Levels
  <1>3. f \in [1..Len(t[l]) -> Free!Blk]
    BY <1>1
  <1> HIDE DEF f
  <1>4. f \in Injection(1..Len(t[l]), Free!Blk)
    <2> DEFINE S == 1..Len(t[l])
    <2>1. f \in [S -> Free!Blk] /\ \A i, j \in S : f[i] = f[j] => i = j
      BY <1>2, <1>3
    <2> HIDE DEF S
    <2>2. f \in Injection(S, Free!Blk)
      BY <2>1 DEF Injection, IsInjective
    <2> QED BY <2>2 DEF S
  <1>5. IsFiniteSet(1..MaxBlk) /\ Cardinality(1..MaxBlk) = MaxBlk
    <2>1. MaxBlk \in Int /\ 1 \in Int /\ ~(1 > MaxBlk) /\ MaxBlk - 1 + 1 = MaxBlk
      BY Sizes
    <2> QED BY <2>1, FS_Interval
  <1>6. Cardinality(1..Len(t[l])) = Len(t[l])
    <2>1. Len(t[l]) \in Int /\ 1 \in Int /\ ~(1 > Len(t[l])) /\ Len(t[l]) - 1 + 1 = Len(t[l])
      BY LevelTypes
    <2> QED BY <2>1, FS_Interval
  <1>7. Cardinality(1..Len(t[l])) <= Cardinality(Free!Blk)
    BY <1>4, <1>5, FS_Injection, Sizes
  <1> QED BY <1>5, <1>6, <1>7, Sizes

\* A file deleted at once: the blocks of each level by their left brothers, and
\* from its first block to the last of the level above.
FromAbove(t, l, i) == IF i = 1 THEN t[l - 1][Len(t[l - 1])] ELSE t[l][i - 1]
Undone(e, r, t, free) ==
  /\ e[r].root = 0 /\ e[r].son = free
  /\ \A l \in 2..Len(t) : \A i \in 1..Len(t[l]) : e[t[l][i]].root = r /\ e[t[l][i]].lbro = FromAbove(t, l, i)

LastOf(t) == t[Len(t)][Len(t[Len(t)])]

Height(t, b) == CHOOSE n \in Nat : \E l \in 1..Len(t) : \E i \in 1..Len(t[l]) : b = t[l][i] /\ n = l * (MaxBlk + 1) + i

LEMMA HeightIs ==
  ASSUME NEW r \in Free!Blk, NEW t, Levels(r, t), NEW l \in 1..Len(t), NEW i \in 1..Len(t[l])
  PROVE  Height(t, t[l][i]) = l * (MaxBlk + 1) + i /\ Height(t, t[l][i]) \in Nat
  <1> DEFINE b == t[l][i]
             h == l * (MaxBlk + 1) + i
  <1>1. l \in Nat /\ i \in Nat /\ MaxBlk + 1 \in Nat
    BY LevelTypes, Sizes
  <1>2. h \in Nat
    BY <1>1
  <1>3. \A m \in 1..Len(t) : \A j \in 1..Len(t[m]) : b = t[m][j] => m = l /\ j = i
    BY DEF Levels
  <1>4. \A n \in Nat : (\E m \in 1..Len(t) : \E j \in 1..Len(t[m]) : b = t[m][j] /\ n = m * (MaxBlk + 1) + j) <=> n = h
    BY <1>3
  <1> HIDE DEF b, h
  <1>5. Height(t, b) = h
    BY <1>2, <1>4 DEF Height
  <1> QED BY <1>2, <1>5 DEF b, h

LEMMA Higher ==
  ASSUME NEW r \in Free!Blk, NEW t, Levels(r, t), NEW l \in 1..Len(t), NEW i \in 1..Len(t[l])
  PROVE  /\ i > 1 => Height(t, t[l][i - 1]) < Height(t, t[l][i])
         /\ l > 1 => \A j \in 1..Len(t[l - 1]) : Height(t, t[l - 1][j]) < Height(t, t[l][i])
         /\ l > 1 => Height(t, r) < Height(t, t[l][i])
         /\ Height(t, t[l][i]) <= Height(t, LastOf(t))
  <1>0. /\ MaxBlk + 1 \in Nat /\ Len(t) \in Nat /\ l \in Nat /\ i \in Nat /\ i <= MaxBlk
        /\ \A m \in 1..Len(t) : \A j \in 1..Len(t[m]) : j \in Nat /\ j <= MaxBlk
    <2>1. \A m \in 1..Len(t) : Len(t[m]) <= MaxBlk /\ Len(t[m]) \in Nat
      BY LevelShort, LevelTypes
    <2> QED BY <2>1, Sizes, LevelTypes
  <1> DEFINE W == MaxBlk + 1
  <1>1. \A m, n \in Nat : m < n => m * W + W <= n * W
    <2>1. SUFFICES ASSUME NEW m \in Nat, NEW n \in Nat, m < n PROVE m * W + W <= n * W
      OBVIOUS
    <2> DEFINE k == n - m - 1
    <2>2. k \in Nat /\ n = m + 1 + k
      BY <2>1
    <2> HIDE DEF k, W
    <2>3. W \in Nat
      BY <1>0 DEF W
    <2>4. n * W = m * W + W + k * W /\ k * W \in Nat /\ m * W \in Nat
      BY <2>2, <2>3
    <2> QED BY <2>3, <2>4
  <1>2. \A m \in 1..Len(t) : \A j \in 1..Len(t[m]) : Height(t, t[m][j]) = m * W + j /\ m * W \in Nat /\ m \in Nat
    <2>1. W \in Nat
      BY <1>0
    <2> QED BY <2>1, HeightIs, SMTT(60)
  <1>3. \A m, n \in 1..Len(t) : \A j \in 1..Len(t[m]), k \in 1..Len(t[n]) : m < n => Height(t, t[m][j]) < Height(t, t[n][k])
    <2>1. SUFFICES ASSUME NEW m \in 1..Len(t), NEW n \in 1..Len(t), NEW j \in 1..Len(t[m]), NEW k \in 1..Len(t[n]), m < n
                   PROVE  Height(t, t[m][j]) < Height(t, t[n][k])
      OBVIOUS
    <2>2. Height(t, t[m][j]) = m * W + j /\ Height(t, t[n][k]) = n * W + k /\ m * W \in Nat /\ n * W \in Nat /\ m \in Nat /\ n \in Nat
      BY <1>2
    <2>4. W \in Nat /\ j < W /\ j \in Nat /\ k \in Nat /\ k >= 1
      <3>1. j \in Nat /\ j <= MaxBlk /\ k \in Nat
        BY <1>0
      <3> QED BY <3>1, Sizes, LevelTypes
    <2> HIDE DEF W
    <2>3. m * W + W <= n * W
      BY <1>1, <2>1, <2>2
    <2> DEFINE a == m * W
               c == n * W
    <2>5. /\ Height(t, t[m][j]) = a + j /\ Height(t, t[n][k]) = c + k /\ a \in Nat /\ c \in Nat
          /\ a + W <= c
      BY <2>2, <2>3
    <2> HIDE DEF a, c
    <2> QED BY <2>4, <2>5
  <1>4. i > 1 => Height(t, t[l][i - 1]) < Height(t, t[l][i])
    <2>1. SUFFICES ASSUME i > 1 PROVE Height(t, t[l][i - 1]) < Height(t, t[l][i])
      OBVIOUS
    <2>2. i - 1 \in 1..Len(t[l])
      BY <2>1, LevelTypes
    <2>3. Height(t, t[l][i - 1]) = l * W + (i - 1) /\ Height(t, t[l][i]) = l * W + i /\ l * W \in Nat
      BY <2>2, <1>2
    <2> HIDE DEF W
    <2> QED BY <2>3, <1>0
  <1>5. l > 1 => l - 1 \in 1..Len(t) /\ 1 \in 1..Len(t) /\ 1 \in 1..Len(t[1]) /\ r = t[1][1]
    BY <1>0, LevelTypes DEF Levels
  <1>6. Height(t, t[l][i]) <= Height(t, LastOf(t))
    <2>1. Len(t) \in 1..Len(t) /\ Len(t[Len(t)]) \in 1..Len(t[Len(t)]) /\ Len(t[Len(t)]) \in Nat /\ i <= Len(t[l])
      BY LevelTypes
    <2>2. CASE l < Len(t)
      <3>1. Height(t, t[l][i]) < Height(t, LastOf(t))
        BY <2>1, <2>2, <1>3 DEF LastOf
      <3>2. Height(t, t[l][i]) \in Nat /\ Height(t, LastOf(t)) \in Nat
        BY <2>1, HeightIs DEF LastOf
      <3> QED BY <3>1, <3>2
    <2>3. CASE l = Len(t)
      <3>1. Height(t, LastOf(t)) = l * W + Len(t[l]) /\ Height(t, t[l][i]) = l * W + i /\ l * W \in Nat
        BY <2>1, <2>3, <1>2 DEF LastOf
      <3> HIDE DEF W
      <3> QED BY <3>1, <2>1, <2>3, <1>0
    <2> QED BY <2>2, <2>3, <1>0
  <1> QED BY <1>3, <1>4, <1>5, <1>6, <1>0, SMTT(60)

LEMMA ChainFile ==
  ASSUME NEW d, NEW e, NEW free, NEW F \in SUBSET Free!Blk, FreeChain(d, free, F),
         NEW r \in Free!Blk, NEW t, Levels(r, t), \A b \in Free!Blocks(t) : b \notin F,
         \A c \in F : e[c] = d[c], Undone(e, r, t, free)
  PROVE  FreeChain(e, LastOf(t), F \union Free!Blocks(t))
  <1>1. PICK rk \in [Free!Blk -> Nat] : Ranked(d, free, F, rk)
    BY DEF FreeChain
  <1> DEFINE T == Free!Blocks(t)
             G == F \union T
             last == LastOf(t)
             base == IF F = {} THEN 0 ELSE rk[free]
             up == [c \in Free!Blk |-> IF c \in T THEN base + Height(t, c) ELSE rk[c]]
  <1>2. /\ Len(t) \in Nat /\ r # 0
        /\ \A l \in 1..Len(t) : Len(t[l]) \in Nat /\ Len(t[l]) >= 1 /\ Len(t[l]) \in 1..Len(t[l]) /\ 1 \in 1..Len(t[l])
        /\ 1 \in 1..Len(t) /\ Len(t) \in 1..Len(t) /\ Len(t[1]) = 1 /\ t[1][1] = r
    BY LevelTypes, Sizes DEF Levels
  <1>3. /\ \A c : c \in T <=> \E l \in 1..Len(t) : \E i \in 1..Len(t[l]) : c = t[l][i]
        /\ T \subseteq Free!Blk /\ \A c \in T : c \notin F
    <2>1. \A c : c \in T <=> \E l \in 1..Len(t) : \E i \in 1..Len(t[l]) : c = t[l][i]
      BY BlocksAre
    <2>2. \A c \in T : c \notin F
      OBVIOUS
    <2> HIDE DEF T
    <2>3. T \subseteq Free!Blk
      BY <2>1, LevelTypes
    <2> QED BY <2>1, <2>2, <2>3
  <1>4. last \in T /\ r \in T
    BY <1>2, <1>3 DEF LastOf
  <1>5. base \in Nat /\ \A c \in F : rk[c] \in Nat /\ rk[c] <= base
    BY <1>1 DEF Ranked
  <1>6. \A c \in T : Height(t, c) \in Nat /\ Height(t, c) >= 1 /\ Height(t, c) <= Height(t, last) /\ (c # r => Height(t, r) < Height(t, c))
    <2>1. SUFFICES ASSUME NEW c \in T
                   PROVE  Height(t, c) \in Nat /\ Height(t, c) >= 1 /\ Height(t, c) <= Height(t, last) /\ (c # r => Height(t, r) < Height(t, c))
      OBVIOUS
    <2>2. PICK l \in 1..Len(t) : \E i \in 1..Len(t[l]) : c = t[l][i]
      BY <1>3
    <2>3. PICK i \in 1..Len(t[l]) : c = t[l][i]
      BY <2>2
    <2>4. /\ Height(t, c) = l * (MaxBlk + 1) + i /\ Height(t, c) \in Nat
          /\ Height(t, c) <= Height(t, last) /\ (l > 1 => Height(t, r) < Height(t, c))
      BY <2>3, HeightIs, Higher
    <2>5. l = 1 => c = r
      <3>1. \A k \in 1..1 : k = 1
        OBVIOUS
      <3> QED BY <3>1, <2>3, <1>2
    <2>6. Height(t, c) >= 1
      <3> DEFINE p == l * (MaxBlk + 1)
      <3>1. p \in Nat /\ i \in Nat /\ i >= 1 /\ Height(t, c) = p + i
        <4>1. l \in Nat /\ MaxBlk + 1 \in Nat
          BY Sizes
        <4> QED BY <4>1, <2>4, <1>2
      <3> HIDE DEF p
      <3> QED BY <3>1
    <2>7. l = 1 \/ l > 1
      OBVIOUS
    <2> QED BY <2>4, <2>5, <2>6, <2>7
  <1>7. /\ up \in [Free!Blk -> Nat]
        /\ \A c \in T : up[c] = base + Height(t, c)
        /\ \A c \in F : up[c] = rk[c]
    BY <1>3, <1>6, <1>5
  <1>8. \A c \in T : up[c] \in Nat /\ up[c] > base /\ up[c] <= up[last] /\ (c # r => up[r] < up[c])
    <2> HIDE DEF up, base, last, T
    <2> QED BY <1>4, <1>5, <1>6, <1>7
  <1>9. \A c \in F : NextFree(e, c) = NextFree(d, c)
    BY DEF NextFree
  <1>10. NextFree(e, r) = free
    BY DEF Undone, NextFree
  <1>11. \A l \in 2..Len(t) : \A i \in 1..Len(t[l]) : /\ NextFree(e, t[l][i]) = FromAbove(t, l, i)
                                                      /\ FromAbove(t, l, i) \in T /\ t[l][i] # r
                                                      /\ Height(t, FromAbove(t, l, i)) < Height(t, t[l][i])
    <2>1. SUFFICES ASSUME NEW l \in 2..Len(t), NEW i \in 1..Len(t[l])
                   PROVE  /\ NextFree(e, t[l][i]) = FromAbove(t, l, i) /\ FromAbove(t, l, i) \in T /\ t[l][i] # r
                          /\ Height(t, FromAbove(t, l, i)) < Height(t, t[l][i])
      OBVIOUS
    <2>2. e[t[l][i]].root = r /\ e[t[l][i]].lbro = FromAbove(t, l, i)
      BY DEF Undone
    <2>3. NextFree(e, t[l][i]) = FromAbove(t, l, i)
      BY <2>2, <1>2 DEF NextFree
    <2>4. t[l][i] # r
      <3>1. l \in 1..Len(t) /\ l # 1
        BY <1>2
      <3> QED BY <3>1, <1>2 DEF Levels
    <2>5. FromAbove(t, l, i) \in T /\ Height(t, FromAbove(t, l, i)) < Height(t, t[l][i])
      <3>0. l \in 1..Len(t) /\ l - 1 \in 1..Len(t) /\ l > 1
        BY <1>2
      <3>1. CASE i = 1
        <4>1. FromAbove(t, l, i) = t[l - 1][Len(t[l - 1])] /\ Len(t[l - 1]) \in 1..Len(t[l - 1])
          BY <3>0, <3>1, <1>2 DEF FromAbove
        <4>2. Height(t, t[l - 1][Len(t[l - 1])]) < Height(t, t[l][i])
          BY <4>1, <3>0, Higher
        <4> QED BY <4>1, <4>2, <3>0, <1>3
      <3>2. CASE i # 1
        <4>1. FromAbove(t, l, i) = t[l][i - 1] /\ i - 1 \in 1..Len(t[l]) /\ i > 1
          BY <3>0, <3>2, <1>2 DEF FromAbove
        <4>2. Height(t, t[l][i - 1]) < Height(t, t[l][i])
          BY <4>1, <3>0, Higher
        <4> QED BY <4>1, <4>2, <3>0, <1>3
      <3> QED BY <3>1, <3>2
    <2> QED BY <2>3, <2>4, <2>5
  <1>12. \A c \in T : c = r \/ \E l \in 2..Len(t) : \E i \in 1..Len(t[l]) : c = t[l][i]
    <2>1. SUFFICES ASSUME NEW c \in T, c # r PROVE \E l \in 2..Len(t) : \E i \in 1..Len(t[l]) : c = t[l][i]
      OBVIOUS
    <2>2. PICK l \in 1..Len(t) : \E i \in 1..Len(t[l]) : c = t[l][i]
      BY <1>3
    <2>3. l # 1
      <3>1. \A k \in 1..1 : k = 1
        OBVIOUS
      <3> QED BY <3>1, <2>1, <2>2, <1>2
    <2>4. l \in 2..Len(t)
      BY <2>3
    <2> QED BY <2>2, <2>4
  <1>13. \A c \in G : up[c] <= up[last]
    <2> HIDE DEF up, base, last, T
    <2> QED BY <1>4, <1>5, <1>7, <1>8
  <1>14. \A c \in G : NextFree(e, c) = 0 \/ (NextFree(e, c) \in G /\ up[NextFree(e, c)] < up[c])
    <2>1. \A c \in F : NextFree(e, c) = 0 \/ (NextFree(e, c) \in G /\ up[NextFree(e, c)] < up[c])
      BY <1>1, <1>7, <1>9 DEF Ranked
    <2>2. NextFree(e, r) = 0 \/ (NextFree(e, r) \in G /\ up[NextFree(e, r)] < up[r])
      <3>1. free = 0 \/ free \in F
        BY <1>1 DEF Ranked
      <3> HIDE DEF up, base, last, T
      <3> QED BY <3>1, <1>4, <1>5, <1>7, <1>8, <1>10
    <2>3. \A c \in T \ {r} : NextFree(e, c) \in G /\ up[NextFree(e, c)] < up[c]
      <3>1. SUFFICES ASSUME NEW c \in T, c # r PROVE NextFree(e, c) \in G /\ up[NextFree(e, c)] < up[c]
        OBVIOUS
      <3>2. PICK l \in 2..Len(t) : \E i \in 1..Len(t[l]) : c = t[l][i]
        BY <3>1, <1>12
      <3>3. PICK i \in 1..Len(t[l]) : c = t[l][i]
        BY <3>2
      <3>4. NextFree(e, c) \in T /\ Height(t, NextFree(e, c)) < Height(t, c)
        BY <3>3, <1>11
      <3> HIDE DEF up, base, last, T
      <3> QED BY <3>1, <3>4, <1>5, <1>6, <1>7
    <2> QED BY <2>1, <2>2, <2>3
  <1>15. \A c \in G \ {last} : \E a \in G : NextFree(e, a) = c
    <2>1. SUFFICES ASSUME NEW c \in G, c # last PROVE \E a \in G : NextFree(e, a) = c
      OBVIOUS
    <2>2. CASE c \in F /\ c = free
      BY <2>2, <1>4, <1>10
    <2>3. CASE c \in F /\ c # free
      BY <2>3, <1>1, <1>9 DEF Ranked
    <2>4. CASE c \in T
      <3>1. PICK l \in 1..Len(t) : \E i \in 1..Len(t[l]) : c = t[l][i]
        BY <2>4, <1>3
      <3>2. PICK i \in 1..Len(t[l]) : c = t[l][i]
        BY <3>1
      <3>3. CASE i < Len(t[l])
        <4>1. i + 1 \in 1..Len(t[l]) /\ i + 1 # 1 /\ (i + 1) - 1 = i
          BY <3>3, <1>2
        <4>2. l # 1
          <5>1. SUFFICES ASSUME l = 1 PROVE FALSE
            OBVIOUS
          <5>2. i < 1 /\ i \in 1..1
            BY <5>1, <3>3, <1>2
          <5> QED BY <5>2
        <4>3. l \in 2..Len(t)
          BY <4>2
        <4>4. NextFree(e, t[l][i + 1]) = c
          BY <4>1, <4>3, <3>2, <1>11 DEF FromAbove
        <4> QED BY <4>1, <4>4, <1>3
      <3>4. CASE i = Len(t[l]) /\ l < Len(t)
        <4>1. l + 1 \in 2..Len(t) /\ l + 1 \in 1..Len(t) /\ (l + 1) - 1 = l
          BY <3>4, <1>2
        <4>2. 1 \in 1..Len(t[l + 1])
          BY <4>1, <1>2
        <4>3. NextFree(e, t[l + 1][1]) = c
          BY <4>1, <4>2, <3>2, <3>4, <1>11 DEF FromAbove
        <4> QED BY <4>1, <4>2, <4>3, <1>3
      <3>5. CASE i = Len(t[l]) /\ l = Len(t)
        BY <3>5, <3>2, <2>1 DEF LastOf
      <3>6. i < Len(t[l]) \/ i = Len(t[l])
        BY <1>2
      <3>7. l < Len(t) \/ l = Len(t)
        BY <1>2
      <3> QED BY <3>3, <3>4, <3>5, <3>6, <3>7
    <2> QED BY <2>1, <2>2, <2>3, <2>4
  <1>16. \A c \in G : e[c].root = 0 \/ (e[c].root \in G /\ e[e[c].root].root = 0 /\ up[e[c].root] < up[c])
    <2>1. \A c \in F : e[c].root = 0 \/ (e[c].root \in G /\ e[e[c].root].root = 0 /\ up[e[c].root] < up[c])
      BY <1>1, <1>7 DEF Ranked
    <2>2. e[r].root = 0
      BY DEF Undone
    <2>3. \A c \in T \ {r} : e[c].root = r
      BY <1>12 DEF Undone
    <2> HIDE DEF up, base, last, T
    <2> QED BY <2>1, <2>2, <2>3, <1>4, <1>8
  <1>17. last # 0 /\ last \in G
    BY <1>3, <1>4, Sizes
  <1>18. Ranked(e, last, G, up)
    <2> HIDE DEF up, last, G
    <2> QED BY <1>13, <1>14, <1>15, <1>16, <1>17 DEF Ranked
  <1>19. up \in [Free!Blk -> Nat]
    BY <1>7
  <1> HIDE DEF up
  <1>20. FreeChain(e, last, G)
    BY <1>18, <1>19 DEF FreeChain
  <1> QED BY <1>20

\* The loop of instant delete, k levels below the root.
Descended(c, t, k) ==
  /\ c \in [disk : [Free!Blk -> Link], free : Free!Blk, left : 0..MaxBlk]
  /\ \A l \in 2..(k + 1) : c.disk[t[l][1]] = [links[t[l][1]] EXCEPT !.lbro = t[l - 1][Len(t[l - 1])]]
  /\ \A b \in Free!Blk : (\A l \in 2..(k + 1) : b # t[l][1]) => c.disk[b] = links[b]
  /\ c.free = t[k + 1][Len(t[k + 1])]
  /\ k + 1 < Len(t) => c.left = t[k + 2][1]

IsDown(q, r) ==
  q = [n \in 0..MaxTree |->
         IF n = 0 THEN [disk |-> links, free |-> r, left |-> links[r].son] ELSE Free!Down(q[n - 1])]
LEMMA ChainedIs ==
  ASSUME NEW r, NEW f, IsDown(f, r)
  PROVE  \E q : Free!Chained(r) = q[MaxTree] /\ IsDown(q, r)
  BY DEF Free!Chained, IsDown

LEMMA StartDown ==
  ASSUME links \in [Free!Blk -> Link], NEW r \in Free!Blk, NEW t, Levels(r, t), Placed(links, r, t)
  PROVE  Descended([disk |-> links, free |-> r, left |-> links[r].son], t, 0)
  <1>1. /\ 1 \in 1..Len(t) /\ 1 \in 1..Len(t[1]) /\ t[1][1] = r /\ Len(t[1]) = 1 /\ Len(t) \in Nat
    BY LevelTypes DEF Levels
  <1>2. Leads(links[r], r, t, 1, 1)
    BY <1>1 DEF Placed
  <1>3. links[r].son \in 0..MaxBlk /\ (1 < Len(t) => links[r].son = t[2][1])
    <2>1. links[r] \in Link
      OBVIOUS
    <2> QED BY <2>1, <1>1, <1>2 DEF Leads, Link
  <1> QED BY <1>1, <1>3 DEF Descended

LEMMA StepDown1 ==
  ASSUME links \in [Free!Blk -> Link], NEW r \in Free!Blk, NEW t, Levels(r, t), Placed(links, r, t),
         NEW k \in Nat, k + 1 < Len(t), NEW c, Descended(c, t, k)
  PROVE  Descended(Free!Down(c), t, k + 1)
  <1> DEFINE e == Free!Down(c)
             x == t[k + 1][Len(t[k + 1])]
             y == t[k + 2][1]
             z == t[k + 2][Len(t[k + 2])]
  <1>1. /\ k + 1 \in 1..Len(t) /\ k + 2 \in 1..Len(t) /\ Len(t) \in Nat
        /\ \A l \in 1..Len(t) : /\ 1 \in 1..Len(t[l]) /\ Len(t[l]) \in 1..Len(t[l])
                                /\ t[l][1] \in Free!Blk /\ t[l][Len(t[l])] \in Free!Blk
    BY LevelTypes
  <1>2. /\ c.free = x /\ c.left = y /\ x \in Free!Blk /\ y \in Free!Blk /\ z \in Free!Blk
        /\ c.disk \in [Free!Blk -> Link]
    BY <1>1 DEF Descended
  <1>3. \A b \in Free!Blk : /\ c.disk[b].stem = links[b].stem /\ c.disk[b].son = links[b].son
                            /\ c.disk[b].last = links[b].last
    <2>1. SUFFICES ASSUME NEW b \in Free!Blk
                   PROVE  /\ c.disk[b].stem = links[b].stem /\ c.disk[b].son = links[b].son
                          /\ c.disk[b].last = links[b].last
      OBVIOUS
    <2>2. links[b] \in Link
      OBVIOUS
    <2>3. CASE \E l \in 2..(k + 1) : b = t[l][1]
      <3>1. PICK l \in 2..(k + 1) : b = t[l][1]
        BY <2>3
      <3>2. c.disk[b] = [links[b] EXCEPT !.lbro = t[l - 1][Len(t[l - 1])]]
        BY <3>1 DEF Descended
      <3> QED BY <2>2, <3>2 DEF Link
    <2>4. CASE \A l \in 2..(k + 1) : b # t[l][1]
      BY <2>4 DEF Descended
    <2> QED BY <2>3, <2>4
  <1>4. links[x].stem /\ links[x].last = z
    <2>1. Leads(links[x], r, t, k + 1, Len(t[k + 1]))
      BY <1>1 DEF Placed
    <2>2. (k + 1) + 1 = k + 2 /\ k + 1 < Len(t)
      OBVIOUS
    <2>3. links[x].stem = (k + 1 < Len(t))
      BY <2>1 DEF Leads
    <2>4. links[x].last = z
      BY <2>1, <2>2 DEF Leads
    <2> QED BY <2>2, <2>3, <2>4
  <1>5. links[y].son \in 0..MaxBlk /\ (k + 2 < Len(t) => links[y].son = t[k + 3][1])
    <2>1. Leads(links[y], r, t, k + 2, 1)
      BY <1>1 DEF Placed
    <2>2. links[y] \in Link
      BY <1>2
    <2> QED BY <2>1, <2>2, <1>1 DEF Leads, Link
  <1>6. e = [disk |-> [c.disk EXCEPT ![y].lbro = x], free |-> z, left |-> links[y].son]
    BY <1>2, <1>3, <1>4 DEF Free!Down
  <1>7. c.disk[y] = links[y]
    <2>1. \A l \in 2..(k + 1) : y # t[l][1]
      <3>1. SUFFICES ASSUME NEW l \in 2..(k + 1) PROVE y # t[l][1]
        OBVIOUS
      <3>2. l \in 1..Len(t) /\ l # k + 2
        BY <1>1
      <3> QED BY <3>2, <1>1 DEF Levels
    <2> QED BY <2>1, <1>2 DEF Descended
  <1>8. [links[y] EXCEPT !.lbro = x] \in Link
    <2>1. links[y] \in Link /\ x \in 0..MaxBlk
      BY <1>2, Sizes
    <2> QED BY <2>1 DEF Link
  <1>9. /\ e.disk[y] = [links[y] EXCEPT !.lbro = x]
        /\ \A b \in Free!Blk : b # y => e.disk[b] = c.disk[b]
        /\ e.disk \in [Free!Blk -> Link]
        /\ e.free = z /\ e.left = links[y].son
        /\ e \in [disk : [Free!Blk -> Link], free : Free!Blk, left : 0..MaxBlk]
    <2>1. [c.disk EXCEPT ![y].lbro = x] = [c.disk EXCEPT ![y] = [c.disk[y] EXCEPT !.lbro = x]]
      BY <1>2
    <2> DEFINE v == [links[y] EXCEPT !.lbro = x]
    <2>2. e.disk = [c.disk EXCEPT ![y] = v]
      BY <2>1, <1>6, <1>7
    <2> HIDE DEF v
    <2>3. v \in Link
      BY <1>8 DEF v
    <2>4. e.disk \in [Free!Blk -> Link] /\ e.disk[y] = v /\ \A b \in Free!Blk : b # y => e.disk[b] = c.disk[b]
      BY <2>2, <2>3, <1>2
    <2>5. e \in [disk : [Free!Blk -> Link], free : Free!Blk, left : 0..MaxBlk]
      BY <2>4, <1>2, <1>5, <1>6
    <2> QED BY <2>4, <2>5, <1>6 DEF v
  <1> HIDE DEF e
  <1>10. \A l \in 2..(k + 2) : l = k + 2 \/ l \in 2..(k + 1)
    OBVIOUS
  <1>11. \A l \in 2..(k + 2) : e.disk[t[l][1]] = [links[t[l][1]] EXCEPT !.lbro = t[l - 1][Len(t[l - 1])]]
    <2>1. SUFFICES ASSUME NEW l \in 2..(k + 2)
                   PROVE  e.disk[t[l][1]] = [links[t[l][1]] EXCEPT !.lbro = t[l - 1][Len(t[l - 1])]]
      OBVIOUS
    <2>2. CASE l = k + 2
      <3>1. l - 1 = k + 1
        BY <2>2
      <3> QED BY <2>2, <3>1, <1>9
    <2>3. CASE l \in 2..(k + 1)
      <3>1. l \in 1..Len(t) /\ l # k + 2
        BY <2>3, <1>1
      <3>2. t[l][1] # y /\ t[l][1] \in Free!Blk
        BY <3>1, <1>1 DEF Levels
      <3>3. c.disk[t[l][1]] = [links[t[l][1]] EXCEPT !.lbro = t[l - 1][Len(t[l - 1])]]
        BY <2>3 DEF Descended
      <3> QED BY <3>2, <3>3, <1>9
    <2> QED BY <2>2, <2>3, <1>10
  <1>12. \A b \in Free!Blk : (\A l \in 2..(k + 2) : b # t[l][1]) => e.disk[b] = links[b]
    <2>1. SUFFICES ASSUME NEW b \in Free!Blk, \A l \in 2..(k + 2) : b # t[l][1] PROVE e.disk[b] = links[b]
      OBVIOUS
    <2>2. b # y /\ \A l \in 2..(k + 1) : b # t[l][1]
      BY <2>1
    <2> QED BY <2>2, <1>9 DEF Descended
  <1>13. (k + 1) + 1 = k + 2 /\ (k + 1) + 2 = k + 3
    OBVIOUS
  <1> QED BY <1>5, <1>9, <1>11, <1>12, <1>13 DEF Descended, e

\* At the last level the loop stops.
LEMMA StopDown ==
  ASSUME links \in [Free!Blk -> Link], NEW r \in Free!Blk, NEW t, Levels(r, t), Placed(links, r, t),
         NEW c, Descended(c, t, Len(t) - 1)
  PROVE  Free!Down(c) = c /\ c.free = LastOf(t)
  <1> DEFINE n == Len(t)
             x == t[n][Len(t[n])]
  <1>1. /\ n \in Nat /\ n \in 1..Len(t) /\ Len(t[n]) \in 1..Len(t[n]) /\ (n - 1) + 1 = n
        /\ \A l \in 1..Len(t) : 1 \in 1..Len(t[l]) /\ t[l][1] \in Free!Blk
    BY LevelTypes
  <1>2. c.free = x /\ x \in Free!Blk
    BY <1>1, LevelTypes DEF Descended
  <1>3. links[x].stem = FALSE /\ links[x] \in Link
    <2>1. Leads(links[x], r, t, n, Len(t[n]))
      BY <1>1 DEF Placed
    <2>2. links[x].stem = (n < Len(t))
      BY <2>1 DEF Leads
    <2>3. (n < Len(t)) = FALSE
      BY <1>1
    <2>4. links[x] \in Link
      BY <1>2
    <2> QED BY <2>2, <2>3, <2>4
  <1>4. c.disk[x].stem = FALSE
    <2>1. CASE \E l \in 2..n : x = t[l][1]
      <3>1. PICK l \in 2..n : x = t[l][1]
        BY <2>1
      <3>2. c.disk[x] = [links[x] EXCEPT !.lbro = t[l - 1][Len(t[l - 1])]]
        BY <3>1, <1>1 DEF Descended
      <3> QED BY <3>2, <1>3 DEF Link
    <2>2. CASE \A l \in 2..n : x # t[l][1]
      <3>1. c.disk[x] = links[x]
        BY <2>2, <1>1, <1>2 DEF Descended
      <3> QED BY <3>1, <1>3
    <2> QED BY <2>1, <2>2
  <1> QED BY <1>2, <1>4 DEF Free!Down, LastOf

Lower(m, n) == IF m < n THEN m ELSE n

LEMMA DownUpto ==
  ASSUME links \in [Free!Blk -> Link], NEW r \in Free!Blk, NEW t, Levels(r, t), Placed(links, r, t), NEW q,
         q[0] = [disk |-> links, free |-> r, left |-> links[r].son],
         \A n \in 1..MaxTree : Descended(q[n - 1], t, Lower(n - 1, Len(t) - 1)) => q[n] = Free!Down(q[n - 1])
  PROVE  /\ \A n \in 0..MaxTree : Descended(q[n], t, Lower(n, Len(t) - 1))
         /\ Descended(q[MaxTree], t, Len(t) - 1)
  <1> DEFINE J == {n \in 0..MaxTree : Descended(q[n], t, Lower(n, Len(t) - 1))}
  <1>0. Len(t) \in Nat /\ Len(t) >= 1 /\ Len(t) <= MaxTree /\ MaxTree \in Nat
    BY LevelTypes, Sizes DEF Levels
  <1>1. 0 \in J
    <2>1. Lower(0, Len(t) - 1) = 0
      <3>1. \A k \in Nat : k >= 1 => (IF 0 < k - 1 THEN 0 ELSE k - 1) = 0
        OBVIOUS
      <3> QED BY <3>1, <1>0 DEF Lower
    <2> QED BY <2>1, <1>0, StartDown
  <1>2. ASSUME NEW n \in 0..(MaxTree - 1), n \in J PROVE n + 1 \in J
    <2>0. n + 1 \in 1..MaxTree /\ (n + 1) - 1 = n /\ n \in Nat /\ n + 1 \in 0..MaxTree
      BY <1>0
    <2>1. Descended(q[n], t, Lower(n, Len(t) - 1)) /\ q[n + 1] = Free!Down(q[n])
      <3>1. Descended(q[n], t, Lower(n, Len(t) - 1))
        BY <1>2
      <3>2. Descended(q[(n + 1) - 1], t, Lower((n + 1) - 1, Len(t) - 1)) => q[n + 1] = Free!Down(q[(n + 1) - 1])
        BY <2>0
      <3> QED BY <3>1, <3>2, <2>0
    <2>2. CASE n < Len(t) - 1
      <3>1. Lower(n, Len(t) - 1) = n /\ Lower(n + 1, Len(t) - 1) = n + 1 /\ n + 1 < Len(t)
        BY <2>0, <2>2, <1>0 DEF Lower
      <3>2. Descended(q[n], t, n)
        BY <2>1, <3>1
      <3>3. Descended(Free!Down(q[n]), t, n + 1)
        BY <3>1, <3>2, <2>0, StepDown1
      <3> QED BY <3>1, <3>3, <2>0, <2>1
    <2>3. CASE ~(n < Len(t) - 1)
      <3>1. Lower(n, Len(t) - 1) = Len(t) - 1 /\ Lower(n + 1, Len(t) - 1) = Len(t) - 1
        BY <2>0, <2>3, <1>0 DEF Lower
      <3>2. Descended(q[n], t, Len(t) - 1)
        BY <2>1, <3>1
      <3>3. Free!Down(q[n]) = q[n]
        BY <3>2, StopDown
      <3> QED BY <3>1, <3>2, <3>3, <2>0, <2>1
    <2> QED BY <2>2, <2>3
  <1>3. \A n \in 0..MaxTree : n \in J
    <2> HIDE DEF J
    <2> QED BY <1>0, <1>1, <1>2, Upto
  <1>4. MaxTree \in 0..MaxTree /\ Lower(MaxTree, Len(t) - 1) = Len(t) - 1
    BY <1>0 DEF Lower
  <1> QED BY <1>3, <1>4

LEMMA ChainedDown ==
  ASSUME links \in [Free!Blk -> Link], NEW r \in Free!Blk, NEW t, Levels(r, t), Placed(links, r, t)
  PROVE  Descended(Free!Chained(r), t, Len(t) - 1)
  <1> DEFINE S == [disk : [Free!Blk -> Link], free : Free!Blk, left : 0..MaxBlk]
             start == [disk |-> links, free |-> r, left |-> links[r].son]
             g == [x \in S \X (1..MaxTree) |-> IF Free!Down(x[1]) \in S THEN Free!Down(x[1]) ELSE x[1]]
  <1>1. MaxTree \in Nat /\ start \in S /\ g \in [S \X (1..MaxTree) -> S]
    <2>1. start \in S
      BY StartDown DEF Descended
    <2> HIDE DEF S
    <2> QED BY <2>1, Sizes
  <1>2. PICK f : Iterates(f, MaxTree, S, start, g)
    <2> HIDE DEF S, start, g
    <2>1. \E f : Iterates(f, MaxTree, S, start, g)
      BY <1>1, Iterate
    <2> QED BY <2>1
  <1>3. /\ f[0] = start
        /\ \A n \in 1..MaxTree : f[n - 1] \in S /\ f[n] = g[<<f[n - 1], n>>]
    <2> HIDE DEF S, start, g
    <2>1. f \in [0..MaxTree -> S] /\ f[0] = start /\ \A n \in 1..MaxTree : f[n] = g[<<f[n - 1], n>>]
      BY <1>2 DEF Iterates
    <2>2. \A n \in 1..MaxTree : n - 1 \in 0..MaxTree
      BY Sizes
    <2> QED BY <2>1, <2>2
  <1>4. \A n \in 1..MaxTree : Free!Down(f[n - 1]) \in S => f[n] = Free!Down(f[n - 1])
    <2>1. SUFFICES ASSUME NEW n \in 1..MaxTree, Free!Down(f[n - 1]) \in S PROVE f[n] = Free!Down(f[n - 1])
      OBVIOUS
    <2>2. f[n - 1] \in S /\ f[n] = g[<<f[n - 1], n>>]
      BY <1>3
    <2> DEFINE s == f[n - 1]
    <2> HIDE DEF S, s
    <2>3. g[<<s, n>>] = IF Free!Down(s) \in S THEN Free!Down(s) ELSE s
      BY <2>2 DEF s
    <2> QED BY <2>1, <2>2, <2>3 DEF s
  <1>5. \A n \in 1..MaxTree : Descended(f[n - 1], t, Lower(n - 1, Len(t) - 1)) => f[n] = Free!Down(f[n - 1])
    <2>1. SUFFICES ASSUME NEW n \in 1..MaxTree, Descended(f[n - 1], t, Lower(n - 1, Len(t) - 1))
                   PROVE  Free!Down(f[n - 1]) \in S
      BY <1>4
    <2>2. Len(t) \in Nat /\ Len(t) >= 1 /\ n - 1 \in Nat
      BY LevelTypes
    <2>3. CASE n - 1 < Len(t) - 1
      <3>1. Lower(n - 1, Len(t) - 1) = n - 1 /\ (n - 1) + 1 < Len(t)
        BY <2>2, <2>3 DEF Lower
      <3>2. Descended(Free!Down(f[n - 1]), t, (n - 1) + 1)
        BY <2>1, <2>2, <3>1, StepDown1
      <3> QED BY <3>2 DEF Descended
    <2>4. CASE ~(n - 1 < Len(t) - 1)
      <3>1. Lower(n - 1, Len(t) - 1) = Len(t) - 1
        BY <2>2, <2>4 DEF Lower
      <3>2. Free!Down(f[n - 1]) = f[n - 1]
        BY <2>1, <3>1, StopDown
      <3> QED BY <3>2, <2>1 DEF Descended
    <2> QED BY <2>3, <2>4
  <1>6. \A n \in 0..MaxTree : Descended(f[n], t, Lower(n, Len(t) - 1))
    <2> HIDE DEF S, g
    <2> QED BY <1>3, <1>5, DownUpto
  <1>7. f = [n \in 0..MaxTree |-> IF n = 0 THEN start ELSE Free!Down(f[n - 1])]
    <2>1. f \in [0..MaxTree -> S]
      BY <1>2 DEF Iterates
    <2>2. \A n \in 0..MaxTree : f[n] = IF n = 0 THEN start ELSE Free!Down(f[n - 1])
      <3>1. SUFFICES ASSUME NEW n \in 0..MaxTree, n # 0 PROVE f[n] = Free!Down(f[n - 1])
        BY <1>3
      <3>2. n \in 1..MaxTree /\ n - 1 \in 0..MaxTree
        BY <3>1, Sizes
      <3> QED BY <3>2, <1>5, <1>6
    <2> HIDE DEF S, start
    <2> QED BY <2>1, <2>2
  <1>8. IsDown(f, r)
    BY <1>7 DEF IsDown
  <1>9. PICK q : Free!Chained(r) = q[MaxTree] /\ IsDown(q, r)
    BY <1>8, ChainedIs
  <1>10. /\ q[0] = start
         /\ \A n \in 1..MaxTree : q[n] = Free!Down(q[n - 1])
    <2>1. \A n \in 0..MaxTree : q[n] = IF n = 0 THEN start ELSE Free!Down(q[n - 1])
      BY <1>9 DEF IsDown
    <2>2. 0 \in 0..MaxTree /\ \A n \in 1..MaxTree : n \in 0..MaxTree /\ n # 0
      BY Sizes
    <2> HIDE DEF start
    <2> QED BY <2>1, <2>2
  <1>11. Descended(q[MaxTree], t, Len(t) - 1)
    BY <1>10, DownUpto
  <1> QED BY <1>9, <1>11

LEMMA Blank ==
  ASSUME NEW f \in 0..MaxBlk
  PROVE  LET v == [Free!Empty EXCEPT !.son = f] IN v.root = 0 /\ v.son = f /\ v \in Link
  <1>1. Free!Empty \in Link /\ Free!Empty.root = 0
    BY Sizes DEF Free!Empty, Link
  <1> QED BY <1>1 DEF Link

LEMMA Killed ==
  ASSUME links \in [Free!Blk -> Link], space.free \in 0..MaxBlk,
         NEW r \in Free!Blk, NEW t, Levels(r, t), Placed(links, r, t)
  PROVE  LET c == Free!Chained(r)
             e == [c.disk EXCEPT ![r] = Free!Deleted(r)[r]]
         IN  /\ c.free = LastOf(t) /\ e \in [Free!Blk -> Link] /\ Undone(e, r, t, space.free)
             /\ \A b \in Free!Blk : b \notin Free!Blocks(t) => e[b] = links[b]
  <1> DEFINE c == Free!Chained(r)
             v == [Free!Empty EXCEPT !.son = space.free]
             e == [c.disk EXCEPT ![r] = v]
  <1>0. /\ Len(t) \in Nat /\ Len(t) >= 1 /\ (Len(t) - 1) + 1 = Len(t)
        /\ \A l \in 1..Len(t) : Len(t[l]) \in Nat /\ 1 \in 1..Len(t[l]) /\ t[l][1] \in Free!Blk
        /\ 1 \in 1..Len(t) /\ t[1][1] = r
    BY LevelTypes DEF Levels
  <1>1. Descended(c, t, Len(t) - 1)
    BY ChainedDown
  <1>2. c.free = LastOf(t)
    BY <1>1, StopDown
  <1>3. /\ v.root = 0 /\ v.son = space.free /\ v \in Link
    BY Blank
  <1>4. Free!Deleted(r)[r] = v
    BY DEF Free!Deleted
  <1>5. c.disk \in [Free!Blk -> Link]
    BY <1>1 DEF Descended
  <1> HIDE DEF v
  <1>6. e \in [Free!Blk -> Link] /\ e[r] = v /\ \A b \in Free!Blk : b # r => e[b] = c.disk[b]
    BY <1>3, <1>5
  <1>7. /\ \A l \in 2..Len(t) : c.disk[t[l][1]] = [links[t[l][1]] EXCEPT !.lbro = t[l - 1][Len(t[l - 1])]]
        /\ \A b \in Free!Blk : (\A l \in 2..Len(t) : b # t[l][1]) => c.disk[b] = links[b]
    BY <1>0, <1>1 DEF Descended
  <1> HIDE DEF e, c
  <1>8. ASSUME NEW l \in 2..Len(t), NEW i \in 1..Len(t[l])
        PROVE  e[t[l][i]].root = r /\ e[t[l][i]].lbro = FromAbove(t, l, i)
    <2> DEFINE b == t[l][i]
    <2>1. l \in 1..Len(t) /\ l # 1
      BY <1>0
    <2>2. b \in Free!Blk /\ b # r
      BY <2>1, <1>0, LevelTypes DEF Levels
    <2>3. Leads(links[b], r, t, l, i) /\ links[b] \in Link
      BY <2>1, <2>2 DEF Placed
    <2>4. e[b] = c.disk[b]
      BY <2>2, <1>6
    <2>5. CASE i = 1
      <3>1. c.disk[b] = [links[b] EXCEPT !.lbro = t[l - 1][Len(t[l - 1])]]
        BY <2>5, <1>7
      <3> QED BY <3>1, <2>3, <2>4, <2>5 DEF Leads, FromAbove, Link
    <2>6. CASE i # 1
      <3>1. \A m \in 2..Len(t) : b # t[m][1]
        <4>1. \A m \in 2..Len(t) : m \in 1..Len(t)
          OBVIOUS
        <4> QED BY <4>1, <2>1, <2>6, <1>0 DEF Levels
      <3>2. c.disk[b] = links[b]
        BY <3>1, <2>2, <1>7
      <3>3. i > 1
        BY <2>6, <2>1, <1>0
      <3> QED BY <3>2, <3>3, <2>3, <2>4, <2>6 DEF Leads, FromAbove
    <2> QED BY <2>5, <2>6
  <1>9. Undone(e, r, t, space.free)
    BY <1>3, <1>6, <1>8 DEF Undone
  <1>10. \A b \in Free!Blk : b \notin Free!Blocks(t) => e[b] = links[b]
    <2>1. SUFFICES ASSUME NEW b \in Free!Blk, b \notin Free!Blocks(t) PROVE e[b] = links[b]
      OBVIOUS
    <2>2. \A l \in 1..Len(t) : b # t[l][1]
      BY <2>1, <1>0, BlocksAre
    <2>3. b # r /\ \A l \in 2..Len(t) : b # t[l][1]
      <3>1. \A m \in 2..Len(t) : m \in 1..Len(t)
        OBVIOUS
      <3> QED BY <3>1, <2>2, <1>0
    <2> QED BY <2>3, <1>6, <1>7
  <1> QED BY <1>2, <1>4, <1>6, <1>9, <1>10 DEF c, e

-----------------------------------------------------------------------------
\* The files, when one changes.
LEMMA NoBlocks == Free!Blocks(<<>>) = {}
  BY DEF Free!Blocks

LEMMA LiveIs ==
  ASSUME NEW d, NEW tr, FilesPlaced(d, tr)
  PROVE  /\ \A r \in Free!Blk : \A b \in Free!Blocks(tr[r]) : r \in FilesOf(tr) /\ b \in Free!Blk /\ d[b].root = r
         /\ \A b : b \in LiveIn(tr) <=> \E r \in Free!Blk : b \in Free!Blocks(tr[r])
         /\ LiveIn(tr) \subseteq Free!Blk
         /\ \A r \in FilesOf(tr) : r \in LiveIn(tr) /\ d[r].root = r
  <1>1. ASSUME NEW r \in Free!Blk, NEW b \in Free!Blocks(tr[r])
        PROVE  r \in FilesOf(tr) /\ b \in Free!Blk /\ d[b].root = r
    <2>1. tr[r] # <<>>
      BY <1>1, NoBlocks
    <2>2. r \in FilesOf(tr)
      BY <2>1 DEF FilesOf
    <2> QED BY <2>2, <1>1, RootOf DEF FilesPlaced
  <1>2. \A b : b \in LiveIn(tr) <=> \E r \in Free!Blk : b \in Free!Blocks(tr[r])
    BY <1>1 DEF LiveIn, FilesOf
  <1>3. \A r \in FilesOf(tr) : r \in LiveIn(tr) /\ d[r].root = r
    <2>1. \A r \in FilesOf(tr) : r \in Free!Blk /\ r \in Free!Blocks(tr[r])
      BY RootOf DEF FilesPlaced, FilesOf
    <2> QED BY <2>1, <1>1, <1>2
  <1> QED BY <1>1, <1>2, <1>3

LEMMA LiveChange ==
  ASSUME NEW d, NEW tr \in [Free!Blk -> Seq(Seq(Free!Blk))], FilesPlaced(d, tr), NEW r \in Free!Blk, NEW t
  PROVE  LiveIn([tr EXCEPT ![r] = t]) = (LiveIn(tr) \ Free!Blocks(tr[r])) \union Free!Blocks(t)
  <1> DEFINE u == [tr EXCEPT ![r] = t]
  <1>1. u[r] = t /\ \A s \in Free!Blk : s # r => u[s] = tr[s]
    OBVIOUS
  <1> HIDE DEF u
  <1>2. \A b : b \in LiveIn(u) <=> \E s \in Free!Blk : b \in Free!Blocks(u[s])
    BY NoBlocks DEF LiveIn, FilesOf
  <1>3. \A b : b \in LiveIn(tr) <=> \E s \in Free!Blk : b \in Free!Blocks(tr[s])
    BY LiveIs
  <1>4. \A s \in Free!Blk : s # r => \A b \in Free!Blocks(tr[s]) : b \notin Free!Blocks(tr[r])
    <2>1. \A s \in Free!Blk : \A b \in Free!Blocks(tr[s]) : d[b].root = s
      BY LiveIs
    <2> QED BY <2>1
  <1>5. ASSUME NEW b PROVE b \in LiveIn(u) <=> b \in (LiveIn(tr) \ Free!Blocks(tr[r])) \union Free!Blocks(t)
    <2>1. b \in LiveIn(u) <=> b \in Free!Blocks(t) \/ \E s \in Free!Blk \ {r} : b \in Free!Blocks(tr[s])
      BY <1>1, <1>2
    <2>2. b \in LiveIn(tr) \ Free!Blocks(tr[r]) <=> \E s \in Free!Blk \ {r} : b \in Free!Blocks(tr[s])
      BY <1>3, <1>4
    <2> QED BY <2>1, <2>2
  <1> QED BY <1>5 DEF u

OneChanges(d, e, tr, u, r, t) ==
  /\ tr \in [Free!Blk -> Seq(Seq(Free!Blk))] /\ FilesPlaced(d, tr) /\ r \in Free!Blk
  /\ t = <<>> \/ (Levels(r, t) /\ Placed(e, r, t))
  /\ \A b \in LiveIn(tr) \ Free!Blocks(tr[r]) : e[b] = d[b]
  /\ u = [tr EXCEPT ![r] = t]
LEMMA FilesChange ==
  ASSUME NEW d, NEW e, NEW tr, NEW u, NEW r, NEW t, OneChanges(d, e, tr, u, r, t)
  PROVE  FilesPlaced(e, u) /\ u \in [Free!Blk -> Seq(Seq(Free!Blk))]
  <1> USE DEF OneChanges
  <1>1. u[r] = t /\ \A s \in Free!Blk : s # r => u[s] = tr[s]
    OBVIOUS
  <1>2. t \in Seq(Seq(Free!Blk))
    <2>1. <<>> \in Seq(Seq(Free!Blk))
      OBVIOUS
    <2> QED BY <2>1 DEF Levels
  <1>3. u \in [Free!Blk -> Seq(Seq(Free!Blk))]
    BY <1>2
  <1>4. ASSUME NEW s \in FilesOf(u) PROVE Levels(s, u[s]) /\ Placed(e, s, u[s])
    <2>1. s \in Free!Blk /\ u[s] # <<>>
      BY <1>4 DEF FilesOf
    <2>2. CASE s = r
      BY <2>1, <2>2, <1>1
    <2>3. CASE s # r
      <3>1. s \in FilesOf(tr) /\ u[s] = tr[s]
        BY <2>1, <2>3, <1>1 DEF FilesOf
      <3>2. Levels(s, tr[s]) /\ Placed(d, s, tr[s])
        BY <3>1 DEF FilesPlaced
      <3>3. \A b \in Free!Blocks(tr[s]) : b \in LiveIn(tr) \ Free!Blocks(tr[r])
        <4>1. \A x \in Free!Blk : \A b \in Free!Blocks(tr[x]) : d[b].root = x
          BY LiveIs
        <4>2. \A b \in Free!Blocks(tr[s]) : b \in LiveIn(tr)
          BY <2>1, LiveIs
        <4> QED BY <4>1, <4>2, <2>1, <2>3
      <3>4. Placed(e, s, tr[s])
        BY <2>1, <3>2, <3>3, PlacedSame
      <3> QED BY <3>1, <3>2, <3>4
    <2> QED BY <2>2, <2>3
  <1> QED BY <1>3, <1>4 DEF FilesPlaced

-----------------------------------------------------------------------------
\* What a step may take for granted.
LEMMA SpaceFacts ==
  ASSUME SInv
  PROVE  LET U == Unused(tree, rcv.left, space.eod)
         IN  /\ U \subseteq Free!Blk /\ IsFiniteSet(U) /\ Cardinality(U) \in Nat
             /\ links \in [Free!Blk -> Link] /\ tree \in [Free!Blk -> Seq(Seq(Free!Blk))]
             /\ space \in SpaceHdr /\ space.eod \in 1..MaxBlk /\ space.free \in 0..MaxBlk /\ space.eof \in 0..MaxBlk
             /\ rcv \in Rcvr /\ rcv.left \subseteq Free!Blk
             /\ Free!Files = FilesOf(tree)
             /\ LiveIn(tree) \subseteq 1..space.eod /\ rcv.left \subseteq 1..space.eod
             /\ rcv.old # 0 => rcv.old \notin FilesOf(tree) /\ \A b \in Free!Blk : b \in rcv.left <=> links[b].root = rcv.old
             /\ rcv.old = 0 => rcv = Free!Idle /\ rcv.left = {}
             /\ \A b \in rcv.left : b \notin LiveIn(tree)
             /\ \A b \in Free!Blk : b > space.eod => links[b].root = 0
  <1> DEFINE U == Unused(tree, rcv.left, space.eod)
  <1>1. /\ links \in [Free!Blk -> Link] /\ tree \in [Free!Blk -> Seq(Seq(Free!Blk))]
        /\ space \in SpaceHdr /\ rcv \in Rcvr
        /\ LiveIn(tree) \union rcv.left \subseteq 1..space.eod
        /\ \A b \in Free!Blk : b > space.eod => links[b].root = 0
    BY DEF SInv, SpaceHolds, SpaceType
  <1>2. space.eod \in 1..MaxBlk /\ space.free \in 0..MaxBlk /\ space.eof \in 0..MaxBlk /\ rcv.left \subseteq Free!Blk
    BY <1>1 DEF SpaceHdr, Rcvr
  <1>3. U \subseteq Free!Blk
    BY <1>2, Sizes DEF Unused
  <1>4. IsFiniteSet(U) /\ Cardinality(U) \in Nat
    BY <1>3, SomeBlocks, Sizes
  <1>5. Free!Files = FilesOf(tree)
    BY DEF Free!Files, FilesOf
  <1>6. rcv.old # 0 => rcv.old \notin FilesOf(tree) /\ \A b \in Free!Blk : b \in rcv.left <=> links[b].root = rcv.old
    <2>1. SUFFICES ASSUME rcv.old # 0
                   PROVE  rcv.old \notin FilesOf(tree) /\ \A b \in Free!Blk : b \in rcv.left <=> links[b].root = rcv.old
      OBVIOUS
    <2>2. tree[rcv.old] = <<>> /\ rcv.left = {b \in Free!Blk : links[b].root = rcv.old}
      BY <2>1 DEF SInv, SpaceHolds, Recovering
    <2> QED BY <2>2 DEF FilesOf
  <1>7. rcv.old = 0 => rcv = Free!Idle /\ rcv.left = {}
    BY DEF SInv, SpaceHolds, Recovering, Free!Idle
  <1>8. \A b \in rcv.left : b \notin LiveIn(tree)
    <2>1. SUFFICES ASSUME NEW b \in rcv.left, b \in LiveIn(tree) PROVE FALSE
      OBVIOUS
    <2>2. FilesPlaced(links, tree)
      BY DEF SInv, SpaceHolds
    <2>3. links[b].root \in FilesOf(tree)
      BY <2>1, <2>2, LiveIs
    <2> QED BY <2>1, <2>3, <1>2, <1>6, <1>7
  <1> QED BY <1>1, <1>2, <1>3, <1>4, <1>5, <1>6, <1>7, <1>8

\* A block joins a file that has, with it, the levels t.
Joining(b, r, t, h) ==
  /\ Levels(r, t) /\ Free!Blocks(t) = Free!Blocks(tree[r]) \union {b}
  /\ r \in FilesOf(tree) \/ rcv = Free!Idle
  /\ links' = Free!Grown(r, t) /\ tree' = [tree EXCEPT ![r] = t] /\ space' = h /\ UNCHANGED rcv

LEMMA Joins ==
  ASSUME SInv, ~Busy, NEW b \in Free!Blk, b \notin LiveIn(tree), NEW h, Free!Grow(b, h) \/ Free!Create(b, h)
  PROVE  \E r \in Free!Blk : \E t : Joining(b, r, t, h)
  <1>0. FilesPlaced(links, tree) /\ Free!Files = FilesOf(tree)
    BY SpaceFacts DEF SInv, SpaceHolds
  <1>1. \A r \in FilesOf(tree) : r \in Free!Blk /\ Levels(r, tree[r]) /\ b \notin Free!Blocks(tree[r])
    BY <1>0, LiveIs DEF FilesPlaced, FilesOf
  <1>2. CASE Free!Grow(b, h)
    <2>0. Free!Widen(b, h) /\ UNCHANGED rcv
      BY <1>2 DEF Free!Grow
    <2>1. CASE \E r \in Free!Files : \E l \in 2..Len(tree[r]) :
                 Free!Attach(b, r, [tree[r] EXCEPT ![l] = Append(@, b)], h)
      <3>1. PICK r \in FilesOf(tree) : \E l \in 2..Len(tree[r]) :
                 Free!Attach(b, r, [tree[r] EXCEPT ![l] = Append(@, b)], h)
        BY <2>1, <1>0
      <3>2. PICK l \in 2..Len(tree[r]) : Free!Attach(b, r, [tree[r] EXCEPT ![l] = Append(@, b)], h)
        BY <3>1
      <3> DEFINE s == tree[r]
                 t == [s EXCEPT ![l] = Append(@, b)]
      <3>3. Levels(r, s) /\ r \in Free!Blk /\ b \notin Free!Blocks(s)
        BY <1>1
      <3>4. Free!Attach(b, r, t, h)
        BY <3>2
      <3> HIDE DEF s
      <3>5. Levels(r, t) /\ Free!Blocks(t) = Free!Blocks(s) \union {b}
        BY <3>2, <3>3, Appended DEF s
      <3> HIDE DEF t
      <3>6. Joining(b, r, t, h)
        BY <3>4, <3>5, <2>0 DEF Joining, Free!Attach, s
      <3> QED BY <3>3, <3>6
    <2>2. CASE \E r \in Free!Files : /\ Len(tree[r]) < MaxTree
                                     /\ Free!Attach(b, r, <<tree[r][1], <<b>> >> \o Tail(tree[r]), h)
      <3>1. PICK r \in FilesOf(tree) : /\ Len(tree[r]) < MaxTree
                                       /\ Free!Attach(b, r, <<tree[r][1], <<b>> >> \o Tail(tree[r]), h)
        BY <2>2, <1>0
      <3> DEFINE s == tree[r]
                 t == <<s[1], <<b>> >> \o Tail(s)
      <3>3. Levels(r, s) /\ r \in Free!Blk /\ b \notin Free!Blocks(s) /\ Len(s) < MaxTree
        BY <1>1, <3>1
      <3>4. Free!Attach(b, r, t, h)
        BY <3>1
      <3> HIDE DEF s
      <3>5. Levels(r, t) /\ Free!Blocks(t) = Free!Blocks(s) \union {b}
        BY <3>3, Deepened
      <3> HIDE DEF t
      <3>6. Joining(b, r, t, h)
        BY <3>4, <3>5, <2>0 DEF Joining, Free!Attach, s
      <3> QED BY <3>3, <3>6
    <2> QED BY <2>0, <2>1, <2>2 DEF Free!Widen
  <1>3. CASE Free!Create(b, h)
    <2> DEFINE t == << <<b>> >>
    <2>1. rcv = Free!Idle /\ Free!Attach(b, b, t, h) /\ UNCHANGED rcv
      BY <1>3 DEF Free!Create
    <2>2. Levels(b, t) /\ Free!Blocks(t) = {b}
      BY Alone
    <2>3. b \notin FilesOf(tree)
      BY <1>0, LiveIs
    <2>4. Free!Blocks(tree[b]) = {}
      BY <2>3, NoBlocks DEF FilesOf
    <2> HIDE DEF t
    <2>5. Joining(b, b, t, h)
      BY <2>1, <2>2, <2>4 DEF Joining, Free!Attach
    <2> QED BY <2>5
  <1> QED BY <1>2, <1>3

LEMMA Joined1 ==
  ASSUME SInv, NEW b \in Free!Blk, b \notin LiveIn(tree), b \notin rcv.left,
         NEW r \in Free!Blk, NEW t, NEW h \in SpaceHdr, Joining(b, r, t, h),
         h.eod >= space.eod, b <= h.eod, h.eof # 0 => h.eod <= h.eof
  PROVE  /\ SpaceType(links', tree', space', rcv') /\ FilesPlaced(links', tree') /\ Recovering(links', tree', rcv')
         /\ LiveIn(tree') = LiveIn(tree) \union {b}
         /\ \A c \in Free!Blk : c # b /\ c \notin LiveIn(tree) => links'[c] = links[c]
  <1> USE DEF Joining
  <1>0. /\ links \in [Free!Blk -> Link] /\ tree \in [Free!Blk -> Seq(Seq(Free!Blk))] /\ rcv \in Rcvr
        /\ LiveIn(tree) \subseteq 1..space.eod /\ rcv.left \subseteq 1..space.eod
        /\ space.eod \in 1..MaxBlk /\ h.eod \in 1..MaxBlk
        /\ FilesPlaced(links, tree)
        /\ \A c \in Free!Blk : c > space.eod => links[c].root = 0
    BY SpaceFacts DEF SInv, SpaceHolds, SpaceHdr
  <1>1. /\ links' \in [Free!Blk -> Link] /\ Placed(links', r, t)
        /\ \A c \in Free!Blk : c \notin Free!Blocks(t) => links'[c] = links[c]
    BY <1>0, GrownIs
  <1>2. \A c \in Free!Blocks(tree[r]) : c \in LiveIn(tree) /\ links[c].root = r /\ c \in Free!Blk
    BY <1>0, LiveIs
  <1>3. LiveIn(tree) \subseteq Free!Blk /\ b \notin Free!Blocks(tree[r])
    BY <1>0, <1>2, LiveIs
  <1>4. \A c \in Free!Blk : c # b /\ c \notin Free!Blocks(tree[r]) => links'[c] = links[c]
    BY <1>1
  <1>5. LiveIn(tree') = LiveIn(tree) \union {b}
    <2>1. LiveIn(tree') = (LiveIn(tree) \ Free!Blocks(tree[r])) \union Free!Blocks(t)
      BY <1>0, LiveChange, ZenonT(60)
    <2> QED BY <2>1, <1>2
  <1>6. FilesPlaced(links', tree') /\ tree' \in [Free!Blk -> Seq(Seq(Free!Blk))]
    <2> DEFINE e == links'
    <2>1. \A c \in LiveIn(tree) \ Free!Blocks(tree[r]) : e[c] = links[c]
      BY <1>3, <1>4
    <2>2. t = <<>> \/ (Levels(r, t) /\ Placed(e, r, t))
      BY <1>1
    <2>3. tree' = [tree EXCEPT ![r] = t]
      OBVIOUS
    <2> HIDE DEF e, Joining
    <2>4. OneChanges(links, e, tree, tree', r, t)
      BY <2>1, <2>2, <2>3, <1>0 DEF OneChanges
    <2>5. FilesPlaced(e, tree') /\ tree' \in [Free!Blk -> Seq(Seq(Free!Blk))]
      BY <2>4, FilesChange
    <2> QED BY <2>5 DEF e
  <1>7. \A c \in Free!Blocks(t) : links'[c].root = r /\ c \in Free!Blk
    BY <1>1, RootOf
  <1>8. SpaceType(links', tree', space', rcv')
    <2>1. LiveIn(tree') \union rcv.left \subseteq 1..h.eod
      <3>1. 1..space.eod \subseteq 1..h.eod /\ b \in 1..h.eod
        BY <1>0, Sizes
      <3> QED BY <3>1, <1>0, <1>5
    <2>2. \A c \in Free!Blk : c > h.eod => links'[c].root = 0
      <3>1. SUFFICES ASSUME NEW c \in Free!Blk, c > h.eod PROVE links'[c].root = 0
        OBVIOUS
      <3>2. c > space.eod /\ c # b /\ c \notin LiveIn(tree)
        BY <3>1, <1>0, Sizes
      <3> QED BY <3>2, <1>0, <1>2, <1>4
    <2> QED BY <2>1, <2>2, <1>0, <1>1, <1>6 DEF SpaceType
  <1>9. Recovering(links', tree', rcv')
    <2>1. CASE rcv.old = 0
      BY <2>1, SpaceFacts DEF Recovering, Free!Idle
    <2>2. CASE rcv.old # 0
      <3>1. rcv.old \notin FilesOf(tree) /\ \A c \in Free!Blk : c \in rcv.left <=> links[c].root = rcv.old
        BY <2>2, SpaceFacts
      <3>2. r # rcv.old
        BY <2>2, <3>1 DEF Free!Idle
      <3>3. \A c \in Free!Blk : c \in rcv.left <=> links'[c].root = rcv.old
        <4>1. SUFFICES ASSUME NEW c \in Free!Blk PROVE c \in rcv.left <=> links'[c].root = rcv.old
          OBVIOUS
        <4>2. CASE c \in Free!Blocks(t)
          <5>1. links'[c].root # rcv.old
            BY <4>2, <3>2, <1>7
          <5>2. c \notin rcv.left
            BY <4>2, <3>1, <3>2, <1>2
          <5> QED BY <5>1, <5>2
        <4>3. CASE c \notin Free!Blocks(t)
          BY <4>3, <3>1, <1>1
        <4> QED BY <4>2, <4>3
      <3>4. tree'[rcv.old] = <<>>
        <4>1. rcv.old \in Free!Blk
          BY <2>2, <1>0, Sizes DEF Rcvr
        <4> QED BY <4>1, <3>1, <3>2, <1>0 DEF FilesOf
      <3>5. rcv.left = {c \in Free!Blk : links'[c].root = rcv.old}
        BY <3>3, SpaceFacts
      <3>6. Recovering(links, tree, rcv)
        BY DEF SInv, SpaceHolds
      <3> QED BY <2>2, <3>4, <3>5, <3>6 DEF Recovering
    <2> QED BY <2>1, <2>2
  <1>10. \A c \in Free!Blk : c # b /\ c \notin LiveIn(tree) => links'[c] = links[c]
    BY <1>2, <1>4
  <1> QED BY <1>5, <1>6, <1>8, <1>9, <1>10

LEMMA FromEnd ==
  ASSUME SInv, ~Busy, Free!NewFromEnd
  PROVE  SInv'
  <1> DEFINE b == space.eod + 1
             h == Free!NewBlk
             U == Unused(tree, rcv.left, space.eod)
  <1>1. /\ links \in [Free!Blk -> Link] /\ space \in SpaceHdr /\ rcv \in Rcvr
        /\ LiveIn(tree) \subseteq 1..space.eod /\ rcv.left \subseteq 1..space.eod
        /\ space.eod \in 1..MaxBlk /\ space.eof \in 0..MaxBlk
        /\ U \subseteq Free!Blk
        /\ FreeChain(links, space.free, U) /\ Counted(space, U)
        /\ space.eof # 0 => space.eod <= space.eof
    BY SpaceFacts DEF SInv, SpaceHolds, SpaceType
  <1>2. space.free = 0 /\ Free!CanGrow /\ (Free!Grow(b, h) \/ Free!Create(b, h))
    BY DEF Free!NewFromEnd
  <1>3. space.eod < MaxBlk /\ b \in Free!Blk /\ (space.eof # 0 => b <= space.eof)
    BY <1>1, <1>2, Sizes DEF Free!CanGrow
  <1>4. b \notin LiveIn(tree) /\ b \notin rcv.left /\ b \notin U
    BY <1>1 DEF Unused
  <1>5. /\ h \in SpaceHdr /\ h.eod = b /\ h.eof = space.eof /\ h.free = 0
        /\ h.space = IF space.eof # 0 THEN space.space - 1 ELSE space.space
    <2>1. /\ space.free \in 0..MaxBlk /\ space.droot \in 0..MaxBlk /\ space.space \in Int
          /\ space.newspace \in Nat /\ space.eof \in 0..MaxBlk /\ b \in 1..MaxBlk
      BY <1>1, <1>3, Sizes DEF SpaceHdr
    <2> DEFINE n == IF space.eof # 0 THEN space.space - 1 ELSE space.space
    <2>2. n \in Int
      BY <2>1
    <2>3. h = [space EXCEPT !.eod = b, !.space = n]
      BY DEF Free!NewBlk
    <2> HIDE DEF n, h, b
    <2>4. h = [free |-> space.free, droot |-> space.droot, space |-> n, eod |-> b, eof |-> space.eof,
               newspace |-> space.newspace]
      BY <2>3, <1>1 DEF SpaceHdr
    <2>5. h \in SpaceHdr
      BY <2>1, <2>2, <2>4 DEF SpaceHdr
    <2> QED BY <2>4, <2>5, <1>2 DEF n
  <1>6. PICK r \in Free!Blk : \E t : Joining(b, r, t, h)
    BY <1>2, <1>3, <1>4, Joins
  <1>7. PICK t : Joining(b, r, t, h)
    BY <1>6
  <1> HIDE DEF h
  <1>8. /\ SpaceType(links', tree', space', rcv') /\ FilesPlaced(links', tree') /\ Recovering(links', tree', rcv')
        /\ LiveIn(tree') = LiveIn(tree) \union {b}
        /\ \A c \in Free!Blk : c # b /\ c \notin LiveIn(tree) => links'[c] = links[c]
    <2>1. h.eod >= space.eod /\ b <= h.eod /\ (h.eof # 0 => h.eod <= h.eof)
      BY <1>1, <1>3, <1>5
    <2> QED BY <2>1, <1>3, <1>4, <1>5, <1>7, Joined1
  <1>9. space' = h /\ rcv' = rcv
    BY <1>7 DEF Joining
  <1>10. Unused(tree', rcv'.left, space'.eod) = U
    <2>1. 1..b = (1..space.eod) \union {b} /\ b \notin 1..space.eod
      BY <1>1
    <2> HIDE DEF b
    <2>2. (1..b) \ ((LiveIn(tree) \union {b}) \union rcv.left) = (1..space.eod) \ (LiveIn(tree) \union rcv.left)
      BY <2>1, <1>4
    <2> QED BY <2>2, <1>5, <1>8, <1>9 DEF Unused
  <1>11. FreeChain(links', space'.free, U)
    <2>1. \A c \in U : links'[c] = links[c]
      BY <1>1, <1>4, <1>8 DEF Unused
    <2>2. space'.free = space.free
      BY <1>2, <1>5, <1>9
    <2> HIDE DEF U
    <2> QED BY <2>1, <2>2, <1>1, ChainSame
  <1>12. Counted(space', U)
    <2>1. Cardinality(U) \in Nat /\ space.space \in Int
      BY <1>1, SpaceFacts DEF SpaceHdr
    <2> HIDE DEF U
    <2>2. CASE space.eof = 0
      BY <2>2, <1>1, <1>5, <1>9 DEF Counted
    <2>3. CASE space.eof # 0
      BY <2>1, <2>3, <1>1, <1>5, <1>9 DEF Counted
    <2> QED BY <2>2, <2>3
  <1> QED BY <1>8, <1>10, <1>11, <1>12 DEF SInv, SpaceHolds

LEMMA TakenIs ==
  ASSUME SInv, space.free # 0
  PROVE  LET U == Unused(tree, rcv.left, space.eod)
         IN  /\ Free!Taken.bad = FALSE /\ Free!Taken.blk = space.free /\ space.free \in U
             /\ Free!Taken.hdr \in SpaceHdr
             /\ Free!Taken.hdr.free = NextFree(links, space.free)
             /\ Free!Taken.hdr.space = space.space - 1
             /\ Free!Taken.hdr.eod = space.eod /\ Free!Taken.hdr.eof = space.eof
  <1> DEFINE U == Unused(tree, rcv.left, space.eod)
             b == links[space.free]
             known == b.root = 0 \/ b.root = space.droot
             bad == ~known /\ links[b.root].root # 0
             h == [space EXCEPT !.space = @ - 1,
                                !.droot = IF known THEN @ ELSE b.root,
                                !.free = IF b.root = 0 THEN b.son ELSE b.lbro]
  <1>1. /\ links \in [Free!Blk -> Link] /\ space \in SpaceHdr /\ space.free \in 0..MaxBlk
        /\ U \subseteq Free!Blk /\ FreeChain(links, space.free, U)
    BY SpaceFacts DEF SInv, SpaceHolds
  <1>2. space.free \in Free!Blk /\ b \in Link
    BY <1>1, Sizes
  <1>3. space.free \in U /\ (b.root = 0 \/ links[b.root].root = 0)
    <2> HIDE DEF U
    <2> QED BY <1>1, ChainEnds
  <1>4. bad = FALSE
    BY <1>3
  <1>5. /\ h \in SpaceHdr /\ h.free = NextFree(links, space.free) /\ h.space = space.space - 1
        /\ h.eod = space.eod /\ h.eof = space.eof
    <2> DEFINE f == IF b.root = 0 THEN b.son ELSE b.lbro
               o == IF known THEN space.droot ELSE b.root
               n == space.space - 1
    <2>1. /\ space.droot \in 0..MaxBlk /\ n \in Int /\ space.newspace \in Nat
          /\ space.eof \in 0..MaxBlk /\ space.eod \in 1..MaxBlk
      BY <1>1 DEF SpaceHdr
    <2>2. f \in 0..MaxBlk /\ o \in 0..MaxBlk /\ f = NextFree(links, space.free)
      BY <1>2, <2>1 DEF Link, NextFree
    <2>3. h = [space EXCEPT !.space = n, !.droot = o, !.free = f]
      OBVIOUS
    <2> HIDE DEF f, o, n, h
    <2>4. h = [free |-> f, droot |-> o, space |-> n, eod |-> space.eod, eof |-> space.eof,
               newspace |-> space.newspace]
      BY <2>3, <1>1 DEF SpaceHdr
    <2>5. h \in SpaceHdr
      BY <2>1, <2>2, <2>4 DEF SpaceHdr
    <2> QED BY <2>2, <2>4, <2>5 DEF n
  <1>6. Free!Taken = [blk |-> space.free, bad |-> bad,
                      hdr |-> IF bad THEN [space EXCEPT !.free = 0, !.space = 0] ELSE h]
    BY DEF Free!Taken
  <1> HIDE DEF bad, h
  <1> QED BY <1>3, <1>4, <1>5, <1>6

LEMMA FromFree ==
  ASSUME SInv, ~Busy, Free!NewFromFree
  PROVE  SInv'
  <1> DEFINE b == space.free
             h == Free!Taken.hdr
             U == Unused(tree, rcv.left, space.eod)
  <1>1. /\ links \in [Free!Blk -> Link] /\ space \in SpaceHdr /\ rcv \in Rcvr
        /\ LiveIn(tree) \subseteq 1..space.eod /\ rcv.left \subseteq 1..space.eod
        /\ space.eod \in 1..MaxBlk /\ space.eof \in 0..MaxBlk
        /\ U \subseteq Free!Blk /\ IsFiniteSet(U) /\ Cardinality(U) \in Nat
        /\ FreeChain(links, space.free, U) /\ Counted(space, U)
        /\ space.eof # 0 => space.eod <= space.eof
    BY SpaceFacts DEF SInv, SpaceHolds, SpaceType
  <1>2. space.free # 0 /\ (Free!Grow(Free!Taken.blk, h) \/ Free!Create(Free!Taken.blk, h))
    BY DEF Free!NewFromFree
  <1>3. /\ Free!Taken.blk = b /\ b \in U
        /\ h \in SpaceHdr /\ h.free = NextFree(links, b) /\ h.space = space.space - 1
        /\ h.eod = space.eod /\ h.eof = space.eof
    BY <1>2, TakenIs
  <1> HIDE DEF h
  <1>4. b \in Free!Blk /\ b \notin LiveIn(tree) /\ b \notin rcv.left /\ b \in 1..space.eod
    BY <1>1, <1>3 DEF Unused
  <1>6. PICK r \in Free!Blk : \E t : Joining(b, r, t, h)
    BY <1>2, <1>3, <1>4, Joins
  <1>7. PICK t : Joining(b, r, t, h)
    BY <1>6
  <1>8. /\ SpaceType(links', tree', space', rcv') /\ FilesPlaced(links', tree') /\ Recovering(links', tree', rcv')
        /\ LiveIn(tree') = LiveIn(tree) \union {b}
        /\ \A c \in Free!Blk : c # b /\ c \notin LiveIn(tree) => links'[c] = links[c]
    <2>1. h.eod >= space.eod /\ b <= h.eod /\ (h.eof # 0 => h.eod <= h.eof)
      BY <1>1, <1>3, <1>4
    <2> QED BY <2>1, <1>3, <1>4, <1>7, Joined1
  <1>9. space' = h /\ rcv' = rcv
    BY <1>7 DEF Joining
  <1>10. Unused(tree', rcv'.left, space'.eod) = U \ {b}
    BY <1>3, <1>8, <1>9 DEF Unused
  <1>11. FreeChain(links', space'.free, U \ {b})
    <2>1. \A c \in U \ {b} : links'[c] = links[c]
      BY <1>1, <1>8 DEF Unused
    <2> HIDE DEF U
    <2> QED BY <2>1, <1>1, <1>2, <1>3, <1>9, ChainPop
  <1>12. Cardinality(U \ {b}) = Cardinality(U) - 1
    <2> HIDE DEF U
    <2> QED BY <1>1, <1>3, FS_RemoveElement
  <1>13. Counted(space', U \ {b})
    <2> HIDE DEF U
    <2> QED BY <1>1, <1>3, <1>9, <1>12 DEF Counted, SpaceHdr
  <1> QED BY <1>8, <1>10, <1>11, <1>13 DEF SInv, SpaceHolds

\* Only the header changes, and neither where the list starts nor the last block.
LEMMA HeaderOnly ==
  ASSUME SInv, UNCHANGED <<links, tree, rcv>>, NEW h \in SpaceHdr, space' = h,
         h.eod = space.eod, h.free = space.free, h.eof # 0 => h.eod <= h.eof,
         Counted(h, Unused(tree, rcv.left, space.eod))
  PROVE  SInv'
  <1>1. SpaceType(links, tree, h, rcv)
    BY SpaceFacts DEF SInv, SpaceHolds, SpaceType
  <1>2. SpaceHolds(links, tree, h, rcv)
    BY <1>1 DEF SInv, SpaceHolds
  <1> QED BY <1>2 DEF SInv

\* Reserve has written as many blocks as have room, one after the other.
LEMMA Reserved ==
  ASSUME NEW n \in Nat, NEW K
  PROVE  \E m \in 0..n : (\A k \in 1..m : k \in K) /\ (m = n \/ m + 1 \notin K)
  <1> DEFINE J == {m \in 0..n : m = n \/ m + 1 \notin K}
  <1>1. J \in SUBSET Nat /\ J # {}
    <2>1. n \in J
      OBVIOUS
    <2> QED BY <2>1
  <1>2. PICK m \in J : \A k \in J : m <= k
    BY <1>1, Least
  <1>3. m \in 0..n /\ (m = n \/ m + 1 \notin K)
    BY <1>2
  <1>4. ASSUME NEW k \in 1..m PROVE k \in K
    <2>1. k - 1 \in 0..n /\ ~(m <= k - 1) /\ k - 1 # n /\ (k - 1) + 1 = k
      BY <1>3
    <2>2. k - 1 \notin J
      BY <2>1, <1>2
    <2> QED BY <2>1, <2>2
  <1> QED BY <1>3, <1>4

LEMMA AskKeeps ==
  ASSUME SInv, NEW n \in 0..2, Free!Ask(n)
  PROVE  SInv'
  <1> DEFINE U == Unused(tree, rcv.left, space.eod)
             known == space.space + space.newspace
             blk == space.eod + space.newspace
             m == n - known
             c == Free!Checked(n)
  <1>1. UNCHANGED <<links, tree, rcv>> /\ space' = c.hdr
    BY DEF Free!Ask
  <1>2. /\ space \in SpaceHdr /\ Counted(space, U) /\ (space.eof # 0 => space.eod <= space.eof)
        /\ Cardinality(U) \in Nat
    BY SpaceFacts DEF SInv, SpaceHolds, SpaceType
  <1>3. /\ space.space \in Int /\ space.eod \in 1..MaxBlk /\ space.eof \in 0..MaxBlk /\ space.newspace \in Nat
    BY <1>2 DEF SpaceHdr
  <1> HIDE DEF U
  <1>4. CASE c.hdr = space
    BY <1>4, <1>1, <1>2, HeaderOnly DEF U
  <1>5. CASE c.hdr # space
    <2>1. ~(n <= known) /\ space.eof = 0 /\ space.eod + n <= MaxBlk + space.space /\ c = Free!Reserve(blk, m)
      BY <1>5, <1>3, Sizes DEF Free!Checked
    <2>2. space.space = Cardinality(U)
      BY <2>1, <1>2, <1>3 DEF Counted
    <2>3. m \in Nat /\ blk \in Nat /\ blk < MaxBlk
      BY <2>1, <2>2, <1>2, <1>3, Sizes
    <2> HIDE DEF m, blk, c
    <2> DEFINE room(k) == blk + k <= MaxBlk /\ Free!Cardinality(os \union blk + 1 .. blk + k) <= Capacity
               wrote == CHOOSE w \in 0..m : (\A k \in 1..w : room(k)) /\ (w = m \/ ~room(w + 1))
               more == [space EXCEPT !.newspace = @ + wrote]
               h == IF wrote = m THEN more
                    ELSE [more EXCEPT !.eof = blk + wrote, !.space = @ + blk + wrote - space.eod]
    <2>4. c.hdr = h
      <3>1. Free!Reserve(blk, m).hdr = h
        BY DEF Free!Reserve
      <3> QED BY <2>1, <3>1
    <2>5. wrote \in 0..m /\ \A k \in 1..wrote : room(k)
      <3> HIDE DEF room
      <3> DEFINE K == {k \in Nat : room(k)}
      <3>1. PICK w \in 0..m : (\A k \in 1..w : k \in K) /\ (w = m \/ w + 1 \notin K)
        <4> HIDE DEF K
        <4> QED BY <2>3, Reserved
      <3>2. (\A k \in 1..w : room(k)) /\ (w = m \/ ~room(w + 1))
        BY <3>1
      <3> QED BY <3>2
    <2>10. wrote \in Nat
      BY <2>3, <2>5
    <2> HIDE DEF wrote
    <2>6. blk + wrote <= MaxBlk /\ blk + wrote \in Nat
      <3>1. CASE wrote = 0
        BY <3>1, <2>3, <2>10, Sizes
      <3>2. CASE wrote # 0
        <4>1. wrote \in 1..wrote
          BY <3>2, <2>10
        <4>2. room(wrote)
          <5> HIDE DEF room
          <5> QED BY <4>1, <2>5
        <4> QED BY <4>2, <2>3, <2>10, Sizes
      <3> QED BY <3>1, <3>2
    <2>7. blk >= space.eod
      BY <1>3 DEF blk
    <2> HIDE DEF room
    <2>8. CASE wrote = m
      <3>1. h = [space EXCEPT !.newspace = @ + wrote]
        BY <2>8
      <3>2. /\ h \in SpaceHdr /\ h.eod = space.eod /\ h.free = space.free /\ h.eof = space.eof /\ h.space = space.space
        <4> DEFINE w == space.newspace + wrote
        <4>1. w \in Nat /\ h = [space EXCEPT !.newspace = w]
          BY <3>1, <1>3, <2>10
        <4> HIDE DEF w, h
        <4> QED BY <4>1, <1>2 DEF SpaceHdr
      <3>3. Counted(h, U)
        BY <3>2, <1>2 DEF Counted
      <3> QED BY <3>2, <3>3, <1>1, <1>2, <2>4, HeaderOnly DEF U
    <2>9. CASE wrote # m
      <3> DEFINE e == blk + wrote
                 s == space.space + blk + wrote - space.eod
                 w == space.newspace + wrote
      <3>1. h = [space EXCEPT !.newspace = w, !.eof = e, !.space = s]
        <4>1. h = [more EXCEPT !.eof = e, !.space = s]
          BY <2>9, <1>2 DEF SpaceHdr
        <4> QED BY <4>1, <1>2 DEF SpaceHdr
      <3>2. w \in Nat /\ e \in 0..MaxBlk /\ e >= space.eod /\ e # 0 /\ s \in Int /\ s = Cardinality(U) + (e - space.eod)
        BY <1>2, <1>3, <2>2, <2>3, <2>5, <2>6, <2>7
      <3> HIDE DEF w, e, s, h
      <3>3. /\ h \in SpaceHdr /\ h.eod = space.eod /\ h.free = space.free /\ h.eof = e /\ h.space = s
        BY <3>1, <3>2, <1>2, <1>3 DEF SpaceHdr
      <3>4. Counted(h, U)
        BY <3>2, <3>3 DEF Counted
      <3> QED BY <3>2, <3>3, <3>4, <1>1, <2>4, HeaderOnly DEF U
    <2> QED BY <2>8, <2>9
  <1> QED BY <1>4, <1>5

\* The blocks with the old root stay the ones left.
LEMMA StillLeft ==
  ASSUME SInv, rcv' = rcv, rcv.old # 0 => tree'[rcv.old] = <<>>,
         rcv.old # 0 => \A b \in Free!Blk : links'[b].root = rcv.old <=> links[b].root = rcv.old
  PROVE  Recovering(links', tree', rcv')
  <1>1. Recovering(links, tree, rcv)
    BY DEF SInv, SpaceHolds
  <1>2. CASE rcv.old = 0
    BY <1>1, <1>2 DEF Recovering
  <1>3. CASE rcv.old # 0
    <2>1. {b \in Free!Blk : links'[b].root = rcv.old} = {b \in Free!Blk : links[b].root = rcv.old}
      BY <1>3
    <2> QED BY <2>1, <1>1, <1>3 DEF Recovering
  <1> QED BY <1>2, <1>3

LEMMA SameCount == \A S : Free!Cardinality(S) = Cardinality(S)
  BY DEF Free!Cardinality, Cardinality

\* What is true of the parts, for a step that frees the blocks of S.
Freeing(S, e, tr, h) ==
  LET U == Unused(tree, rcv.left, space.eod)
  IN  /\ S \subseteq LiveIn(tree)
      /\ e \in [Free!Blk -> Link] /\ tr \in [Free!Blk -> Seq(Seq(Free!Blk))] /\ FilesPlaced(e, tr)
      /\ LiveIn(tr) = LiveIn(tree) \ S
      /\ \A b \in Free!Blk : b \notin LiveIn(tree) => e[b] = links[b]
      /\ FreeChain(e, h.free, U \union S)
      /\ \E f \in 0..MaxBlk : h = [space EXCEPT !.free = f, !.space = @ + Cardinality(S)]

LEMMA Frees ==
  ASSUME SInv, NEW S, NEW h, Freeing(S, links', tree', h), space' = h, Recovering(links', tree', rcv'), rcv' = rcv
  PROVE  SInv'
  <1> DEFINE U == Unused(tree, rcv.left, space.eod)
             n == Cardinality(S)
  <1>1. /\ space \in SpaceHdr /\ rcv \in Rcvr /\ U \subseteq Free!Blk /\ IsFiniteSet(U) /\ Cardinality(U) \in Nat
        /\ LiveIn(tree) \subseteq 1..space.eod /\ rcv.left \subseteq 1..space.eod
        /\ space.eod \in 1..MaxBlk /\ Counted(space, U) /\ (space.eof # 0 => space.eod <= space.eof)
        /\ \A b \in rcv.left : b \notin LiveIn(tree)
        /\ \A b \in Free!Blk : b > space.eod => links[b].root = 0
    BY SpaceFacts DEF SInv, SpaceHolds, SpaceType
  <1>2. /\ S \subseteq LiveIn(tree) /\ LiveIn(tree') = LiveIn(tree) \ S
        /\ \A b \in Free!Blk : b \notin LiveIn(tree) => links'[b] = links[b]
        /\ FilesPlaced(links', tree')
        /\ FreeChain(links', h.free, U \union S)
        /\ links' \in [Free!Blk -> Link] /\ tree' \in [Free!Blk -> Seq(Seq(Free!Blk))]
    BY DEF Freeing
  <1>3. S \subseteq Free!Blk /\ U \intersect S = {}
    BY <1>1, <1>2, Sizes DEF Unused
  <1>4. IsFiniteSet(S) /\ n \in Nat
    BY <1>3, SomeBlocks, Sizes
  <1>5. PICK f \in 0..MaxBlk : h = [space EXCEPT !.free = f, !.space = @ + n]
    BY DEF Freeing
  <1>6. h \in SpaceHdr /\ h.eod = space.eod /\ h.eof = space.eof /\ h.space = space.space + n
    <2> HIDE DEF n
    <2>1. space.space + n \in Int /\ space.space \in Int
      BY <1>1, <1>4 DEF SpaceHdr
    <2> QED BY <2>1, <1>1, <1>5 DEF SpaceHdr
  <1>7. Unused(tree', rcv'.left, space'.eod) = U \union S
    BY <1>1, <1>2, <1>6 DEF Unused
  <1>8. Counted(space', U \union S)
    <2>1. Cardinality(U \union S) = Cardinality(U) + n
      <3> HIDE DEF U
      <3>1. Cardinality(U \union S) = Cardinality(U) + Cardinality(S) - Cardinality(U \intersect S)
        BY <1>1, <1>4, FS_Union
      <3>2. Cardinality(U \intersect S) = 0
        BY <1>3, FS_EmptySet
      <3> QED BY <3>1, <3>2, <1>1, <1>4
    <2> HIDE DEF U, n
    <2> QED BY <2>1, <1>1, <1>4, <1>6 DEF Counted, SpaceHdr
  <1>9. SpaceType(links', tree', space', rcv')
    <2>1. \A b \in Free!Blk : b > h.eod => links'[b].root = 0
      <3>1. SUFFICES ASSUME NEW b \in Free!Blk, b > h.eod PROVE links'[b].root = 0
        OBVIOUS
      <3>2. b \notin LiveIn(tree)
        BY <3>1, <1>1, <1>6, Sizes
      <3> QED BY <3>1, <3>2, <1>1, <1>2, <1>6
    <2> QED BY <2>1, <1>1, <1>2, <1>6 DEF SpaceType
  <1> QED BY <1>2, <1>7, <1>8, <1>9 DEF SInv, SpaceHolds

LEMMA FreeBlockKeeps ==
  ASSUME SInv, NEW r \in Free!Files, NEW l, NEW i, Free!FreeBlock(r, l, i)
  PROVE  SInv'
  <1> DEFINE s == tree[r]
             b == s[l][i]
             t == [s EXCEPT ![l] = Free!RemoveAt(@, i)]
             U == Unused(tree, rcv.left, space.eod)
             h == [space EXCEPT !.free = b, !.space = @ + 1]
  <1>1. /\ links \in [Free!Blk -> Link] /\ tree \in [Free!Blk -> Seq(Seq(Free!Blk))] /\ space \in SpaceHdr
        /\ FilesPlaced(links, tree) /\ r \in FilesOf(tree) /\ space.free \in 0..MaxBlk
        /\ U \subseteq Free!Blk /\ FreeChain(links, space.free, U)
    BY SpaceFacts DEF SInv, SpaceHolds
  <1>2. r \in Free!Blk /\ Levels(r, s) /\ Placed(links, r, s)
    BY <1>1 DEF FilesPlaced, FilesOf
  <1>3. l \in 2..Len(s) /\ i \in 1..Len(s[l]) /\ Len(s[l]) > 1 /\ b \in Free!Blk
    <2>1. l \in 2..Len(s) /\ i \in DOMAIN s[l] /\ Len(s[l]) > 1
      BY DEF Free!FreeBlock
    <2>2. l \in 1..Len(s)
      BY <2>1, <1>2, LevelTypes
    <2> QED BY <2>1, <2>2, <1>2, LevelTypes
  <1>4. /\ tree' = [tree EXCEPT ![r] = t] /\ rcv' = rcv
        /\ links' = [c \in Free!Blk |-> IF c = b THEN Free!Deleted(b)[c] ELSE Free!Grown(r, t)[c]]
        /\ space' = h
    BY DEF Free!FreeBlock
  <1>5. Levels(r, t) /\ Free!Blocks(t) = Free!Blocks(s) \ {b}
    <2> HIDE DEF s
    <2>1. l \in 2..Len(s) /\ i \in 1..Len(s[l]) /\ Len(s[l]) > 1 /\ r \in Free!Blk /\ Levels(r, s)
      BY <1>2, <1>3
    <2> HIDE DEF b, t
    <2>2. Levels(r, Without(s, l, i)) /\ Free!Blocks(Without(s, l, i)) = Free!Blocks(s) \ {s[l][i]}
      BY <2>1, Removed
    <2> QED BY <2>2 DEF b, t, Without
  <1>6. b \in Free!Blocks(s)
    <2>1. l \in 1..Len(s)
      BY <1>2, <1>3, LevelTypes
    <2> QED BY <2>1, <1>2, <1>3, BlocksAre
  <1> HIDE DEF t, b
  <1>7. \A c \in Free!Blocks(s) : c \in LiveIn(tree) /\ links[c].root = r /\ c \in Free!Blk
    BY <1>1, <1>2, LiveIs
  <1> HIDE DEF s
  <1>8. /\ Free!Grown(r, t) \in [Free!Blk -> Link] /\ Placed(Free!Grown(r, t), r, t)
        /\ \A c \in Free!Blk : c \notin Free!Blocks(t) => Free!Grown(r, t)[c] = links[c]
    BY <1>1, <1>2, <1>5, GrownIs
  <1>9. Free!Deleted(b)[b] \in Link /\ Free!Deleted(b)[b].root = 0 /\ Free!Deleted(b)[b].son = space.free
    <2> DEFINE v == [Free!Empty EXCEPT !.son = space.free]
    <2>1. v.root = 0 /\ v.son = space.free /\ v \in Link
      BY <1>1, Blank
    <2>2. Free!Deleted(b)[b] = v
      BY <1>1, <1>3 DEF Free!Deleted
    <2> HIDE DEF v
    <2> QED BY <2>1, <2>2
  <1>10. /\ links' \in [Free!Blk -> Link] /\ links'[b].root = 0 /\ links'[b].son = space.free
         /\ \A c \in Free!Blk : c # b => links'[c] = Free!Grown(r, t)[c]
    BY <1>3, <1>4, <1>8, <1>9
  <1>11. Placed(links', r, t)
    <2> DEFINE e == links'
               g == Free!Grown(r, t)
    <2>1. \A c \in Free!Blocks(t) : e[c] = g[c]
      BY <1>5, <1>7, <1>10
    <2>2. Placed(g, r, t)
      BY <1>8
    <2> HIDE DEF e, g
    <2>3. Placed(e, r, t)
      BY <2>1, <2>2, <1>2, <1>5, PlacedSame
    <2> QED BY <2>3 DEF e
  <1>12. \A c \in Free!Blk : c \notin Free!Blocks(s) => links'[c] = links[c]
    BY <1>5, <1>6, <1>8, <1>10
  <1>13. FilesPlaced(links', tree') /\ tree' \in [Free!Blk -> Seq(Seq(Free!Blk))]
    <2> DEFINE e == links'
    <2>1. \A c \in LiveIn(tree) \ Free!Blocks(tree[r]) : e[c] = links[c]
      BY <1>1, <1>12, LiveIs DEF s
    <2> HIDE DEF e
    <2>2. OneChanges(links, e, tree, tree', r, t)
      BY <2>1, <1>1, <1>2, <1>4, <1>5, <1>11 DEF OneChanges, e
    <2>3. FilesPlaced(e, tree') /\ tree' \in [Free!Blk -> Seq(Seq(Free!Blk))]
      BY <2>2, FilesChange
    <2> QED BY <2>3 DEF e
  <1>14. LiveIn(tree') = LiveIn(tree) \ {b}
    <2>1. LiveIn(tree') = (LiveIn(tree) \ Free!Blocks(tree[r])) \union Free!Blocks(t)
      BY <1>1, <1>2, <1>4, LiveChange
    <2> QED BY <2>1, <1>5, <1>6, <1>7 DEF s
  <1>15. FreeChain(links', b, U \union {b})
    <2> DEFINE e == links'
    <2>1. b \notin U /\ \A c \in U : e[c] = links[c]
      BY <1>1, <1>6, <1>7, <1>12 DEF Unused
    <2>2. e[b].root = 0 /\ e[b].son = space.free
      BY <1>10
    <2> HIDE DEF U, e
    <2>3. FreeChain(e, b, U \union {b})
      BY <2>1, <2>2, <1>1, <1>3, ChainPush
    <2> QED BY <2>3 DEF e
  <1>16. Freeing({b}, links', tree', h)
    <2>1. Cardinality({b}) = 1
      BY FS_Singleton
    <2>2. h.free = b /\ h = [space EXCEPT !.free = b, !.space = @ + Cardinality({b})] /\ b \in 0..MaxBlk
      <3>1. h = [space EXCEPT !.free = b, !.space = @ + Cardinality({b})]
        BY <2>1
      <3>2. h.free = b
        BY <1>1 DEF SpaceHdr
      <3> QED BY <3>1, <3>2, <1>3, Sizes
    <2>3. {b} \subseteq LiveIn(tree) /\ \A c \in Free!Blk : c \notin LiveIn(tree) => links'[c] = links[c]
      BY <1>6, <1>7, <1>12
    <2> HIDE DEF h
    <2> QED BY <2>2, <2>3, <1>10, <1>13, <1>14, <1>15 DEF Freeing
  <1>17. Recovering(links', tree', rcv')
    <2>1. rcv.old # 0 => rcv.old # r /\ tree'[rcv.old] = <<>>
      <3>1. rcv.old # 0 => rcv.old \in Free!Blk
        BY SpaceFacts, Sizes DEF Rcvr
      <3> QED BY <3>1, <1>1, <1>4, SpaceFacts DEF FilesOf
    <2>2. \A c \in Free!Blocks(s) : links'[c].root \in {0, r}
      <3>1. \A c \in Free!Blocks(t) : links'[c].root = r
        BY <1>2, <1>5, <1>11, RootOf
      <3> QED BY <3>1, <1>5, <1>10
    <2>3. rcv.old # 0 => \A c \in Free!Blk : links'[c].root = rcv.old <=> links[c].root = rcv.old
      BY <2>1, <2>2, <1>7, <1>12
    <2> QED BY <2>1, <2>3, <1>4, StillLeft
  <1> QED BY <1>4, <1>16, <1>17, Frees

LEMMA KillKeeps ==
  ASSUME SInv, NEW r \in Free!Files, Free!Kill(r)
  PROVE  SInv'
  <1> DEFINE s == tree[r]
             c == Free!Chained(r)
             e == [c.disk EXCEPT ![r] = Free!Deleted(r)[r]]
             U == Unused(tree, rcv.left, space.eod)
             S == Free!Blocks(s)
             h == [space EXCEPT !.free = c.free, !.space = @ + Free!Cardinality(S)]
  <1>1. /\ links \in [Free!Blk -> Link] /\ tree \in [Free!Blk -> Seq(Seq(Free!Blk))] /\ space \in SpaceHdr
        /\ FilesPlaced(links, tree) /\ r \in FilesOf(tree) /\ space.free \in 0..MaxBlk
        /\ U \subseteq Free!Blk /\ FreeChain(links, space.free, U)
    BY SpaceFacts DEF SInv, SpaceHolds
  <1>2. r \in Free!Blk /\ Levels(r, s) /\ Placed(links, r, s)
    BY <1>1 DEF FilesPlaced, FilesOf
  <1>3. /\ tree' = [tree EXCEPT ![r] = <<>>] /\ rcv' = rcv /\ links' = e /\ space' = h
    BY DEF Free!Kill
  <1>4. \A b \in S : b \in LiveIn(tree) /\ links[b].root = r /\ b \in Free!Blk
    BY <1>1, <1>2, LiveIs
  <1> HIDE DEF s
  <1>5. /\ c.free = LastOf(s) /\ e \in [Free!Blk -> Link] /\ Undone(e, r, s, space.free)
        /\ \A b \in Free!Blk : b \notin S => e[b] = links[b]
    BY <1>1, <1>2, Killed
  <1> HIDE DEF c, e
  <1>6. FilesPlaced(e, tree') /\ tree' \in [Free!Blk -> Seq(Seq(Free!Blk))]
    <2>1. \A b \in LiveIn(tree) \ Free!Blocks(tree[r]) : e[b] = links[b]
      BY <1>1, <1>5, LiveIs DEF s
    <2>2. OneChanges(links, e, tree, tree', r, <<>>)
      BY <2>1, <1>1, <1>2, <1>3 DEF OneChanges
    <2> QED BY <2>2, FilesChange
  <1>7. LiveIn(tree') = LiveIn(tree) \ S
    <2>1. LiveIn(tree') = (LiveIn(tree) \ Free!Blocks(tree[r])) \union Free!Blocks(<<>>)
      BY <1>1, <1>2, <1>3, LiveChange
    <2> QED BY <2>1, NoBlocks DEF s
  <1>8. FreeChain(e, c.free, U \union S)
    <2>1. (\A b \in S : b \notin U) /\ \A b \in U : e[b] = links[b]
      BY <1>1, <1>4, <1>5 DEF Unused
    <2> HIDE DEF U
    <2>2. FreeChain(links, space.free, U) /\ U \in SUBSET Free!Blk /\ Undone(e, r, s, space.free)
          /\ r \in Free!Blk /\ Levels(r, s)
      BY <1>1, <1>2, <1>5
    <2>3. FreeChain(e, LastOf(s), U \union Free!Blocks(s))
      BY <2>1, <2>2, ChainFile
    <2> QED BY <2>3, <1>5
  <1>9. c.free \in 0..MaxBlk
    <2>1. Len(s) \in 1..Len(s) /\ Len(s[Len(s)]) \in 1..Len(s[Len(s)])
      BY <1>2, LevelTypes
    <2> QED BY <2>1, <1>2, <1>5, LevelTypes, Sizes DEF LastOf
  <1>10. Freeing(S, e, tree', h)
    <2>1. h = [space EXCEPT !.free = c.free, !.space = @ + Cardinality(S)] /\ h.free = c.free
      BY <1>1, SameCount DEF SpaceHdr
    <2>2. S \subseteq LiveIn(tree) /\ \A b \in Free!Blk : b \notin LiveIn(tree) => e[b] = links[b]
      BY <1>4, <1>5
    <2> HIDE DEF h, S
    <2> QED BY <2>1, <2>2, <1>5, <1>6, <1>7, <1>8, <1>9 DEF Freeing
  <1>11. Recovering(links', tree', rcv')
    <2>1. rcv.old # 0 => rcv.old # r /\ tree'[rcv.old] = <<>>
      <3>1. rcv.old # 0 => rcv.old \in Free!Blk
        BY SpaceFacts, Sizes DEF Rcvr
      <3> QED BY <3>1, <1>1, <1>3, SpaceFacts DEF FilesOf
    <2>2. \A b \in S : e[b].root \in {0, r}
      <3>1. SUFFICES ASSUME NEW b \in S PROVE e[b].root \in {0, r}
        OBVIOUS
      <3>2. PICK l \in 1..Len(s) : \E i \in 1..Len(s[l]) : b = s[l][i]
        BY <3>1, <1>2, BlocksAre
      <3>3. PICK i \in 1..Len(s[l]) : b = s[l][i]
        BY <3>2
      <3>4. CASE l = 1
        BY <3>3, <3>4, <1>2, <1>5 DEF Levels, Undone
      <3>5. CASE l # 1
        <4>1. l \in 2..Len(s)
          BY <3>5, <1>2, LevelTypes
        <4> QED BY <4>1, <3>3, <1>5 DEF Undone
      <3> QED BY <3>4, <3>5
    <2>3. rcv.old # 0 => \A b \in Free!Blk : links'[b].root = rcv.old <=> links[b].root = rcv.old
      BY <2>1, <2>2, <1>3, <1>4, <1>5
    <2> QED BY <2>1, <2>3, <1>3, StillLeft
  <1> QED BY <1>3, <1>10, <1>11, Frees

\* Only what btrcvr has read changes.
LEMMA ReaderOnly ==
  ASSUME SInv, UNCHANGED <<links, tree, space>>, NEW rc \in Rcvr, rcv' = rc, rc.left = rcv.left,
         Recovering(links, tree, rc)
  PROVE  SInv'
  <1>1. SpaceType(links, tree, space, rc)
    BY DEF SInv, SpaceHolds, SpaceType
  <1>2. SpaceHolds(links, tree, space, rc)
    BY <1>1 DEF SInv, SpaceHolds
  <1> QED BY <1>2 DEF SInv

LEMMA FillKeeps ==
  ASSUME SInv, Free!Fill
  PROVE  SInv'
  <1> DEFINE upto == rcv.at + Batch
             new1 == {b \in rcv.at + 1 .. upto : b <= rcv.upto /\ links[b].root = rcv.old}
             rc == [rcv EXCEPT !.at = upto, !.batch = new1]
  <1>1. rcv.old # 0 /\ rcv.batch = {} /\ rcv' = rc /\ UNCHANGED <<links, tree, space>>
    BY DEF Free!Fill
  <1>2. /\ rcv \in Rcvr /\ tree[rcv.old] = <<>> /\ rcv.left = {b \in Free!Blk : links[b].root = rcv.old}
        /\ rcv.left \subseteq 1..rcv.upto /\ rcv.left \subseteq {b \in Free!Blk : b > rcv.at}
        /\ rcv.need \subseteq rcv.left /\ rcv.copied = FALSE
    <2>1. rcv \in Rcvr /\ Recovering(links, tree, rcv)
      BY SpaceFacts DEF SInv, SpaceHolds
    <2>2. rcv.copied \in BOOLEAN
      BY <2>1 DEF Rcvr
    <2> QED BY <2>1, <2>2, <1>1 DEF Recovering
  <1>3. rcv.at \in Nat /\ rcv.upto \in 0..MaxBlk /\ upto \in Nat
    BY <1>2, Sizes DEF Rcvr
  <1>4. new1 = {b \in rcv.left : b <= upto}
    <2>1. \A b \in rcv.left : b \in rcv.at + 1 .. rcv.upto
      BY <1>2, <1>3, Sizes
    <2>2. \A b \in rcv.at + 1 .. upto : b <= rcv.upto => b \in Free!Blk
      BY <1>3, Sizes
    <2> HIDE DEF upto
    <2> QED BY <2>1, <2>2, <1>2, <1>3
  <1>5. rc = [rcv EXCEPT !.at = upto, !.batch = new1] /\ new1 \subseteq rcv.left
    BY <1>4
  <1> HIDE DEF new1, rc
  <1>6. /\ rc \in Rcvr /\ rc.left = rcv.left /\ rc.at = upto /\ rc.batch = new1 /\ rc.old = rcv.old /\ rc.upto = rcv.upto
        /\ rc.need = rcv.need /\ rc.copied = FALSE
    <2> HIDE DEF upto
    <2>1. rcv.left \subseteq Free!Blk
      BY <1>2
    <2> QED BY <2>1, <1>2, <1>3, <1>5 DEF Rcvr
  <1>7. Recovering(links, tree, rc)
    <2>1. rc.left \subseteq rc.batch \union {b \in Free!Blk : b > rc.at}
      <3>1. SUFFICES ASSUME NEW b \in rcv.left, ~(b <= upto) PROVE b \in Free!Blk /\ b > upto
        BY <1>4, <1>6
      <3> QED BY <3>1, <1>2, <1>3, Sizes
    <2> HIDE DEF upto
    <2> QED BY <2>1, <1>1, <1>2, <1>5, <1>6 DEF Recovering
  <1> QED BY <1>1, <1>6, <1>7, ReaderOnly

\* The block donode has before it is the first of those read.
LEMMA CurrentIs ==
  ASSUME SInv, rcv.batch # {}
  PROVE  Free!Current \in rcv.batch /\ Free!Current \in Free!Blk /\ \A c \in rcv.batch : Free!Current <= c
  <1>1. rcv.batch \in SUBSET Free!Blk
    BY SpaceFacts DEF Rcvr
  <1>2. rcv.batch \in SUBSET Nat
    BY <1>1, Sizes
  <1>3. \E b \in rcv.batch : \A c \in rcv.batch : b <= c
    BY <1>2, Least
  <1> QED BY <1>1, <1>3 DEF Free!Current

LEMMA CopyKeeps ==
  ASSUME SInv, Free!Copy
  PROVE  SInv'
  <1> DEFINE C == Free!Current
             rc == [rcv EXCEPT !.need = @ \ {C}, !.copied = TRUE]
  <1>1. rcv.batch # {} /\ rcv' = rc /\ UNCHANGED <<links, tree, space>>
    BY DEF Free!Copy
  <1>2. C \in rcv.batch /\ C \in Free!Blk /\ \A c \in rcv.batch : C <= c
    BY <1>1, CurrentIs
  <1> HIDE DEF C
  <1>3. rcv \in Rcvr /\ Recovering(links, tree, rcv)
    BY SpaceFacts DEF SInv, SpaceHolds
  <1>4. rcv.old # 0
    BY <1>1, <1>3 DEF Recovering, Free!Idle
  <1>5. /\ rc \in Rcvr /\ rc.left = rcv.left /\ rc.at = rcv.at /\ rc.batch = rcv.batch /\ rc.old = rcv.old
        /\ rc.upto = rcv.upto /\ rc.need = rcv.need \ {C}
    BY <1>3 DEF Rcvr
  <1>6. \A b \in rc.need \intersect rc.batch : \E c \in rc.batch : c < b
    <2>1. SUFFICES ASSUME NEW b \in rcv.batch, b # C PROVE C < b
      BY <1>2, <1>5
    <2>2. b \in Free!Blk /\ C <= b
      BY <2>1, <1>2, <1>3 DEF Rcvr
    <2> QED BY <2>1, <2>2, <1>2, Sizes
  <1> HIDE DEF rc
  <1>7. Recovering(links, tree, rc)
    BY <1>1, <1>3, <1>4, <1>5, <1>6 DEF Recovering
  <1> QED BY <1>1, <1>5, <1>7, ReaderOnly

LEMMA AgainKeeps ==
  ASSUME SInv, Free!Again
  PROVE  SInv'
  <1> DEFINE rc == [rcv EXCEPT !.at = 0, !.upto = space.eod, !.batch = {}, !.copied = FALSE]
  <1>1. rcv.old # 0 /\ rcv' = rc /\ UNCHANGED <<links, tree, space>>
    BY DEF Free!Again
  <1>2. /\ rcv \in Rcvr /\ Recovering(links, tree, rcv) /\ rcv.left \subseteq 1..space.eod /\ space.eod \in 1..MaxBlk
        /\ rcv.left \subseteq Free!Blk
    BY SpaceFacts DEF SInv, SpaceHolds
  <1>3. /\ rc \in Rcvr /\ rc.left = rcv.left /\ rc.at = 0 /\ rc.batch = {} /\ rc.old = rcv.old /\ rc.upto = space.eod
        /\ rc.need = rcv.need /\ rc.copied = FALSE
    <2> DEFINE n == space.eod
    <2>1. n \in 0..MaxBlk /\ rc = [rcv EXCEPT !.at = 0, !.upto = n, !.batch = {}, !.copied = FALSE]
      BY <1>2, Sizes
    <2> HIDE DEF n, rc
    <2>2. /\ rc \in Rcvr /\ rc.left = rcv.left /\ rc.at = 0 /\ rc.batch = {} /\ rc.old = rcv.old /\ rc.upto = n
          /\ rc.need = rcv.need /\ rc.copied = FALSE
      BY <2>1, <1>2 DEF Rcvr
    <2> QED BY <2>2 DEF n
  <1> HIDE DEF rc
  <1>4. Recovering(links, tree, rc)
    <2>1. rc.left \subseteq rc.batch \union {b \in Free!Blk : b > rc.at}
      BY <1>2, <1>3, Sizes
    <2> QED BY <2>1, <1>1, <1>2, <1>3 DEF Recovering
  <1> QED BY <1>1, <1>3, <1>4, ReaderOnly

LEMMA EndKeeps ==
  ASSUME SInv, Free!RecoveryEnds
  PROVE  SInv'
  <1>1. rcv.old # 0 /\ rcv.batch = {} /\ rcv.at >= rcv.upto /\ rcv' = Free!Idle /\ UNCHANGED <<links, tree, space>>
    BY DEF Free!RecoveryEnds
  <1>2. rcv \in Rcvr /\ Recovering(links, tree, rcv)
    BY SpaceFacts DEF SInv, SpaceHolds
  <1>3. rcv.left = {}
    <2>1. rcv.at \in Nat /\ rcv.upto \in 0..MaxBlk
      BY <1>2 DEF Rcvr
    <2>2. \A b \in rcv.left : b \in 1..rcv.upto /\ b > rcv.at
      BY <1>1, <1>2 DEF Recovering
    <2> QED BY <2>1, <2>2, <1>1, Sizes
  <1>4. /\ Free!Idle \in Rcvr /\ Free!Idle.left = rcv.left
        /\ Recovering(links, tree, Free!Idle)
    BY <1>3, Sizes DEF Rcvr, Free!Idle, Recovering
  <1> QED BY <1>1, <1>4, ReaderOnly

\* The files are as they were where their blocks are.
LEMMA FilesSame ==
  ASSUME NEW d, NEW e, NEW tr, FilesPlaced(d, tr), \A b \in LiveIn(tr) : e[b] = d[b]
  PROVE  FilesPlaced(e, tr)
  <1>1. ASSUME NEW r \in FilesOf(tr) PROVE Levels(r, tr[r]) /\ Placed(e, r, tr[r])
    <2>1. r \in Free!Blk /\ Levels(r, tr[r]) /\ Placed(d, r, tr[r])
      BY <1>1 DEF FilesPlaced, FilesOf
    <2>2. \A b \in Free!Blocks(tr[r]) : e[b] = d[b]
      BY <2>1, LiveIs
    <2> QED BY <2>1, <2>2, PlacedSame
  <1> QED BY <1>1 DEF FilesPlaced

LEMMA FreeCopiedKeeps ==
  ASSUME SInv, Free!FreeCopied
  PROVE  SInv'
  <1> DEFINE C == Free!Current
             U == Unused(tree, rcv.left, space.eod)
             v == [Free!Empty EXCEPT !.son = space.free]
             e == [links EXCEPT ![C] = v]
             h == [space EXCEPT !.free = C, !.space = @ + 1]
             rc == [rcv EXCEPT !.batch = @ \ {C}, !.left = @ \ {C}, !.copied = FALSE]
  <1>1. rcv.copied /\ links' = e /\ space' = h /\ rcv' = rc /\ tree' = tree
    BY DEF Free!FreeCopied, Free!Freed, Free!Deleted
  <1>2. /\ links \in [Free!Blk -> Link] /\ space \in SpaceHdr /\ rcv \in Rcvr /\ Recovering(links, tree, rcv)
        /\ FilesPlaced(links, tree) /\ space.free \in 0..MaxBlk /\ U \subseteq Free!Blk
        /\ FreeChain(links, space.free, U) /\ Counted(space, U) /\ IsFiniteSet(U) /\ Cardinality(U) \in Nat
        /\ LiveIn(tree) \subseteq Free!Blk /\ rcv.left \subseteq 1..space.eod
        /\ \A b \in rcv.left : b \notin LiveIn(tree)
        /\ SpaceType(links, tree, space, rcv)
    BY SpaceFacts, LiveIs DEF SInv, SpaceHolds
  <1>3. /\ rcv.old # 0 /\ rcv.batch # {} /\ rcv.batch \subseteq rcv.left /\ rcv.need \subseteq rcv.left
        /\ \A b \in rcv.need \intersect rcv.batch : \E c \in rcv.batch : c < b
        /\ tree[rcv.old] = <<>>
        /\ rcv.left = {b \in Free!Blk : links[b].root = rcv.old}
        /\ rcv.left \subseteq 1..rcv.upto /\ rcv.left \subseteq rcv.batch \union {b \in Free!Blk : b > rcv.at}
    BY <1>1, <1>2 DEF Recovering, Free!Idle
  <1>4. C \in rcv.batch /\ C \in Free!Blk /\ \A c \in rcv.batch : C <= c
    BY <1>3, CurrentIs
  <1> HIDE DEF C
  <1>5. v.root = 0 /\ v.son = space.free /\ v \in Link
    BY <1>2, Blank
  <1> HIDE DEF v
  <1>6. /\ e \in [Free!Blk -> Link] /\ e[C].root = 0 /\ e[C].son = space.free
        /\ \A b \in Free!Blk : b # C => e[b] = links[b]
    BY <1>2, <1>4, <1>5
  <1> HIDE DEF e
  <1>7. C \in rcv.left /\ C \notin LiveIn(tree) /\ C \notin U /\ C \in 1..space.eod
    BY <1>2, <1>3, <1>4 DEF Unused
  <1>8. C \notin rcv.need
    <2>1. \A c \in rcv.batch : c \in Free!Blk /\ ~(c < C)
      BY <1>2, <1>3, <1>4, Sizes DEF Rcvr
    <2> QED BY <2>1, <1>3, <1>4
  <1>9. /\ h \in SpaceHdr /\ h.eod = space.eod /\ h.eof = space.eof /\ h.space = space.space + 1 /\ h.free = C
    <2>1. space.space + 1 \in Int /\ C \in 0..MaxBlk
      BY <1>2, <1>4, Sizes DEF SpaceHdr
    <2> QED BY <2>1, <1>2 DEF SpaceHdr
  <1>10. /\ rc \in Rcvr /\ rc.left = rcv.left \ {C} /\ rc.batch = rcv.batch \ {C} /\ rc.need = rcv.need
         /\ rc.copied = FALSE /\ rc.old = rcv.old /\ rc.upto = rcv.upto /\ rc.at = rcv.at
    BY <1>2 DEF Rcvr
  <1> HIDE DEF h, rc
  <1>11. FilesPlaced(e, tree)
    <2>1. \A b \in LiveIn(tree) : e[b] = links[b]
      BY <1>2, <1>6, <1>7
    <2> QED BY <2>1, <1>2, FilesSame
  <1>12. Recovering(e, tree, rc)
    <2>1. rc.left = {b \in Free!Blk : e[b].root = rc.old}
      BY <1>3, <1>4, <1>6, <1>10
    <2>2. /\ rc.left \subseteq 1..rc.upto /\ rc.left \subseteq rc.batch \union {b \in Free!Blk : b > rc.at}
          /\ rc.batch \subseteq rc.left /\ rc.need \subseteq rc.left
      BY <1>3, <1>8, <1>10
    <2> QED BY <2>1, <2>2, <1>3, <1>10 DEF Recovering
  <1>13. Unused(tree, rc.left, h.eod) = U \union {C}
    BY <1>7, <1>9, <1>10 DEF Unused
  <1>14. FreeChain(e, h.free, U \union {C})
    <2>1. \A b \in U : e[b] = links[b]
      BY <1>2, <1>6, <1>7
    <2> HIDE DEF U
    <2> QED BY <2>1, <1>2, <1>4, <1>6, <1>7, <1>9, ChainPush
  <1>15. Counted(h, U \union {C})
    <2> HIDE DEF U
    <2>1. Cardinality(U \union {C}) = Cardinality(U) + 1
      BY <1>2, <1>7, FS_AddElement
    <2> QED BY <2>1, <1>2, <1>9 DEF Counted, SpaceHdr
  <1>16. SpaceType(e, tree, h, rc)
    BY <1>2, <1>6, <1>9, <1>10 DEF SpaceType
  <1> QED BY <1>1, <1>11, <1>12, <1>13, <1>14, <1>15, <1>16 DEF SInv, SpaceHolds

LEMMA DisconnectKeeps ==
  ASSUME SInv, NEW r \in Free!Files, NEW n \in Free!Files, Free!Disconnect(r, n)
  PROVE  SInv'
  <1> DEFINE s == tree[r]
             U == Unused(tree, rcv.left, space.eod)
             rc == [Free!Idle EXCEPT !.old = r, !.new = n, !.upto = space.eod,
                    !.left = Free!Blocks(s), !.need = Free!Leaves(r)]
  <1>1. rcv = Free!Idle /\ rcv' = rc /\ tree' = [tree EXCEPT ![r] = <<>>] /\ links' = links /\ space' = space
    BY DEF Free!Disconnect
  <1>2. /\ links \in [Free!Blk -> Link] /\ tree \in [Free!Blk -> Seq(Seq(Free!Blk))]
        /\ FilesPlaced(links, tree) /\ r \in FilesOf(tree) /\ n \in FilesOf(tree) /\ U \subseteq Free!Blk
        /\ FreeChain(links, space.free, U) /\ Counted(space, U)
        /\ LiveIn(tree) \subseteq 1..space.eod /\ space.eod \in 1..MaxBlk
        /\ SpaceType(links, tree, space, rcv)
        /\ \A b \in Free!Blk : b > space.eod => links[b].root = 0
    BY SpaceFacts DEF SInv, SpaceHolds
  <1>3. r \in Free!Blk /\ n \in Free!Blk /\ Levels(r, s) /\ Placed(links, r, s)
    BY <1>2 DEF FilesPlaced, FilesOf
  <1>4. /\ \A b \in Free!Blocks(s) : b \in LiveIn(tree) /\ links[b].root = r /\ b \in Free!Blk
        /\ \A b \in LiveIn(tree) : \E x \in Free!Blk : b \in Free!Blocks(tree[x]) /\ links[b].root = x
        /\ r \in LiveIn(tree)
    BY <1>2, <1>3, LiveIs, SMTT(60)
  <1>5. rcv.left = {}
    BY <1>1 DEF Free!Idle
  <1>6. \A b \in Free!Blk : links[b].root = r <=> b \in Free!Blocks(s)
    <2>1. SUFFICES ASSUME NEW b \in Free!Blk, links[b].root = r PROVE b \in Free!Blocks(s)
      BY <1>4
    <2>2. r # 0
      BY <1>3, Sizes
    <2>3. b \in 1..space.eod
      BY <2>1, <2>2, <1>2, Sizes
    <2>4. b \notin U
      <3>1. b \in U => r \in U
        <4> HIDE DEF U
        <4> QED BY <2>1, <2>2, <1>2, ChainEnds
      <3> QED BY <3>1, <1>4 DEF Unused
    <2>5. b \in LiveIn(tree)
      BY <2>3, <2>4, <1>5 DEF Unused
    <2> QED BY <2>1, <2>5, <1>4
  <1>7. Free!Leaves(r) \subseteq Free!Blocks(s)
    <2>1. Len(s) \in DOMAIN s
      BY <1>3, LevelTypes
    <2> QED BY <2>1 DEF Free!Leaves, Free!Blocks
  <1> DEFINE B == Free!Blocks(s)
             N == Free!Leaves(r)
  <1>8. B \subseteq Free!Blk /\ N \subseteq B
    BY <1>4, <1>7
  <1>9. /\ rc = [Free!Idle EXCEPT !.old = r, !.new = n, !.upto = space.eod, !.left = B, !.need = N]
        /\ B = {b \in Free!Blk : links[b].root = r}
    BY <1>6, <1>8
  <1>10. B \subseteq 1..space.eod
    BY <1>2, <1>4
  <1>11. LiveIn(tree') = LiveIn(tree) \ B
    <2>1. LiveIn(tree') = (LiveIn(tree) \ Free!Blocks(tree[r])) \union Free!Blocks(<<>>)
      BY <1>1, <1>2, <1>3, LiveChange
    <2> QED BY <2>1, NoBlocks
  <1>12. FilesPlaced(links, tree') /\ tree' \in [Free!Blk -> Seq(Seq(Free!Blk))]
    <2>1. OneChanges(links, links, tree, tree', r, <<>>)
      BY <1>1, <1>2, <1>3 DEF OneChanges
    <2> QED BY <2>1, FilesChange
  <1>13. tree'[r] = <<>>
    BY <1>1, <1>2, <1>3
  <1> HIDE DEF B, N, rc
  <1>14. /\ rc \in Rcvr /\ rc.left = B /\ rc.need = N /\ rc.old = r /\ rc.upto = space.eod /\ rc.batch = {}
         /\ rc.at = 0 /\ rc.copied = FALSE
    <2>1. rc = [old |-> r, new |-> n, at |-> 0, upto |-> space.eod, batch |-> {}, copied |-> FALSE,
                left |-> B, need |-> N]
      BY <1>9 DEF Free!Idle
    <2>2. /\ r \in 0..MaxBlk /\ n \in 0..MaxBlk /\ space.eod \in 0..MaxBlk
          /\ B \in SUBSET Free!Blk /\ N \in SUBSET Free!Blk
      BY <1>2, <1>3, <1>8, Sizes
    <2> QED BY <2>1, <2>2 DEF Rcvr
  <1>15. Recovering(links, tree', rc)
    <2>1. rc.old # 0
      BY <1>3, <1>14, Sizes
    <2>2. rc.left \subseteq rc.batch \union {b \in Free!Blk : b > rc.at}
      BY <1>8, <1>14, Sizes
    <2> QED BY <2>1, <2>2, <1>8, <1>9, <1>10, <1>13, <1>14 DEF Recovering
  <1>16. Unused(tree', rc.left, space.eod) = U
    <2>1. B \subseteq LiveIn(tree)
      BY <1>4 DEF B
    <2> QED BY <2>1, <1>5, <1>11, <1>14 DEF Unused
  <1>17. SpaceType(links, tree', space, rc)
    BY <1>2, <1>10, <1>11, <1>12, <1>14 DEF SpaceType
  <1> QED BY <1>1, <1>2, <1>12, <1>15, <1>16, <1>17 DEF SInv, SpaceHolds

-----------------------------------------------------------------------------
\* fix/btfree: what has been found when the blocks up to n have been looked at.
Kinds == UNION {[D -> {"err", "del", "root", "node"}] : D \in SUBSET Free!Blk}
SweepState == [disk : [Free!Blk -> Link], free : 0..MaxBlk, types : Kinds, space : Int]
Found(n) == Unused(tree, rcv.left, space.eod) \intersect 1..n
SweptTo(st, n) ==
  /\ st \in SweepState
  /\ \A c \in Free!Blk : c \notin Found(n) => st.disk[c] = links[c]
  /\ \A c \in Found(n) : st.disk[c].root = 0
  /\ FreeChain(st.disk, st.free, Found(n))
  /\ st.space = Cardinality(Found(n)) + (IF space.eof # 0 THEN space.eof - space.eod ELSE 0)
  /\ \A r \in DOMAIN st.types : st.types[r] = "del" <=> r \in Unused(tree, rcv.left, space.eod)

LEMMA FoundIs ==
  ASSUME SInv, NEW n \in 0..space.eod
  PROVE  /\ Found(n) \subseteq Free!Blk /\ IsFiniteSet(Found(n)) /\ Cardinality(Found(n)) \in Nat
         /\ n + 1 \notin Found(n) /\ Found(0) = {} /\ Found(space.eod) = Unused(tree, rcv.left, space.eod)
         /\ Found(n + 1) = IF n + 1 \in Unused(tree, rcv.left, space.eod) THEN Found(n) \union {n + 1} ELSE Found(n)
  <1> DEFINE U == Unused(tree, rcv.left, space.eod)
  <1>1. U \subseteq Free!Blk /\ U \subseteq 1..space.eod /\ space.eod \in 1..MaxBlk /\ n \in Nat
    BY SpaceFacts DEF Unused
  <1>2. Found(n) \subseteq Free!Blk
    BY <1>1 DEF Found
  <1>3. IsFiniteSet(Found(n)) /\ Cardinality(Found(n)) \in Nat
    BY <1>2, SomeBlocks, Sizes
  <1>4. 1..(n + 1) = (1..n) \union {n + 1} /\ n + 1 \notin 1..n /\ 1..0 = {}
    BY <1>1
  <1> HIDE DEF U
  <1> QED BY <1>1, <1>2, <1>3, <1>4 DEF Found, U

LEMMA TypeIs ==
  ASSUME NEW d, NEW b \in Free!Blk
  PROVE  Free!Type(d, b) = IF d[b].root = 0 THEN "del" ELSE IF d[b].root = b THEN "root" ELSE "node"
  <1>1. b # 0
    BY Sizes
  <1> QED BY <1>1 DEF Free!Type

LEMMA NoKinds == <<>> \in Kinds /\ DOMAIN <<>> = {}
  <1> DEFINE K == {"err", "del", "root", "node"}
  <1>1. <<>> \in [{} -> K] /\ DOMAIN <<>> = {}
    <2>1. <<>> \in [1..0 -> K] /\ 1..0 = {}
      OBVIOUS
    <2> QED BY <2>1
  <1>2. {} \in SUBSET Free!Blk
    OBVIOUS
  <1> QED BY <1>1, <1>2 DEF Kinds

LEMMA SweepStart ==
  ASSUME SInv
  PROVE  SweptTo(Free!Cleared, 0)
  <1> DEFINE n == IF space.eof # 0 THEN space.eof - space.eod ELSE 0
             st == [disk |-> links, free |-> 0, types |-> <<>>, space |-> n]
  <1>1. Free!Cleared = st
    BY DEF Free!Cleared
  <1>2. links \in [Free!Blk -> Link] /\ n \in Int
    BY SpaceFacts DEF SpaceHdr
  <1>3. Found(0) = {}
    BY DEF Found
  <1> HIDE DEF n
  <1>4. st \in SweepState
    BY <1>2, NoKinds, Sizes DEF SweepState
  <1>5. FreeChain(links, 0, {})
    <2> DEFINE rk == [b \in Free!Blk |-> 0]
    <2>1. rk \in [Free!Blk -> Nat] /\ Ranked(links, 0, {}, rk)
      BY DEF Ranked
    <2> HIDE DEF rk
    <2> QED BY <2>1 DEF FreeChain
  <1>6. Cardinality({}) = 0
    BY FS_EmptySet
  <1>7. n = Cardinality({}) + (IF space.eof # 0 THEN space.eof - space.eod ELSE 0)
    BY <1>2, <1>6 DEF n
  <1>8. \A r \in DOMAIN st.types : FALSE
    BY NoKinds
  <1> QED BY <1>1, <1>3, <1>4, <1>5, <1>7, <1>8 DEF SweptTo

LEMMA SweepDel ==
  ASSUME SInv, NEW n \in 0..(space.eod - 1), NEW st, SweptTo(st, n), n + 1 \in Unused(tree, rcv.left, space.eod)
  PROVE  SweptTo(Free!Del(st, n + 1), n + 1)
  <1> DEFINE b == n + 1
             v == [Free!Empty EXCEPT !.son = st.free]
             e == [st.disk EXCEPT ![b] = v]
             x == [st EXCEPT !.disk = e, !.free = b, !.space = @ + 1]
             F == Found(n)
             G == Found(n + 1)
  <1>1. Free!Del(st, b) = x
    BY DEF Free!Del
  <1>2. /\ n \in 0..space.eod /\ space.eod \in 1..MaxBlk /\ b \in Free!Blk
    BY SpaceFacts, Sizes
  <1>3. /\ F \subseteq Free!Blk /\ IsFiniteSet(F) /\ Cardinality(F) \in Nat /\ b \notin F /\ G = F \union {b}
    BY <1>2, FoundIs
  <1>4. /\ st \in SweepState /\ (\A c \in Free!Blk : c \notin F => st.disk[c] = links[c])
        /\ (\A c \in F : st.disk[c].root = 0) /\ FreeChain(st.disk, st.free, F)
        /\ st.space = Cardinality(F) + (IF space.eof # 0 THEN space.eof - space.eod ELSE 0)
        /\ \A r \in DOMAIN st.types : st.types[r] = "del" <=> r \in Unused(tree, rcv.left, space.eod)
    BY DEF SweptTo
  <1>5. st.disk \in [Free!Blk -> Link] /\ st.free \in 0..MaxBlk /\ st.space \in Int
    BY <1>4 DEF SweepState
  <1>6. v.root = 0 /\ v.son = st.free /\ v \in Link
    BY <1>5, Blank
  <1> HIDE DEF v, F, G, b
  <1>7. /\ e \in [Free!Blk -> Link] /\ e[b].root = 0 /\ e[b].son = st.free
        /\ \A c \in Free!Blk : c # b => e[c] = st.disk[c]
    BY <1>2, <1>5, <1>6
  <1> HIDE DEF e
  <1>8. x \in SweepState /\ x.disk = e /\ x.free = b /\ x.space = st.space + 1 /\ x.types = st.types
    <2> DEFINE m == st.space + 1
    <2>1. m \in Int /\ b \in 0..MaxBlk /\ x = [st EXCEPT !.disk = e, !.free = b, !.space = m]
      BY <1>2, <1>5, Sizes
    <2> HIDE DEF m, x
    <2>2. x \in SweepState /\ x.disk = e /\ x.free = b /\ x.space = m /\ x.types = st.types
      BY <2>1, <1>4, <1>7 DEF SweepState
    <2> QED BY <2>2 DEF m
  <1> HIDE DEF x
  <1>9. FreeChain(e, b, G)
    BY <1>2, <1>3, <1>4, <1>7, ChainPush
  <1>10. x.space = Cardinality(G) + (IF space.eof # 0 THEN space.eof - space.eod ELSE 0)
    <2>1. Cardinality(G) = Cardinality(F) + 1
      BY <1>3, FS_AddElement
    <2>2. (IF space.eof # 0 THEN space.eof - space.eod ELSE 0) \in Int
      BY SpaceFacts DEF SpaceHdr
    <2> QED BY <2>1, <2>2, <1>3, <1>4, <1>8
  <1>11. /\ \A c \in Free!Blk : c \notin G => x.disk[c] = links[c]
         /\ \A c \in G : x.disk[c].root = 0
    BY <1>3, <1>4, <1>7, <1>8
  <1>12. SweptTo(x, n + 1)
    BY <1>4, <1>8, <1>9, <1>10, <1>11 DEF SweptTo, G
  <1> QED BY <1>1, <1>12 DEF b

LEMMA SweepKeep ==
  ASSUME SInv, NEW n \in 0..(space.eod - 1), NEW st, SweptTo(st, n), n + 1 \notin Unused(tree, rcv.left, space.eod)
  PROVE  SweptTo(st, n + 1)
  <1>1. n \in 0..space.eod
    BY SpaceFacts, Sizes
  <1>2. Found(n + 1) = Found(n)
    BY <1>1, FoundIs
  <1> QED BY <1>2 DEF SweptTo

\* The types, when that of r has been asked for.
TypesSeen(st, r) ==
  IF r \in DOMAIN st.types THEN st.types
  ELSE [x \in DOMAIN st.types \union {r} |-> IF x = r THEN Free!Type(st.disk, r) ELSE st.types[x]]
LEMMA SweepSeen ==
  ASSUME NEW n, NEW st, SweptTo(st, n), NEW r \in Free!Blk,
         Free!Type(st.disk, r) = "del" <=> r \in Unused(tree, rcv.left, space.eod)
  PROVE  /\ SweptTo([st EXCEPT !.types = TypesSeen(st, r)], n)
         /\ TypesSeen(st, r)[r] = "del" <=> r \in Unused(tree, rcv.left, space.eod)
  <1> DEFINE U == Unused(tree, rcv.left, space.eod)
             K == {"err", "del", "root", "node"}
             w == TypesSeen(st, r)
             x == [st EXCEPT !.types = w]
  <1>1. st \in SweepState /\ \A y \in DOMAIN st.types : st.types[y] = "del" <=> y \in U
    BY DEF SweptTo
  <1>2. PICK D \in SUBSET Free!Blk : st.types \in [D -> K]
    BY <1>1 DEF SweepState, Kinds
  <1>3. Free!Type(st.disk, r) \in K
    BY TypeIs
  <1>4. w \in Kinds /\ \A y \in DOMAIN w : w[y] = "del" <=> y \in U
    <2>1. CASE r \in D
      BY <2>1, <1>1, <1>2 DEF TypesSeen, Kinds
    <2>2. CASE r \notin D
      <3> DEFINE E == D \union {r}
      <3>1. w = [y \in E |-> IF y = r THEN Free!Type(st.disk, r) ELSE st.types[y]]
        BY <2>2, <1>2 DEF TypesSeen
      <3> HIDE DEF w
      <3>2. w \in [E -> K] /\ E \in SUBSET Free!Blk
        BY <3>1, <1>2, <1>3
      <3>3. w \in Kinds
        <4> HIDE DEF E
        <4> QED BY <3>2 DEF Kinds
      <3>4. \A y \in DOMAIN w : w[y] = "del" <=> y \in U
        <4>1. Free!Type(st.disk, r) = "del" <=> r \in U
          OBVIOUS
        <4> HIDE DEF U
        <4>2. SUFFICES ASSUME NEW y \in E PROVE w[y] = "del" <=> y \in U
          BY <3>1
        <4>3. CASE y = r
          BY <4>1, <4>3, <3>1
        <4>4. CASE y # r
          BY <4>4, <3>1, <1>1, <1>2
        <4> QED BY <4>3, <4>4
      <3> QED BY <3>3, <3>4
    <2> QED BY <2>1, <2>2
  <1>5. r \in DOMAIN w
    <2>1. CASE r \in DOMAIN st.types
      BY <2>1 DEF TypesSeen
    <2>2. CASE r \notin DOMAIN st.types
      BY <2>2 DEF TypesSeen
    <2> QED BY <2>1, <2>2
  <1> HIDE DEF w
  <1>6. x \in SweepState /\ x.disk = st.disk /\ x.free = st.free /\ x.space = st.space /\ x.types = w
    BY <1>1, <1>4 DEF SweepState
  <1> HIDE DEF x
  <1>7. SweptTo(x, n)
    BY <1>4, <1>6 DEF SweptTo
  <1> QED BY <1>4, <1>5, <1>7 DEF w, x

LEMMA SweepStep ==
  ASSUME SInv, rcv = Free!Idle, NEW n \in 0..(space.eod - 1), NEW st, SweptTo(st, n)
  PROVE  SweptTo(Free!Sweep(st, n + 1), n + 1)
  <1> DEFINE U == Unused(tree, rcv.left, space.eod)
             b == n + 1
             r == st.disk[b].root
             s == TypesSeen(st, r)
             x == [st EXCEPT !.types = s]
  <1>1. /\ n \in 0..space.eod /\ space.eod \in 1..MaxBlk /\ b \in Free!Blk /\ b \in 1..space.eod /\ b \notin Found(n)
    <2>1. n \in 0..space.eod /\ space.eod \in 1..MaxBlk /\ b \in 1..space.eod
      BY SpaceFacts
    <2>2. b \in Free!Blk
      BY <2>1, Sizes
    <2>3. b \notin Found(n)
      BY <2>1, FoundIs
    <2> QED BY <2>1, <2>2, <2>3
  <1>2. /\ links \in [Free!Blk -> Link] /\ U \subseteq Free!Blk /\ rcv.left = {}
        /\ FreeChain(links, space.free, U) /\ FilesPlaced(links, tree)
    BY SpaceFacts DEF SInv, SpaceHolds, Free!Idle
  <1>3. /\ st \in SweepState /\ (\A c \in Free!Blk : c \notin Found(n) => st.disk[c] = links[c])
        /\ (\A c \in Found(n) : st.disk[c].root = 0)
    BY DEF SweptTo
  <1>4. st.disk[b] = links[b] /\ links[b] \in Link /\ r = links[b].root /\ r \in 0..MaxBlk
    <2>1. st.disk[b] = links[b] /\ links[b] \in Link
      BY <1>1, <1>2, <1>3
    <2> QED BY <2>1 DEF Link
  <1>5. r # 0 => r \in Free!Blk
    BY <1>4, Sizes
  <1>6. Free!Type(st.disk, b) = IF r = 0 THEN "del" ELSE IF r = b THEN "root" ELSE "node"
    BY <1>1, TypeIs
  <1>7. Free!Sweep(st, b) =
          CASE Free!Type(st.disk, b) = "del" -> Free!Del(st, b)
            [] Free!Type(st.disk, b) = "root" -> st
            [] OTHER -> IF s[r] = "del" THEN Free!Del(x, b) ELSE x
    BY DEF Free!Sweep, TypesSeen
  <1> HIDE DEF s
  <1>8. CASE b \in U
    <2>1. r = 0 \/ (r \in U /\ links[r].root = 0)
      <3> HIDE DEF U
      <3> QED BY <1>2, <1>4, <1>8, ChainEnds
    <2>2. CASE r = 0
      <3>1. Free!Sweep(st, b) = Free!Del(st, b)
        BY <2>2, <1>6, <1>7
      <3> QED BY <3>1, <1>8, SweepDel
    <2>3. CASE r # 0
      <3>1. r \in Free!Blk /\ r \in U /\ links[r].root = 0
        BY <2>1, <2>3, <1>5
      <3>2. r # b
        BY <3>1, <2>3, <1>4
      <3>3. st.disk[r].root = 0
        BY <3>1, <1>3
      <3>4. Free!Type(st.disk, r) = "del"
        BY <3>1, <3>3, TypeIs
      <3>5. SweptTo(x, n) /\ s[r] = "del"
        BY <3>1, <3>4, SweepSeen DEF s
      <3>6. Free!Sweep(st, b) = Free!Del(x, b)
        BY <3>2, <3>5, <2>3, <1>6, <1>7
      <3> HIDE DEF x
      <3> QED BY <3>5, <3>6, <1>8, SweepDel
    <2> QED BY <2>2, <2>3
  <1>9. CASE b \notin U
    <2>1. b \in LiveIn(tree)
      BY <1>1, <1>2, <1>9 DEF Unused
    <2>2. r \in FilesOf(tree) /\ r \in LiveIn(tree) /\ links[r].root = r /\ r \in Free!Blk
      <3>1. r \in FilesOf(tree) /\ r \in Free!Blk
        BY <2>1, <1>2, <1>4, LiveIs DEF FilesOf
      <3> QED BY <3>1, <1>2, LiveIs
    <2>3. r # 0 /\ r \notin U
      BY <2>2, Sizes DEF Unused
    <2>4. CASE r = b
      <3>1. Free!Sweep(st, b) = st
        BY <2>3, <2>4, <1>6, <1>7
      <3> QED BY <3>1, <1>9, SweepKeep
    <2>5. CASE r # b
      <3>1. st.disk[r] = links[r]
        BY <2>2, <2>3, <1>3 DEF Found
      <3>2. Free!Type(st.disk, r) # "del"
        <4>1. st.disk[r].root # 0
          BY <3>1, <2>2, <2>3
        <4> QED BY <4>1, <2>2, TypeIs
      <3>3. SweptTo(x, n) /\ s[r] # "del"
        BY <3>2, <2>2, <2>3, SweepSeen DEF s
      <3>4. Free!Sweep(st, b) = x
        BY <3>3, <2>3, <2>5, <1>6, <1>7
      <3> HIDE DEF x
      <3> QED BY <3>3, <3>4, <1>9, SweepKeep
    <2> QED BY <2>4, <2>5
  <1> QED BY <1>8, <1>9

IsSwept(q) == q = [n \in 0..space.eod |-> IF n = 0 THEN Free!Cleared ELSE Free!Sweep(q[n - 1], n)]
LEMMA SweptIs ==
  ASSUME NEW f, IsSwept(f)
  PROVE  \E q : Free!Swept = q[space.eod] /\ IsSwept(q)
  BY DEF Free!Swept, IsSwept

LEMMA SweepUpto ==
  ASSUME SInv, rcv = Free!Idle, NEW q, q[0] = Free!Cleared,
         \A n \in 1..space.eod : SweptTo(q[n - 1], n - 1) => q[n] = Free!Sweep(q[n - 1], n)
  PROVE  \A n \in 0..space.eod : SweptTo(q[n], n)
  <1> DEFINE J == {n \in 0..space.eod : SweptTo(q[n], n)}
  <1>0. space.eod \in Nat
    BY SpaceFacts
  <1>1. 0 \in J
    BY <1>0, SweepStart
  <1>2. ASSUME NEW n \in 0..(space.eod - 1), n \in J PROVE n + 1 \in J
    <2>0. n + 1 \in 1..space.eod /\ (n + 1) - 1 = n /\ n + 1 \in 0..space.eod
      BY <1>0
    <2>1. SweptTo(q[n], n)
      BY <1>2
    <2>2. SweptTo(q[(n + 1) - 1], (n + 1) - 1) => q[n + 1] = Free!Sweep(q[(n + 1) - 1], n + 1)
      BY <2>0
    <2>3. q[n + 1] = Free!Sweep(q[n], n + 1)
      BY <2>0, <2>1, <2>2
    <2>4. SweptTo(Free!Sweep(q[n], n + 1), n + 1)
      BY <2>1, SweepStep
    <2> QED BY <2>0, <2>3, <2>4
  <1> HIDE DEF J
  <1>3. \A n \in 0..space.eod : n \in J
    BY <1>0, <1>1, <1>2, Upto
  <1> QED BY <1>3 DEF J

LEMMA SweptDown ==
  ASSUME SInv, rcv = Free!Idle
  PROVE  SweptTo(Free!Swept, space.eod)
  <1> DEFINE S == SweepState
             start == Free!Cleared
             E == space.eod
             g == [x \in S \X (1..E) |-> IF Free!Sweep(x[1], x[2]) \in S THEN Free!Sweep(x[1], x[2]) ELSE x[1]]
  <1>0. E \in Nat
    BY SpaceFacts
  <1>1. start \in S /\ g \in [S \X (1..E) -> S]
    <2>1. start \in S
      BY SweepStart DEF SweptTo
    <2> HIDE DEF S
    <2> QED BY <2>1
  <1>2. PICK f : Iterates(f, E, S, start, g)
    <2> HIDE DEF S, start, g, E
    <2>1. \E f : Iterates(f, E, S, start, g)
      BY <1>0, <1>1, Iterate
    <2> QED BY <2>1
  <1>3. /\ f[0] = start
        /\ \A n \in 1..E : f[n - 1] \in S /\ f[n] = g[<<f[n - 1], n>>]
    <2> HIDE DEF S, start, g, E
    <2>1. f \in [0..E -> S] /\ f[0] = start /\ \A n \in 1..E : f[n] = g[<<f[n - 1], n>>]
      BY <1>2 DEF Iterates
    <2>2. \A n \in 1..E : n - 1 \in 0..E
      BY <1>0
    <2> QED BY <2>1, <2>2
  <1>4. \A n \in 1..E : Free!Sweep(f[n - 1], n) \in S => f[n] = Free!Sweep(f[n - 1], n)
    <2>1. SUFFICES ASSUME NEW n \in 1..E, Free!Sweep(f[n - 1], n) \in S PROVE f[n] = Free!Sweep(f[n - 1], n)
      OBVIOUS
    <2>2. f[n - 1] \in S /\ f[n] = g[<<f[n - 1], n>>]
      BY <1>3
    <2> DEFINE s == f[n - 1]
    <2> HIDE DEF S, s, E
    <2>3. g[<<s, n>>] = IF Free!Sweep(s, n) \in S THEN Free!Sweep(s, n) ELSE s
      BY <2>2 DEF s
    <2> QED BY <2>1, <2>2, <2>3 DEF s
  <1>5. \A n \in 1..E : SweptTo(f[n - 1], n - 1) => f[n] = Free!Sweep(f[n - 1], n)
    <2>1. SUFFICES ASSUME NEW n \in 1..E, SweptTo(f[n - 1], n - 1) PROVE Free!Sweep(f[n - 1], n) \in S
      BY <1>4
    <2>2. n - 1 \in 0..(E - 1) /\ (n - 1) + 1 = n
      BY <1>0
    <2>3. SweptTo(Free!Sweep(f[n - 1], (n - 1) + 1), (n - 1) + 1)
      BY <2>1, <2>2, SweepStep
    <2> QED BY <2>2, <2>3 DEF SweptTo
  <1>6. \A n \in 0..E : SweptTo(f[n], n)
    <2> HIDE DEF S, g
    <2> QED BY <1>3, <1>5, SweepUpto
  <1>7. f = [n \in 0..E |-> IF n = 0 THEN start ELSE Free!Sweep(f[n - 1], n)]
    <2>1. f \in [0..E -> S]
      BY <1>2 DEF Iterates
    <2>2. \A n \in 0..E : f[n] = IF n = 0 THEN start ELSE Free!Sweep(f[n - 1], n)
      <3>1. SUFFICES ASSUME NEW n \in 0..E, n # 0 PROVE f[n] = Free!Sweep(f[n - 1], n)
        BY <1>3
      <3>2. n \in 1..E /\ n - 1 \in 0..E
        BY <3>1, <1>0
      <3> QED BY <3>2, <1>5, <1>6
    <2> HIDE DEF S, start
    <2> QED BY <2>1, <2>2
  <1>8. IsSwept(f)
    BY <1>7 DEF IsSwept
  <1>9. PICK q : Free!Swept = q[E] /\ IsSwept(q)
    BY <1>8, SweptIs
  <1>10. /\ q[0] = start
         /\ \A n \in 1..E : q[n] = Free!Sweep(q[n - 1], n)
    <2>1. \A n \in 0..E : q[n] = IF n = 0 THEN start ELSE Free!Sweep(q[n - 1], n)
      BY <1>9 DEF IsSwept
    <2>2. 0 \in 0..E /\ \A n \in 1..E : n \in 0..E /\ n # 0
      BY <1>0
    <2> HIDE DEF start
    <2> QED BY <2>1, <2>2
  <1>11. E \in 0..E /\ \A n \in 0..E : SweptTo(q[n], n)
    BY <1>0, <1>10, SweepUpto
  <1> QED BY <1>9, <1>11

LEMMA RebuildKeeps ==
  ASSUME SInv, Free!Rebuild
  PROVE  SInv'
  <1> DEFINE U == Unused(tree, rcv.left, space.eod)
             z == Free!Swept
             e == z.disk
             h == [space EXCEPT !.free = z.free, !.droot = 0, !.space = z.space, !.newspace = 0]
  <1>1. rcv = Free!Idle /\ links' = e /\ space' = h /\ UNCHANGED <<tree, rcv>>
    BY DEF Free!Rebuild
  <1>2. SweptTo(z, space.eod)
    BY <1>1, SweptDown
  <1> HIDE DEF z
  <1>3. /\ space \in SpaceHdr /\ space.eod \in 1..MaxBlk /\ FilesPlaced(links, tree) /\ SpaceType(links, tree, space, rcv)
        /\ LiveIn(tree) \subseteq Free!Blk /\ LiveIn(tree) \subseteq 1..space.eod
        /\ U \subseteq 1..space.eod /\ U \subseteq Free!Blk
        /\ \A b \in Free!Blk : b > space.eod => links[b].root = 0
    BY SpaceFacts, LiveIs DEF SInv, SpaceHolds, Unused
  <1>4. Found(space.eod) = U
    <2>1. 0 \in 0..space.eod
      BY <1>3
    <2> QED BY <2>1, FoundIs
  <1>5. /\ z \in SweepState /\ (\A c \in Free!Blk : c \notin U => e[c] = links[c])
        /\ FreeChain(e, z.free, U)
        /\ z.space = Cardinality(U) + (IF space.eof # 0 THEN space.eof - space.eod ELSE 0)
    BY <1>2, <1>4 DEF SweptTo
  <1>6. z.free \in 0..MaxBlk /\ z.space \in Int /\ e \in [Free!Blk -> Link]
    BY <1>5 DEF SweepState
  <1>7. h \in SpaceHdr /\ h.eod = space.eod /\ h.eof = space.eof /\ h.space = z.space /\ h.free = z.free
    <2>1. 0 \in 0..MaxBlk /\ 0 \in Nat
      BY Sizes
    <2> QED BY <2>1, <1>3, <1>6 DEF SpaceHdr
  <1> HIDE DEF e, h
  <1>8. FilesPlaced(e, tree)
    <2>1. \A b \in LiveIn(tree) : e[b] = links[b]
      BY <1>3, <1>5 DEF Unused
    <2> QED BY <2>1, <1>3, FilesSame
  <1>9. Recovering(e, tree, rcv)
    BY <1>1 DEF Recovering, Free!Idle
  <1>10. SpaceType(e, tree, h, rcv)
    <2>1. \A b \in Free!Blk : b > h.eod => e[b].root = 0
      <3>1. SUFFICES ASSUME NEW b \in Free!Blk, b > space.eod PROVE e[b].root = 0
        BY <1>7
      <3>2. b \notin U
        BY <3>1, <1>3, Sizes
      <3> QED BY <3>1, <3>2, <1>3, <1>5
    <2> QED BY <2>1, <1>3, <1>6, <1>7 DEF SpaceType
  <1>11. Counted(h, U)
    BY <1>5, <1>7 DEF Counted
  <1>12. SpaceHolds(e, tree, h, rcv)
    BY <1>5, <1>7, <1>8, <1>9, <1>10, <1>11 DEF SpaceHolds
  <1> QED BY <1>1, <1>12 DEF SInv

-----------------------------------------------------------------------------
LEMMA SpaceInit == Free!Init => SInv
  <1> SUFFICES ASSUME Free!Init PROVE SInv
    OBVIOUS
  <1> DEFINE t == << <<1>> >>
             E == [Free!Empty EXCEPT !.root = 1]
  <1>1. /\ tree = [r \in Free!Blk |-> IF r = 1 THEN t ELSE <<>>]
        /\ links = [b \in Free!Blk |-> IF b = 1 THEN E ELSE Free!Empty]
        /\ rcv = Free!Idle
    BY DEF Free!Init
  <1>2. PICK s \in Sized :
          space = [free |-> 0, droot |-> 0, eod |-> 1, eof |-> IF s THEN Capacity ELSE 0,
                   space |-> IF s THEN Capacity - 1 ELSE 0, newspace |-> 0]
    BY DEF Free!Init
  <1>3. 1 \in Free!Blk /\ Capacity \in 1..MaxBlk /\ 1 \in 1..MaxBlk
    BY Sizes
  <1>4. Levels(1, t) /\ Free!Blocks(t) = {1}
    BY <1>3, Alone
  <1>5. E \in Link /\ Free!Empty \in Link /\ E.root = 1 /\ E.stem = FALSE /\ Free!Empty.root = 0
    <2>1. 0 \in 0..MaxBlk /\ 1 \in 0..MaxBlk
      BY Sizes
    <2>2. Free!Empty \in Link /\ Free!Empty.root = 0 /\ Free!Empty.stem = FALSE
      BY <2>1 DEF Free!Empty, Link
    <2>3. E \in Link /\ E.root = 1 /\ E.stem = Free!Empty.stem
      BY <2>1, <2>2 DEF Link
    <2> QED BY <2>2, <2>3
  <1>6. links \in [Free!Blk -> Link] /\ links[1] = E /\ \A b \in Free!Blk : b # 1 => links[b].root = 0
    <2> HIDE DEF E
    <2> QED BY <1>1, <1>3, <1>5
  <1>7. Placed(links, 1, t)
    <2>1. Len(t) = 1 /\ Len(t[1]) = 1 /\ t[1][1] = 1
      OBVIOUS
    <2> HIDE DEF t, E
    <2>2. Leads(E, 1, t, 1, 1)
      <3>1. (1 < Len(t)) = FALSE
        BY <2>1
      <3>2. E.stem = (1 < Len(t))
        BY <3>1, <1>5
      <3>3. E.root = 1 /\ ~(1 < Len(t)) /\ ~(1 > 1)
        BY <2>1, <1>5
      <3> QED BY <3>2, <3>3 DEF Leads
    <2> QED BY <2>1, <2>2, <1>6 DEF Placed
  <1> HIDE DEF t, E
  <1>8. tree[1] = t /\ \A r \in Free!Blk : r # 1 => tree[r] = <<>>
    BY <1>1, <1>3
  <1>9. tree \in [Free!Blk -> Seq(Seq(Free!Blk))]
    <2>1. t \in Seq(Seq(Free!Blk)) /\ <<>> \in Seq(Seq(Free!Blk))
      BY <1>4 DEF Levels
    <2> QED BY <2>1, <1>1
  <1>10. FilesOf(tree) = {1}
    <2>1. t # <<>>
      <3>1. t # <<>>
        BY DEF t
      <3> QED BY <3>1
    <2> QED BY <2>1, <1>3, <1>8 DEF FilesOf
  <1>11. LiveIn(tree) = {1}
    BY <1>4, <1>8, <1>10 DEF LiveIn
  <1>12. FilesPlaced(links, tree)
    BY <1>4, <1>7, <1>8, <1>10 DEF FilesPlaced
  <1>13. rcv.left = {} /\ rcv \in Rcvr /\ Recovering(links, tree, rcv)
    BY <1>1, Sizes DEF Free!Idle, Rcvr, Recovering
  <1>14. space \in SpaceHdr /\ space.eod = 1 /\ space.free = 0 /\ (space.eof # 0 => 1 <= space.eof)
    <2>1. CASE s
      BY <2>1, <1>2, <1>3, Sizes DEF SpaceHdr
    <2>2. CASE ~s
      <3>1. space = [free |-> 0, droot |-> 0, eod |-> 1, eof |-> 0, space |-> 0, newspace |-> 0]
        BY <2>2, <1>2
      <3> QED BY <3>1, <1>3, Sizes DEF SpaceHdr
    <2> QED BY <2>1, <2>2
  <1>15. Unused(tree, rcv.left, space.eod) = {}
    BY <1>11, <1>13, <1>14 DEF Unused
  <1>16. FreeChain(links, space.free, {})
    <2> DEFINE rk == [b \in Free!Blk |-> 0]
    <2>1. rk \in [Free!Blk -> Nat] /\ Ranked(links, 0, {}, rk)
      BY DEF Ranked
    <2> HIDE DEF rk
    <2> QED BY <2>1, <1>14 DEF FreeChain
  <1>17. Counted(space, {})
    <2>1. Cardinality({}) = 0
      BY FS_EmptySet
    <2>2. CASE s
      <3>1. space.space = Capacity - 1 /\ space.eof = Capacity /\ Capacity # 0
        BY <2>2, <1>2, <1>3
      <3> QED BY <3>1, <2>1, <1>3, <1>14, Sizes DEF Counted
    <2>3. CASE ~s
      <3>1. space.space = 0 /\ space.eof = 0
        BY <2>3, <1>2
      <3> QED BY <3>1, <2>1 DEF Counted
    <2> QED BY <2>2, <2>3
  <1>18. SpaceType(links, tree, space, rcv)
    <2>1. \A b \in Free!Blk : b > 1 => links[b].root = 0
      BY <1>6, Sizes
    <2>2. LiveIn(tree) \union rcv.left \subseteq 1..space.eod
      BY <1>11, <1>13, <1>14
    <2> QED BY <2>1, <2>2, <1>6, <1>9, <1>13, <1>14 DEF SpaceType
  <1> QED BY <1>12, <1>13, <1>15, <1>16, <1>17, <1>18 DEF SInv, SpaceHolds

\* The assumptions are those under which the free list is kept as it should be:
\* no file is made while btrcvr reads, and it is not given a deleted root.
LEMMA SpaceNext ==
  ASSUME SInv, ~Busy, ~Undelete, Free!Next
  PROVE  SInv'
  <1>1. CASE \E n \in 0..2 : Free!Ask(n)
    BY <1>1, AskKeeps
  <1>2. CASE Free!Answer
    BY <1>2 DEF Free!Answer, SInv
  <1>3. CASE Free!NewFromEnd
    BY <1>3, FromEnd
  <1>4. CASE Free!NewFromFree
    BY <1>4, FromFree
  <1>5. CASE Free!Backup
    BY <1>5 DEF Free!Backup, SInv
  <1>6. CASE \E r \in Free!Files : Free!Kill(r)
    BY <1>6, KillKeeps
  <1>7. CASE \E r \in Free!Files : \E l \in 2..MaxTree : \E i \in DOMAIN links : Free!FreeBlock(r, l, i)
    BY <1>7, FreeBlockKeeps
  <1>8. CASE Free!Rebuild
    BY <1>8, RebuildKeeps
  <1>9. CASE \E n \in Free!Files : \E r \in Free!Files : Free!Disconnect(r, n)
    BY <1>9, DisconnectKeeps
  <1>10. CASE \E n \in Free!Files : \E r \in Free!Blk : Free!DisconnectDeleted(r, n)
    BY <1>10 DEF Free!DisconnectDeleted
  <1>11. CASE Free!Fill
    BY <1>11, FillKeeps
  <1>12. CASE Free!Copy
    BY <1>12, CopyKeeps
  <1>13. CASE Free!FreeCopied
    BY <1>13, FreeCopiedKeeps
  <1>14. CASE Free!Again
    BY <1>14, AgainKeeps
  <1>15. CASE Free!RecoveryEnds
    BY <1>15, EndKeeps
  <1> QED BY <1>1, <1>2, <1>3, <1>4, <1>5, <1>6, <1>7, <1>8, <1>9, <1>10, <1>11, <1>12, <1>13, <1>14, <1>15
          DEF Free!Next

-----------------------------------------------------------------------------
\* What the parts say: first of the blocks that may not be taken yet.
LEMMA SpaceKeepsFiles ==
  ASSUME SInv
  PROVE  FilesStay
  <1>1. Free!RootsTakenLast
    BY TakenIs DEF Free!RootsTakenLast
  <1>2. Free!RecordsStay
    <2>1. CASE rcv.old = 0
      BY <2>1, SpaceFacts DEF Free!RecordsStay, Free!Idle
    <2>2. CASE rcv.old # 0
      <3>1. rcv.need \subseteq rcv.left
        BY <2>2 DEF SInv, SpaceHolds, Recovering
      <3>2. rcv.left \subseteq Free!Blk /\ \A b \in Free!Blk : b \in rcv.left <=> links[b].root = rcv.old
        BY <2>2, SpaceFacts
      <3> QED BY <3>1, <3>2 DEF Free!RecordsStay
    <2> QED BY <2>1, <2>2
  <1> QED BY <1>1, <1>2 DEF FilesStay

\* Then of the free list, followed from its start.
IsAt(q) ==
  q = [n \in 0..MaxBlk |-> IF n = 0 THEN space.free ELSE IF q[n - 1] = 0 THEN 0 ELSE Free!After(q[n - 1])]
LEMMA ListedIs ==
  ASSUME NEW f, IsAt(f)
  PROVE  \E q : IsAt(q) /\ Free!Listed = [i \in 1..Free!Cardinality({n \in 0..MaxBlk : q[n] # 0}) |-> q[i - 1]]
  BY DEF Free!Listed, IsAt

Follows(q) ==
  /\ q \in [0..MaxBlk -> 0..MaxBlk] /\ q[0] = space.free
  /\ \A n \in 1..MaxBlk : q[n] = IF q[n - 1] = 0 THEN 0 ELSE NextFree(links, q[n - 1])
LEMMA ListFollows ==
  ASSUME SInv
  PROVE  \E q : Follows(q) /\ Free!Listed = [i \in 1..Cardinality({n \in 0..MaxBlk : q[n] # 0}) |-> q[i - 1]]
  <1> DEFINE S == 0..MaxBlk
             start == space.free
             g == [x \in S \X (1..MaxBlk) |-> IF x[1] = 0 THEN 0 ELSE NextFree(links, x[1])]
  <1>0. MaxBlk \in Nat /\ start \in S /\ links \in [Free!Blk -> Link]
    BY SpaceFacts, Sizes
  <1>1. g \in [S \X (1..MaxBlk) -> S]
    <2>1. \A b \in S : b # 0 => NextFree(links, b) \in S
      <3>1. SUFFICES ASSUME NEW b \in Free!Blk PROVE NextFree(links, b) \in S
        BY Sizes
      <3>2. links[b] \in Link
        BY <1>0
      <3> QED BY <3>2 DEF Link, NextFree
    <2>2. 0 \in S
      BY <1>0
    <2> HIDE DEF S
    <2> QED BY <2>1, <2>2
  <1>2. PICK f : Iterates(f, MaxBlk, S, start, g)
    <2> HIDE DEF S, start, g
    <2>1. \E f : Iterates(f, MaxBlk, S, start, g)
      BY <1>0, <1>1, Iterate
    <2> QED BY <2>1
  <1>3. f \in [0..MaxBlk -> S] /\ f[0] = start /\ \A n \in 1..MaxBlk : f[n] = g[<<f[n - 1], n>>]
    BY <1>2 DEF Iterates
  <1>4. \A n \in 1..MaxBlk : f[n] = IF f[n - 1] = 0 THEN 0 ELSE NextFree(links, f[n - 1])
    <2>1. SUFFICES ASSUME NEW n \in 1..MaxBlk PROVE f[n] = IF f[n - 1] = 0 THEN 0 ELSE NextFree(links, f[n - 1])
      OBVIOUS
    <2> DEFINE b == f[n - 1]
    <2>2. b \in S /\ f[n] = g[<<b, n>>]
      <3>1. n - 1 \in 0..MaxBlk
        BY <1>0
      <3> QED BY <3>1, <1>3
    <2> HIDE DEF b, S
    <2>3. g[<<b, n>>] = IF b = 0 THEN 0 ELSE NextFree(links, b)
      BY <2>2
    <2> QED BY <2>2, <2>3 DEF b
  <1>5. \A b : Free!After(b) = NextFree(links, b)
    BY DEF Free!After, NextFree
  <1>6. IsAt(f)
    <2>1. \A n \in 0..MaxBlk : f[n] = IF n = 0 THEN space.free ELSE IF f[n - 1] = 0 THEN 0 ELSE Free!After(f[n - 1])
      <3>1. SUFFICES ASSUME NEW n \in 0..MaxBlk, n # 0
                     PROVE  f[n] = IF f[n - 1] = 0 THEN 0 ELSE Free!After(f[n - 1])
        BY <1>3
      <3>2. n \in 1..MaxBlk
        BY <3>1
      <3> QED BY <3>2, <1>4, <1>5
    <2> HIDE DEF S
    <2> QED BY <2>1, <1>3 DEF IsAt
  <1>7. PICK q : IsAt(q) /\ Free!Listed = [i \in 1..Free!Cardinality({n \in 0..MaxBlk : q[n] # 0}) |-> q[i - 1]]
    BY <1>6, ListedIs
  <1>8. \A n \in 0..MaxBlk : q[n] = IF n = 0 THEN space.free ELSE IF q[n - 1] = 0 THEN 0 ELSE Free!After(q[n - 1])
    BY <1>7 DEF IsAt
  <1>9. q[0] = start /\ \A n \in 1..MaxBlk : q[n] = IF q[n - 1] = 0 THEN 0 ELSE NextFree(links, q[n - 1])
    <2>1. 0 \in 0..MaxBlk /\ \A n \in 1..MaxBlk : n \in 0..MaxBlk /\ n # 0
      BY <1>0
    <2> QED BY <2>1, <1>5, <1>8
  <1>10. \A n \in 0..MaxBlk : q[n] = f[n]
    <2> DEFINE J == {n \in 0..MaxBlk : q[n] = f[n]}
    <2>1. 0 \in J
      BY <1>0, <1>3, <1>9
    <2>2. ASSUME NEW n \in 0..(MaxBlk - 1), n \in J PROVE n + 1 \in J
      <3>1. n + 1 \in 1..MaxBlk /\ (n + 1) - 1 = n /\ n + 1 \in 0..MaxBlk
        BY <1>0
      <3>2. q[n] = f[n]
        BY <2>2
      <3>3. /\ q[n + 1] = IF q[(n + 1) - 1] = 0 THEN 0 ELSE NextFree(links, q[(n + 1) - 1])
            /\ f[n + 1] = IF f[(n + 1) - 1] = 0 THEN 0 ELSE NextFree(links, f[(n + 1) - 1])
        BY <3>1, <1>4, <1>9
      <3>4. q[n + 1] = f[n + 1]
        BY <3>1, <3>2, <3>3
      <3> QED BY <3>1, <3>4
    <2> HIDE DEF J
    <2>3. \A n \in 0..MaxBlk : n \in J
      BY <1>0, <2>1, <2>2, Upto
    <2> QED BY <2>3 DEF J
  <1>11. q \in [0..MaxBlk -> 0..MaxBlk]
    <2>1. q = [n \in 0..MaxBlk |-> q[n]]
      BY <1>7 DEF IsAt
    <2>2. \A n \in 0..MaxBlk : q[n] \in 0..MaxBlk
      BY <1>3, <1>10
    <2> QED BY <2>1, <2>2
  <1>12. Follows(q)
    BY <1>9, <1>11 DEF Follows
  <1> QED BY <1>7, <1>12, SameCount

\* It takes each block of F once: further on, the rank is lower.
LEMMA Visits ==
  ASSUME NEW q, Follows(q), NEW F \in SUBSET Free!Blk, NEW rk \in [Free!Blk -> Nat],
         Ranked(links, space.free, F, rk)
  PROVE  /\ \A n \in 0..MaxBlk : q[n] \in F \union {0}
         /\ \A n \in 0..MaxBlk : q[n] # 0 => \A m \in 0..(n - 1) : q[m] # 0 /\ rk[q[n]] < rk[q[m]]
  <1>0. MaxBlk \in Nat /\ 0 \notin F /\ \A b \in F : b \in Free!Blk /\ rk[b] \in Nat
    BY Sizes
  <1>1. /\ q[0] = space.free
        /\ \A n \in 1..MaxBlk : q[n] = IF q[n - 1] = 0 THEN 0 ELSE NextFree(links, q[n - 1])
    BY DEF Follows
  <1>2. /\ space.free \in F \union {0}
        /\ \A b \in F : NextFree(links, b) = 0 \/ (NextFree(links, b) \in F /\ rk[NextFree(links, b)] < rk[b])
    BY DEF Ranked
  <1> DEFINE J == {n \in 0..MaxBlk : /\ q[n] \in F \union {0}
                                     /\ q[n] # 0 => \A m \in 0..(n - 1) : q[m] # 0 /\ rk[q[n]] < rk[q[m]] /\ q[m] \in F}
  <1>3. 0 \in J
    BY <1>0, <1>1, <1>2
  <1>4. ASSUME NEW n \in 0..(MaxBlk - 1), n \in J PROVE n + 1 \in J
    <2>0. n + 1 \in 1..MaxBlk /\ (n + 1) - 1 = n /\ n + 1 \in 0..MaxBlk /\ n \in Nat
      BY <1>0
    <2>1. /\ q[n] \in F \union {0}
          /\ q[n] # 0 => \A m \in 0..(n - 1) : q[m] # 0 /\ rk[q[n]] < rk[q[m]] /\ q[m] \in F
      BY <1>4
    <2>2. q[n + 1] = IF q[(n + 1) - 1] = 0 THEN 0 ELSE NextFree(links, q[(n + 1) - 1])
      BY <2>0, <1>1
    <2>3. CASE q[n] = 0
      <3>1. q[n + 1] = 0
        BY <2>0, <2>2, <2>3
      <3> QED BY <3>1, <2>0
    <2>4. CASE q[n] # 0
      <3>1. q[n] \in F /\ q[n + 1] = NextFree(links, q[n])
        BY <2>0, <2>1, <2>2, <2>4
      <3>2. q[n + 1] = 0 \/ (q[n + 1] \in F /\ rk[q[n + 1]] < rk[q[n]])
        BY <3>1, <1>2
      <3>3. q[n + 1] # 0 => \A m \in 0..((n + 1) - 1) : q[m] # 0 /\ rk[q[n + 1]] < rk[q[m]] /\ q[m] \in F
        <4>1. SUFFICES ASSUME q[n + 1] # 0, NEW m \in 0..n
                       PROVE  q[m] # 0 /\ rk[q[n + 1]] < rk[q[m]] /\ q[m] \in F
          BY <2>0
        <4>2. CASE m = n
          BY <4>1, <4>2, <3>1, <3>2, <2>4
        <4>3. CASE m # n
          <5>1. m \in 0..(n - 1)
            BY <4>3, <2>0
          <5>2. q[m] # 0 /\ rk[q[n]] < rk[q[m]] /\ q[m] \in F
            BY <5>1, <2>1, <2>4
          <5> QED BY <5>2, <4>1, <3>1, <3>2, <1>0
        <4> QED BY <4>2, <4>3
      <3> QED BY <3>2, <3>3, <2>0
    <2> QED BY <2>3, <2>4
  <1>5. \A n \in 0..MaxBlk : n \in J
    <2> HIDE DEF J
    <2> QED BY <1>0, <1>3, <1>4, Upto
  <1> QED BY <1>5

LEMMA Covers ==
  ASSUME NEW q, Follows(q), NEW F \in SUBSET Free!Blk, FreeChain(links, space.free, F)
  PROVE  \E k \in 0..MaxBlk :
           /\ {n \in 0..MaxBlk : q[n] # 0} = 0..(k - 1)
           /\ \A n \in 0..(k - 1) : q[n] \in F
           /\ \A m, n \in 0..(k - 1) : q[m] = q[n] => m = n
           /\ \A b \in F : \E n \in 0..(k - 1) : q[n] = b
  <1>1. PICK rk \in [Free!Blk -> Nat] : Ranked(links, space.free, F, rk)
    BY DEF FreeChain
  <1>2. MaxBlk \in Nat /\ 0 \notin F /\ \A b \in F : b \in Free!Blk /\ rk[b] \in Nat
    BY Sizes
  <1>3. /\ \A n \in 0..MaxBlk : q[n] \in F \union {0}
        /\ \A n \in 0..MaxBlk : q[n] # 0 => \A m \in 0..(n - 1) : q[m] # 0 /\ rk[q[n]] < rk[q[m]]
    BY <1>1, Visits
  <1>4. ASSUME NEW m \in 0..MaxBlk, NEW n \in 0..MaxBlk, q[m] # 0, q[m] = q[n] PROVE m = n
    <2>1. ASSUME NEW x \in 0..MaxBlk, NEW y \in 0..MaxBlk, q[y] # 0, q[x] = q[y], x < y PROVE FALSE
      <3>1. x \in 0..(y - 1) /\ q[y] \in F
        BY <2>1, <1>3
      <3>2. rk[q[y]] < rk[q[x]] /\ rk[q[y]] \in Nat
        BY <3>1, <2>1, <1>2, <1>3
      <3> QED BY <3>2, <2>1
    <2> QED BY <2>1, <1>4
  <1>5. q[MaxBlk] = 0
    <2> SUFFICES ASSUME q[MaxBlk] # 0 PROVE FALSE
      OBVIOUS
    <2>1. \A n \in 0..MaxBlk : q[n] # 0
      <3>1. SUFFICES ASSUME NEW n \in 0..MaxBlk, n # MaxBlk PROVE q[n] # 0
        OBVIOUS
      <3>2. n \in 0..(MaxBlk - 1) /\ MaxBlk \in 0..MaxBlk
        BY <3>1, <1>2
      <3> QED BY <3>2, <1>3
    <2>2. q \in [0..MaxBlk -> Free!Blk]
      <3>1. q \in [0..MaxBlk -> 0..MaxBlk]
        BY DEF Follows
      <3>2. \A n \in 0..MaxBlk : q[n] \in Free!Blk
        BY <2>1, <1>2, <1>3
      <3> QED BY <3>1, <3>2
    <2>3. q \in Injection(0..MaxBlk, Free!Blk)
      BY <2>1, <2>2, <1>4 DEF Injection, IsInjective
    <2>4. IsFiniteSet(Free!Blk) /\ Cardinality(Free!Blk) = MaxBlk /\ Cardinality(0..MaxBlk) = MaxBlk + 1
      BY <1>2, Sizes, FS_Interval
    <2>5. Cardinality(0..MaxBlk) <= Cardinality(Free!Blk)
      BY <2>3, <2>4, FS_Injection
    <2> QED BY <2>4, <2>5, <1>2
  <1> DEFINE Z == {n \in 0..MaxBlk : q[n] = 0}
  <1>6. Z \in SUBSET Nat /\ Z # {}
    BY <1>2, <1>5
  <1>7. PICK k \in Z : \A n \in Z : k <= n
    <2> HIDE DEF Z
    <2> QED BY <1>6, Least
  <1>8. k \in 0..MaxBlk /\ q[k] = 0 /\ \A n \in 0..MaxBlk : q[n] = 0 => k <= n
    BY <1>7
  <1>9. \A n \in 0..MaxBlk : q[n] # 0 <=> n \in 0..(k - 1)
    <2>1. SUFFICES ASSUME NEW n \in 0..MaxBlk PROVE q[n] # 0 <=> n \in 0..(k - 1)
      OBVIOUS
    <2>2. CASE n < k
      BY <2>2, <1>2, <1>8
    <2>3. CASE n = k
      BY <2>3, <1>2, <1>8
    <2>4. CASE n > k
      <3>1. k \in 0..(n - 1) /\ n \notin 0..(k - 1)
        BY <2>4, <1>2, <1>8
      <3> QED BY <3>1, <1>3, <1>8
    <2> QED BY <2>2, <2>3, <2>4, <1>2, <1>8
  <1>10. 0..(k - 1) \subseteq 0..MaxBlk
    BY <1>2, <1>8
  <1>11. {n \in 0..MaxBlk : q[n] # 0} = 0..(k - 1)
    BY <1>9, <1>10
  <1>12. \A n \in 0..(k - 1) : q[n] \in F /\ q[n] # 0
    BY <1>3, <1>9, <1>10
  <1>13. \A m, n \in 0..(k - 1) : q[m] = q[n] => m = n
    BY <1>4, <1>10, <1>12
  <1> DEFINE G == {b \in F : \A n \in 0..(k - 1) : q[n] # b}
  <1>14. G = {}
    <2> SUFFICES ASSUME G # {} PROVE FALSE
      OBVIOUS
    <2>1. F # {} /\ space.free \in F /\ rk[space.free] \in Nat /\ \A c \in G : rk[c] \in Nat /\ rk[c] <= rk[space.free]
      BY <1>1, <1>2 DEF Ranked
    <2>2. PICK b \in G : \A c \in G : rk[c] <= rk[b]
      <3> HIDE DEF G
      <3> QED BY <2>1, Highest
    <2>3. q[0] = space.free /\ 0 \in 0..(k - 1)
      <3>1. q[0] = space.free /\ q[0] # 0 /\ 0 \in 0..MaxBlk
        BY <2>1, <1>2 DEF Follows
      <3> QED BY <3>1, <1>9
    <2>4. b \in F /\ b # space.free
      BY <2>2, <2>3
    <2>5. PICK c \in F : NextFree(links, c) = b
      BY <2>4, <1>1 DEF Ranked
    <2>6. rk[b] < rk[c] /\ rk[b] \in Nat /\ rk[c] \in Nat
      BY <2>4, <2>5, <1>1, <1>2 DEF Ranked
    <2>7. c \notin G
      BY <2>2, <2>6
    <2>8. PICK n \in 0..(k - 1) : q[n] = c
      BY <2>7
    <2>9. n + 1 \in 1..MaxBlk /\ (n + 1) - 1 = n
      BY <1>2, <1>8
    <2>10. q[n + 1] = b
      <3>1. q[n + 1] = IF q[(n + 1) - 1] = 0 THEN 0 ELSE NextFree(links, q[(n + 1) - 1])
        BY <2>9 DEF Follows
      <3> QED BY <3>1, <2>5, <2>8, <2>9, <1>2
    <2>11. n + 1 \in 0..(k - 1)
      <3>1. q[n + 1] # 0 /\ n + 1 \in 0..MaxBlk
        BY <2>4, <2>9, <2>10, <1>2
      <3> QED BY <3>1, <1>9
    <2> QED BY <2>2, <2>10, <2>11
  <1>15. \A b \in F : \E n \in 0..(k - 1) : q[n] = b
    BY <1>14
  <1> QED BY <1>8, <1>11, <1>12, <1>13, <1>15

LEMMA SpaceExact ==
  ASSUME SInv
  PROVE  FreeExact
  <1> DEFINE F == Unused(tree, rcv.left, space.eod)
             list == Free!Listed
             live == UNION {Free!Blocks(tree[r]) : r \in Free!Files}
  <1>1. /\ F \subseteq Free!Blk /\ FreeChain(links, space.free, F) /\ Counted(space, F) /\ live = LiveIn(tree)
        /\ LiveIn(tree) \subseteq 1..space.eod /\ rcv.left \subseteq 1..space.eod
    BY SpaceFacts DEF SInv, SpaceHolds, LiveIn
  <1>2. PICK q : Follows(q) /\ list = [i \in 1..Cardinality({n \in 0..MaxBlk : q[n] # 0}) |-> q[i - 1]]
    BY ListFollows
  <1>3. PICK k \in 0..MaxBlk :
           /\ {n \in 0..MaxBlk : q[n] # 0} = 0..(k - 1)
           /\ \A n \in 0..(k - 1) : q[n] \in F
           /\ \A m, n \in 0..(k - 1) : q[m] = q[n] => m = n
           /\ \A b \in F : \E n \in 0..(k - 1) : q[n] = b
    <2> HIDE DEF F
    <2> QED BY <1>1, <1>2, Covers, SMTT(60)
  <1>4. k \in Nat /\ Cardinality(0..(k - 1)) = k
    <2>1. k \in Nat
      BY Sizes
    <2> QED BY <2>1, FS_Interval
  <1>5. list = [i \in 1..k |-> q[i - 1]]
    BY <1>2, <1>3, <1>4
  <1> HIDE DEF list, F, live
  <1>6. DOMAIN list = 1..k /\ Len(list) = k
    BY <1>4, <1>5
  <1>7. Free!ToSet(list) = F
    <2>1. Free!ToSet(list) = {q[i - 1] : i \in 1..k}
      BY <1>5 DEF Free!ToSet
    <2>2. \A i \in 1..k : i - 1 \in 0..(k - 1)
      BY <1>4
    <2>3. \A n \in 0..(k - 1) : n + 1 \in 1..k /\ (n + 1) - 1 = n
      BY <1>4
    <2>4. {q[i - 1] : i \in 1..k} \subseteq F
      BY <2>2, <1>3
    <2>5. \A b \in F : b \in {q[i - 1] : i \in 1..k}
      <3>1. SUFFICES ASSUME NEW b \in F PROVE \E i \in 1..k : q[i - 1] = b
        OBVIOUS
      <3>2. PICK n \in 0..(k - 1) : q[n] = b
        BY <1>3
      <3> QED BY <3>2, <2>3
    <2> QED BY <2>1, <2>4, <2>5
  <1>8. Cardinality(F) = k
    <2>1. IsFiniteSet(F) /\ IsFiniteSet(1..k) /\ Cardinality(1..k) = k
      BY <1>1, <1>4, SomeBlocks, FS_Interval
    <2>2. list \in [1..k -> F]
      <3>1. \A i \in 1..k : q[i - 1] \in F
        BY <1>3, <1>4
      <3> QED BY <3>1, <1>5
    <2>3. \A i, j \in 1..k : list[i] = list[j] => i = j
      <3>1. SUFFICES ASSUME NEW i \in 1..k, NEW j \in 1..k, q[i - 1] = q[j - 1] PROVE i = j
        BY <1>5
      <3>2. i - 1 \in 0..(k - 1) /\ j - 1 \in 0..(k - 1)
        BY <1>4
      <3>3. i - 1 = j - 1
        BY <3>1, <3>2, <1>3
      <3> QED BY <3>3
    <2>4. list \in Injection(1..k, F)
      BY <2>2, <2>3 DEF Injection, IsInjective
    <2>5. list \in Surjection(1..k, F)
      <3>1. \A b \in F : \E i \in 1..k : list[i] = b
        BY <1>6, <1>7 DEF Free!ToSet
      <3> QED BY <3>1, <2>2 DEF Surjection
    <2> QED BY <2>1, <2>4, <2>5, FS_Injection
  <1>9. Free!Cardinality(Free!ToSet(list)) = k
    BY <1>7, <1>8, SameCount
  <1>10. F \union live \union rcv.left = 1..space.eod /\ F \intersect (live \union rcv.left) = {}
    BY <1>1 DEF F, Unused
  <1>11. space.space = k + IF space.eof # 0 THEN space.eof - space.eod ELSE 0
    BY <1>1, <1>8 DEF Counted
  <1> QED BY <1>6, <1>7, <1>9, <1>10, <1>11 DEF FreeExact, Free!FreeExact, list, live

-----------------------------------------------------------------------------
LEMMA SpaceInvariant ==
  ASSUME ~Busy, ~Undelete
  PROVE  DeviceSpec => []SInv
  <1>1. DeviceInit => SInv
    BY SpaceInit DEF DeviceInit
  <1>2. SInv /\ [DeviceNext]_deviceVars => SInv'
    <2> SUFFICES ASSUME SInv, [DeviceNext]_deviceVars PROVE SInv'
      OBVIOUS
    <2>1. CASE Free!Next
      BY <2>1, SpaceNext
    <2>2. CASE UNCHANGED spaceVars
      BY <2>2 DEF SInv, spaceVars
    <2> QED BY <2>1, <2>2 DEF DeviceNext, deviceVars
  <1> QED BY <1>1, <1>2, PTL DEF DeviceSpec

(* THEOREM: for every number of blocks, capacity, way of reserving and depth *)
(* of a file, the free list is exact in every state (btnew, btfree, btfree's *)
(* instant delete, fix/btfree, and btrcvr), as long as no file is made while *)
(* btrcvr reads and it is not given the root of a deleted file, the two cases *)
(* in which the code does not keep it.                                       *)
THEOREM SpaceStaysExact ==
  ASSUME ~Busy, ~Undelete
  PROVE  DeviceSpec => []FreeExact
  <1>1. SInv => FreeExact
    BY SpaceExact
  <1> QED BY <1>1, SpaceInvariant, PTL

(* THEOREM: under the same two assumptions, no block is taken from a file    *)
(* whose records are still wanted: btnew always finds the root of a deleted  *)
(* block deleted, and what btrcvr has not yet copied keeps its old root.     *)
THEOREM FilesStayWhole ==
  ASSUME ~Busy, ~Undelete
  PROVE  DeviceSpec => []FilesStay
  <1>1. SInv => FilesStay
    BY SpaceKeepsFiles
  <1> QED BY <1>1, SpaceInvariant, PTL
=============================================================================

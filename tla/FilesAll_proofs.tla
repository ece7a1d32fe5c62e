-------------------------- MODULE FilesAll_proofs --------------------------
(***************************************************************************)
(* Proofs about files as MCFilesAll puts them together: the counts of      *)
(* Files are kept whichever part of it a behaviour moves.                  *)
(***************************************************************************)
EXTENDS MCFilesAll, Files_proofs

(* Files with its proofs, and the constants of the part with wrong clocks.  *)
SP == INSTANCE Files_proofs WITH
  CanFill <- TRUE, Touching <- TRUE, Drives <- TRUE, SameSecond <- TRUE,
  MaxTime <- 1, MaxCount <- 2

(* What Files assumes of its constants holds of those as well.              *)
LEMMA StaleAssumption == SP!FilesAssumption
  BY FilesAssumption DEF SP!FilesAssumption, SP!IsFiniteSet, IsFiniteSet

(* The two are one module with the same constants.                          *)
LEMMA SameStale ==
  /\ Stale!Next <=> SP!Next
  /\ IInv <=> SP!IInv
  <1> USE DEF Stale!Node, SP!Node, Stale!Dev, SP!Dev, Stale!Mid, SP!Mid, Stale!Closed, SP!Closed,
              Stale!Free, SP!Free, Stale!IsOpen, SP!IsOpen, Stale!Allocated, SP!Allocated
  <1>1. Stale!Starts = SP!Starts /\ \A d : Stale!Named(d) = SP!Named(d)
    BY DEF Stale!Starts, SP!Starts, Stale!Named, SP!Named, Stale!Mounted, SP!Mounted
  <1>2. Stale!Reachable = SP!Reachable
    BY <1>1 DEF Stale!Reachable, SP!Reachable
  <1>3. \A n : Stale!Reset(n) = SP!Reset(n)
    BY DEF Stale!Reset, SP!Reset
  <1>4. \A n, e : Stale!Lockable(n, e) <=> SP!Lockable(n, e)
    BY <1>3 DEF Stale!Lockable, SP!Lockable
  <1>5. \A s, n, cnt : /\ Stale!Closing(s, n) = SP!Closing(s, n)
                       /\ Stale!Leaving(s, cnt, n) = SP!Leaving(s, cnt, n)
    BY DEF Stale!Closing, SP!Closing, Stale!Leaving, SP!Leaving
  <1>6. \A d, f : Stale!Deletable(d, f) <=> SP!Deletable(d, f)
    BY <1>1 DEF Stale!Deletable, SP!Deletable
  <1>7. \A n : Stale!Look(n) <=> SP!Look(n)
    BY <1>2, <1>3 DEF Stale!Look, SP!Look
  <1>8. \A c, n, excl : Stale!Open(c, n, excl) <=> SP!Open(c, n, excl)
    BY <1>2, <1>3, <1>4 DEF Stale!Open, SP!Open
  <1>9. \A c : Stale!Close(c) <=> SP!Close(c)
    BY <1>5 DEF Stale!Close, SP!Close
  <1>10. \A c, x, f, isdir : Stale!Create(c, x, f, isdir) <=> SP!Create(c, x, f, isdir)
    BY DEF Stale!Create, SP!Create, Stale!OpenDir, SP!OpenDir
  <1>11. \A c, x, f : Stale!Link(c, x, f) <=> SP!Link(c, x, f)
    BY DEF Stale!Link, SP!Link, Stale!OpenDir, SP!OpenDir
  <1>12. \A c, x : Stale!Delete(c, x) <=> SP!Delete(c, x)
    BY <1>6 DEF Stale!Delete, SP!Delete, Stale!OpenDir, SP!OpenDir
  <1>13. \A c, t : Stale!Touch(c, t) <=> SP!Touch(c, t)
    BY DEF Stale!Touch, SP!Touch
  <1>14. \A c : (Stale!Join(c) <=> SP!Join(c)) /\ (Stale!Unjoin(c) <=> SP!Unjoin(c))
    BY <1>5 DEF Stale!Join, SP!Join, Stale!Unjoin, SP!Unjoin, Stale!Unmounts, SP!Unmounts
  <1>15. /\ Stale!MountDrive <=> SP!MountDrive
         /\ Stale!UmountDrive <=> SP!UmountDrive
         /\ Stale!Restart <=> SP!Restart
    BY DEF Stale!MountDrive, SP!MountDrive, Stale!UmountDrive, SP!UmountDrive,
           Stale!Restart, SP!Restart
  <1>16. Stale!Next <=> SP!Next
    BY <1>7, <1>8, <1>9, <1>10, <1>11, <1>12, <1>13, <1>14, <1>15 DEF Stale!Next, SP!Next
  <1>17. IInv <=> SP!IInv
    <2>1. \A S : Cardinality(S) = SP!Cardinality(S)
      BY DEF Cardinality, SP!Cardinality
    <2> QED BY <2>1 DEF IInv, SP!IInv, Typed, SP!Typed, LinksSuffice, SP!LinksSuffice, Extra, SP!Extra,
                    Records, SP!Records, Node, Opened, SP!Opened, Stat, SP!Stat, Closed, Dev, Mid
  <1> QED BY <1>16, <1>17

(* FilesKept, for any number of processes, files and names: with the clock  *)
(* right and no drive unmounted by its id, the opens of a file are those    *)
(* who have it open, an exclusive one is alone, nothing open is freed or    *)
(* unmounted and the last user of a filesystem can unmount it; and in any   *)
(* case, with directories that run full and times set by hand, no record    *)
(* leads to a file that has been freed (btfile.c, btserve.c).               *)
THEOREM FilesStayKept ==
  ASSUME ~Touching, ~Drives, ~SameSecond
  PROVE  MCSpec => []FilesKept
  <1> DEFINE Inv == /\ part = "opens" => IInv /\ UInv
                    /\ part = "stale" => SP!IInv
  <1>1. MCInit => Inv
    BY InitIInv, InitUInv, SameStale DEF MCInit
  <1>2. Inv /\ [MCNext]_<<vars, otherVars, part>> => Inv'
    <2> SUFFICES ASSUME Inv, [MCNext]_<<vars, otherVars, part>> PROVE Inv'
      OBVIOUS
    <2>1. part' = part
      BY DEF MCNext
    <2>2. CASE part = "opens"
      <3>1. [Next]_vars
        BY <2>2 DEF MCNext
      <3> QED BY <2>1, <2>2, <3>1, StepIInv, StepUInv
    <2>3. CASE part = "stale"
      <3>1. [SP!Next]_(SP!vars)
        BY <2>3, SameStale DEF MCNext, vars, SP!vars
      <3>2. SP!IInv
        BY <2>3
      <3>3. SP!IInv'
        BY <3>1, <3>2, SP!StepIInv, StaleAssumption
      <3> QED BY <2>1, <2>3, <3>3
    <2> QED BY <2>1, <2>2, <2>3
  <1>3. Inv => FilesKept
    BY UInvSays, LinksCount, SameStale DEF FilesKept
  <1> QED BY <1>1, <1>2, <1>3, PTL DEF MCSpec
=============================================================================

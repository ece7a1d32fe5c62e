----------------------------- MODULE MCFailSafe -----------------------------
(***************************************************************************)
(* FailSafe for TLC, with every write able to fail.  One update is enough  *)
(* where space is reserved and the extent may reach its end; without that  *)
(* there are MaxOps.                                                       *)
(***************************************************************************)
EXTENDS FailSafe

CONSTANT FewOps      \* bound: updates in a behaviour that also reserves space

VARIABLE reserving   \* does this behaviour reserve space

Reserves == ExtentFull \/ \E b \in Block : Preallocate(b) \/ PreallocateFails(b)

MCInit == Init /\ reserving \in BOOLEAN
MCNext == /\ Next
          /\ IF reserving THEN clock' <= FewOps ELSE ~Reserves
          /\ UNCHANGED reserving

(* A sync under way never waits for anything: the server runs on. *)
MCFairSpec == /\ MCInit
              /\ [][MCNext]_<<vars, reserving>>
              /\ WF_<<vars, reserving>>(Sync /\ UNCHANGED reserving)
=============================================================================

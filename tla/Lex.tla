-------------------------------- MODULE Lex --------------------------------
(***************************************************************************)
(* The order of byte strings and of compound keys: blkcmpr of the library, *)
(* strcmp.  A string that ends is before every longer one.                 *)
(***************************************************************************)
EXTENDS Integers, Sequences, FiniteSets

Before(a, b) ==
  \E i \in 0..(Len(b) - 1) :
    /\ i <= Len(a) /\ \A j \in 1..i : a[j] = b[j]
    /\ IF i = Len(a) THEN TRUE ELSE a[i + 1] < b[i + 1]

(* The least member of a non-empty finite set of sequences. *)
First(S) == CHOOSE x \in S : \A y \in S : ~Before(y, x)

(* A finite set of sequences in their order. *)
Ascending(S) ==
  [i \in 1..Cardinality(S) |-> CHOOSE x \in S : Cardinality({y \in S : Before(y, x)}) = i - 1]
=============================================================================

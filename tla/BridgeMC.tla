------------------------------ MODULE BridgeMC ------------------------------
(***************************************************************************)
(* Bridge for TLC.  Nothing tells one directory from another, so states    *)
(* that differ by a permutation of them are checked once.                  *)
(***************************************************************************)
EXTENDS Bridge, TLC

CONSTANT rel

\* A relative name leads each of two directories to the other.
Leads == [d \in Dirs |-> [v \in Values |-> IF v \in Dirs THEN v ELSE CHOOSE e \in Dirs : e # d]]

Symmetry == Permutations(Dirs)

===============================================================================

------------------------------ MODULE MCKspKeys ------------------------------
(***************************************************************************)
(* KspKeys for TLC: callers, structures and names are interchangeable.     *)
(***************************************************************************)
EXTENDS KspKeys, TLC

Symmetry == Permutations(Threads) \cup Permutations(KeyIds) \cup Permutations(Names)
=============================================================================

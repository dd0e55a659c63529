----------------------------- MODULE MCRunQueue -----------------------------
(***************************************************************************)
(* Instances of RunQueue for TLC. Replicas and clients are interchangeable *)
(* model values; runs are ordered by creation and are not.                 *)
(***************************************************************************)
EXTENDS RunQueue, TLC

Symmetry == Permutations(Inst) \cup Permutations(Clients)
=============================================================================

----------------------------- MODULE MCEtcdSnapshot -----------------------------
(***************************************************************************)
(* EtcdSnapshot with the timer and one operator, retaining two snapshots.   *)
(***************************************************************************)
EXTENDS EtcdSnapshot, TLC

Symmetry == Permutations(Procs)
================================================================================

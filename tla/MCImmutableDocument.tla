-------------------------- MODULE MCImmutableDocument --------------------------
(***************************************************************************)
(* ImmutableDocument on two payloads (a retry with the same fields, and one *)
(* with different fields) and three files: the published one, a leftover    *)
(* temporary and the one being written.                                    *)
(***************************************************************************)
EXTENDS ImmutableDocument, TLC

Symmetry == Permutations(Payloads) \union Permutations(Inodes)
================================================================================

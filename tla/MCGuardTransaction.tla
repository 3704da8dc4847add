--------------------------- MODULE MCGuardTransaction ---------------------------
(***************************************************************************)
(* GuardTransaction with one shell (a transaction, its recovery and the     *)
(* next transaction, with failures) and, from other initial states, with    *)
(* two shells and fewer failures.                                          *)
(***************************************************************************)
EXTENDS GuardTransaction
================================================================================

-------------------------- MODULE MCHostPrerequisites --------------------------
(***************************************************************************)
(* HostPrerequisites with one or two operator shells and two transactions.  *)
(***************************************************************************)
EXTENDS HostPrerequisites
================================================================================

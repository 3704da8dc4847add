----------------------------- MODULE MCGuardLoader -----------------------------
(***************************************************************************)
(* GuardLoader with a few attempts: loads that are interrupted, and the     *)
(* ones that follow them in the same unit start or after a restart.        *)
(***************************************************************************)
EXTENDS GuardLoader
================================================================================

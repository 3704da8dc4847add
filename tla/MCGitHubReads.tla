---------------------------- MODULE MCGitHubReads ----------------------------
(* The two commands that judge GitHub by several reads.  They share nothing,  *)
(* so a behaviour follows one of them while the other has not begun: the      *)
(* instance is the sum of the two, not the product.                           *)
EXTENDS RepositorySettings, ReadyCheck

CONSTANTS h1, h2, body1, body2, none

MCHeads  == {h1, h2}
MCBodies == {body1, body2}
MCAppOf  == [n \in {"repository-and-infrastructure", "CodeQL"} |->
                IF n = "CodeQL" THEN "github-advanced-security" ELSE "github-actions"]

SettingsRest == endpoint = "start" /\ changes = 0
ReadyRests   == reader = "begin" /\ readyChanges = 0

\* The pull request begins at a green and approved head, nothing is behind,
\* the other head is in any state; the first changes may all come before the reads.
ReadsInit ==
    /\ SettingsInit /\ ReadyInit
    /\ pull.head = h1 /\ pull.body = body1 /\ behind = [h \in Heads |-> FALSE]
    /\ runs[h1] = GreenRuns /\ Approval(h1) \in comments
ReadsNext ==
    \/ ReadyRests /\ SettingsNext /\ UNCHANGED readyVars
    \/ SettingsRest /\ ReadyNext /\ UNCHANGED settingsVars
ReadsSpec == ReadsInit /\ [][ReadsNext]_<<settingsVars, readyVars>>
===============================================================================

---------------------------- MODULE ReleaseHistory ----------------------------
(***************************************************************************)
(* What the platform promises of its releases, whoever publishes them: one *)
(* append-only history of sources of the protected branch, each ahead of   *)
(* the one before it and binding exactly one changelog fragment.           *)
(***************************************************************************)
EXTENDS ReleaseLedger

VARIABLES
    chain,    \* the protected branch
    history   \* released sources, in version order

Last == history[Len(history)]

Grow ==
    /\ Len(chain') = Len(chain) + 1
    /\ chain = [i \in DOMAIN chain |-> chain'[i]]
    /\ UNCHANGED history

Publish ==
    /\ \E source \in Last + 1..Len(chain) :
          /\ BindsOneFragment(chain, Last, source)
          /\ history' = Append(history, source)
    /\ UNCHANGED chain

Spec ==
    /\ Len(chain) = 1 /\ history = <<Floor>>
    /\ [][Grow \/ Publish]_<<chain, history>>
=============================================================================

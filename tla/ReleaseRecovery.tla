---------------------------- MODULE ReleaseRecovery ----------------------------
(***************************************************************************)
(* Recovery of the finite source backlog (platform-release-recovery.yml,   *)
(* publish-platform-recovery.sh, platform_release_recovery.py) beside the  *)
(* ordinary publishers.  The owner prepares the tag of an edge and starts  *)
(* a dispatch at the main of that moment; dispatches share one concurrency *)
(* group.  A dispatch selects the oldest incomplete edge once, proves its  *)
(* selection again before the settings and before publication, and then    *)
(* runs the publisher of ReleasePublication with a boundary of its own.    *)
(***************************************************************************)
EXTENDS ReleasePublication

Backlog == {v \in Version : IsHistorical(v)}

(***************************************************************************)
(* prove_trees and prove_context: the frozen sources are where the policy  *)
(* froze them, and the executor, never one of them, is the tip of main.    *)
(***************************************************************************)
FrozenEdgeIsExact(frozen) ==
    /\ frozen.source \in DOMAIN main /\ frozen.parent = frozen.source - 1
    /\ main[frozen.source] = frozen.tree
    /\ BindsOneFragment(main, frozen.parent, frozen.source)

prove_trees(d) ==
    /\ run[d].ctx \notin FrozenSources \cup {Frozen[1].parent}
    /\ IsAncestor(Frozen[Len(Frozen)].source, run[d].ctx)
    /\ \A i \in DOMAIN Frozen : FrozenEdgeIsExact(Frozen[i])

prove_context(d) ==
    /\ prove_trees(d)
    /\ run[d].ctx = Tip
    /\ Attempt(d) = 1 /\ records[d][1].status = PendingStatus

\* Pending evidence is a refusal here: a dispatch does not wait.
prove_ci(c) == build_main_ci_jobs_receipt(c) = "exact"

prove_release(v, source) == ReleaseProof(tags[v], Published(v), v, source, records, ci)

(***************************************************************************)
(* selection: the first edge of the backlog that is not released, every    *)
(* one before it being exact.                                              *)
(***************************************************************************)
EdgeSource(v) == IF IsHistorical(v) THEN historical_release(v).source ELSE Floor

\* Mutant of Oldest: any edge that is not released may be selected.
AnyUnreleased(v) ==
    /\ v \in Backlog
    /\ prove_release(v, EdgeSource(v)) = "absent"
    /\ prove_release(TerminalV3, EdgeSource(TerminalV3)) = "exact"

Oldest(v) ==
    /\ v \in Backlog
    /\ prove_release(v, EdgeSource(v)) = "absent"
    /\ \A w \in TerminalV3..v - 1 : prove_release(w, EdgeSource(w)) = "exact"

\* Mutant of Admitted: the CI of the executor itself is not asked for.
AdmittedBySource(d, source, v) == prove_ci(source) /\ TagIsExact(tags[v], source)

Admitted(d, source, v) ==
    /\ prove_ci(run[d].ctx) /\ prove_ci(source)
    /\ TagIsExact(tags[v], source)

Chosen(d, v) ==
    LET frozen == historical_release(v) IN
    /\ Oldest(v)
    /\ Window(main, tags, frozen.source) = Ready(frozen.parent, v)
    /\ Admitted(d, frozen.source, v)

\* verify: the same selection, proved again from its predecessor.
Verified(d) ==
    /\ prove_context(d)
    /\ Binding(d)
    /\ prove_release(run[d].version - 1, run[d].base) = "exact"
    /\ Admitted(d, Source(d), run[d].version)

(***************************************************************************)
(* The owner.                                                              *)
(***************************************************************************)
PrepareTag ==
    /\ \E v \in Backlog :
          /\ tags[v] = NoTag /\ tags[v - 1] # NoTag
          /\ tags' = [tags EXCEPT ![v] = [source |-> EdgeSource(v), exact |-> TRUE]]
    /\ UNCHANGED <<main, pr, ci, codeql, releases, setting, run, records, disturbances>>

Queued(d) == run[d].pc = "queued"

\* A dispatch takes the place of the one that is still waiting for the group.
StartDispatch(d) ==
    /\ records[d] = <<>> /\ \A e \in Dispatch : e < d => records[e] # <<>>
    /\ run' = [e \in Run |-> CASE e = d     -> [Idle EXCEPT !.pc = "queued", !.ctx = Tip]
                               [] Queued(e) -> Idle
                               [] OTHER     -> run[e]]
    /\ records' = [e \in Run |->
          CASE e = d     -> <<Started(Tip, "workflow_dispatch", "platform-release-recovery")>>
            [] Queued(e) -> <<Completed("cancelled", records[e][1])>>
            [] OTHER     -> records[e]]
    /\ UNCHANGED <<main, pr, ci, codeql, tags, releases, setting, disturbances>>

(***************************************************************************)
(* The jobs prepare, immutable-settings and publish.                       *)
(***************************************************************************)

\* Mutant of Begin: a run waits for its own concurrency group.
BeginAlone(d) ==
    /\ Queued(d)
    /\ \A e \in Dispatch : ~Running(e)
    /\ Goto(d, "prepare") /\ Reads

Begin(d) ==
    /\ Queued(d)
    /\ \A e \in Dispatch : Running(e) => Queued(e)
    /\ Goto(d, "prepare") /\ Reads

Prepare(d) ==
    /\ run[d].pc = "prepare"
    /\ \/ \E v \in Backlog :
             /\ prove_context(d) /\ Chosen(d, v)
             /\ Move(d, [run[d] EXCEPT !.pc = "verify", !.version = v,
                           !.source = EdgeSource(v), !.base = historical_release(v).parent])
             /\ Reads
       \/ ~(prove_context(d) /\ \E v \in Backlog : Chosen(d, v)) /\ Fail(d)

Verify(d) ==
    /\ run[d].pc = "verify"
    /\ IF Verified(d) THEN Goto(d, "settings") /\ Reads ELSE Fail(d)

\* publish-platform-recovery.sh, and the publisher it starts, before its first
\* classification.
Reverify(d) ==
    /\ run[d].pc = "reverify"
    /\ IF Verified(d)
       THEN /\ Move(d, [run[d] EXCEPT !.pc = "preflight",
                          !.notes = Notes(main, tags, Source(d), run[d].base, run[d].version)])
            /\ Reads
       ELSE Fail(d)

RecoveryPlatform ==
    \/ Platform
    \/ \E d \in Dispatch : Begin(d) \/ Prepare(d) \/ Verify(d) \/ Reverify(d)

RecoveryNext ==
    \/ RecoveryPlatform
    \/ People
    \/ PrepareTag
    \/ \E d \in Dispatch : StartDispatch(d)

RecoverySpec == Init /\ [][RecoveryNext]_vars /\ WF_vars(RecoveryPlatform)

-----------------------------------------------------------------------------
Selected(d) == d \in Dispatch /\ Source(d) # 0

\* From its selection to its end, whoever publishes beside it, a dispatch works
\* on the oldest incomplete edge: every edge before it is released and settled,
\* and nobody but itself has released the edge.
SelectionStaysOldest ==
    \A d \in Dispatch : Selected(d) =>
       /\ \A w \in Version : w < run[d].version => ReleasedVersion(w)
       /\ \A r \in Published(run[d].version) : r.identity.publisher.run = d

\* Every edge of the backlog is executed by a main whose own CI is complete, as
\* the dispatch's record shows it, and a later edge never by an older main than
\* an earlier one.
ExecutorsAscend ==
    \A v, w \in Backlog : v <= w =>
       \A q \in Published(v), r \in Published(w) :
          /\ q.identity.execution <= r.identity.execution
          /\ prove_ci(r.identity.execution)
          /\ records[r.identity.publisher.run][1].head = r.identity.execution

\* A dispatch that nothing disturbs releases an edge: with the tag prepared,
\* both CI proofs complete, no other dispatch at work, no draft of an earlier
\* one that already holds an asset, and main at rest, it never refuses.
Prepared(d) ==
    /\ Queued(d) /\ run[d].ctx = Tip
    /\ \A e \in Dispatch \ {d} : ~Running(e)
    /\ \A r \in releases : r.draft => AssetCount(r) = 0
    /\ \E v \in Backlog : Chosen(d, v)

Recovered(d) ==
    \E v \in Backlog : \E r \in Published(v) :
       r.identity.publisher.run = d /\ ReleasedVersion(v)

Cancelled(d) == \E i \in DOMAIN records[d] : records[d][i].conclusion = "cancelled"

DispatchRecovers ==
    \A d \in Dispatch :
       Prepared(d) ~> \/ Recovered(d) \/ disturbances # <<>>
                      \/ run[d].ctx \notin {0, Tip}
                      \/ Cancelled(d)
===============================================================================

---------------------------- MODULE ReleaseEpochs ----------------------------
(***************************************************************************)
(* platform_release_epoch.py: which repository name, schema, publisher and *)
(* executor a version of the ledger may carry.  Versions are positions in  *)
(* the ledger, sources are positions on main; the repository object is     *)
(* always the one GitHub id, so only its name is a datum here.             *)
(***************************************************************************)
EXTENDS Naturals, Sequences, FiniteSets

CONSTANTS
    FirstV2, FirstV3, FirstV4,  \* first version of each identity epoch
    Frozen      \* the finite backlog: sequence of [source, parent, tree, mainRun]

\* The epochs follow one another; the first of them may lie before the floor.
ASSUME EpochAssumption ==
    /\ {FirstV2, FirstV3, FirstV4} \subseteq Nat
    /\ FirstV2 <= FirstV3 /\ FirstV3 <= FirstV4

OldName == "website-infrastructure"
NewName == "platform"
MainTarget == 0          \* target_commitish "main" rather than a commit
NoName == "none"

next_tag(v) == v + 1
TerminalV1 == FirstV2 - 1
TerminalV2 == FirstV3 - 1
TerminalV3 == FirstV4 - 1

\* HISTORICAL_RELEASES takes the first tags of the fourth epoch, in order.
IsHistorical(v)   == v - FirstV4 + 1 \in DOMAIN Frozen /\ v >= FirstV4
historical_release(v) == Frozen[v - FirstV4 + 1]
FrozenSources     == {Frozen[i].source : i \in DOMAIN Frozen}

\* What target_commitish a release of v must show ("foreign" raises).
TargetIsKnown(v, source) == IsHistorical(v) => source = historical_release(v).source
release_target(v, source) == IF IsHistorical(v) THEN MainTarget ELSE source

EpochOf(v) == CASE v < FirstV2                -> 1
                [] v >= FirstV2 /\ v < FirstV3 -> 2
                [] v >= FirstV3 /\ v < FirstV4 -> 3
                [] v >= FirstV4                -> 4

RepositoryOf(v) == IF EpochOf(v) = 1 THEN OldName ELSE NewName
PublisherEvent(v) == IF IsHistorical(v) THEN "workflow_dispatch" ELSE "workflow_run"
PublisherWorkflow(v) ==
    IF IsHistorical(v) THEN "platform-release-recovery" ELSE "platform-release"

\* The signing subject and the two asset names follow from these fields.
identity(v) == [version    |-> EpochOf(v),
                repository |-> RepositoryOf(v),
                workflow   |-> PublisherWorkflow(v),
                event      |-> PublisherEvent(v)]

(***************************************************************************)
(* publication: may a repository of this name publish v after base?        *)
(***************************************************************************)
OldNameEdge(v, base) == v = TerminalV1 /\ base.version = TerminalV1 - 1

FourthEpochEdge(v, base, source) ==
    IF IsHistorical(v)
    THEN source = historical_release(v).source /\ base.source = historical_release(v).parent
    ELSE source \notin FrozenSources

publication(name, v, base, source) ==
    /\ identity(v).repository = name
    /\ next_tag(base.version) = v
    /\ name = OldName => OldNameEdge(v, base)
    /\ EpochOf(v) = 4 => FourthEpochEdge(v, base, source)

(***************************************************************************)
(* Signed evidence: validate_execution and validate_identity.              *)
(***************************************************************************)
HistoricalExecution(e) ==
    LET frozen == historical_release(e.version) IN
    /\ e.source = frozen.source
    /\ e.base.source = frozen.parent
    /\ e.main.source = frozen.source /\ e.main.attempt = 1
    /\ e.publisher.attempt = 1
    /\ e.execution \notin FrozenSources
    /\ e.execution # Frozen[1].parent

OrdinaryExecution(e) == e.execution = e.source

validate_execution(e) ==
    IF IsHistorical(e.version) THEN HistoricalExecution(e) ELSE OrdinaryExecution(e)

validate_identity(e) ==
    /\ e.epoch = EpochOf(e.version)
    /\ e.repository = RepositoryOf(e.version)
    /\ next_tag(e.base.version) = e.version
    /\ EpochOf(e.version) = 4 => validate_execution(e)

(***************************************************************************)
(* GitHub shows the current name in old records: metadata_repository says  *)
(* which names may transport a release of v, run_repository which may      *)
(* stand in a run record, where before the terminal v1 release a record    *)
(* may also lack the repository object.                                    *)
(***************************************************************************)
metadata_repository(v, name) ==
    /\ name = NoName => EpochOf(v) = 1
    /\ name = OldName => EpochOf(v) = 1

run_repository(v, name, hasObject) ==
    \/ v < TerminalV1 /\ name = OldName /\ ~hasObject
    \/ hasObject /\ name # NoName /\ metadata_repository(v, name)
=============================================================================

---------------------------- MODULE ReleaseRecords ----------------------------
(***************************************************************************)
(* The records GitHub returns for one release edge and the verdicts that   *)
(* platform_release_contract.py and platform_release_recovery.py give on   *)
(* them.  A verdict is "absent", "exact" or "refused"; the last stands for *)
(* every ContractError, which ends the step that asked.                    *)
(*                                                                         *)
(* A release record: id, version (tag_name and title, or the server's own  *)
(* untagged-... name while it is a draft), target, body, draft, immutable, *)
(* bot (author and uploader), and the two assets: identity, and bundle,    *)
(* which holds the identity it signs.                                      *)
(***************************************************************************)
EXTENDS ReleaseLedger, ReleaseEpochs

NoAsset    == [epoch |-> 0]
PendingStatus == "in_progress"   \* queued, pending, requested, waiting too

DraftMarker(source, v) == [kind |-> "marker", source |-> source, version |-> v]
NotesBody(notes)       == [kind |-> "notes", notes |-> notes]
ForeignBody            == [kind |-> "foreign"]

Verdict(present, exact) ==
    CASE ~present -> "absent" [] present /\ exact -> "exact" [] OTHER -> "refused"

(***************************************************************************)
(* validate_tag_record and classify_tag_state.                             *)
(***************************************************************************)
TagIsExact(tag, source) == tag.exact /\ tag.source = source
TagState(tag, source)   == Verdict(tag # NoTag, TagIsExact(tag, source))

(***************************************************************************)
(* validate_draft_release_record, for the zero-asset draft an ordinary     *)
(* publication may resume, and classify_draft_release_state over every     *)
(* page of releases.                                                       *)
(***************************************************************************)
AssetCount(r) == Cardinality({f \in {"identity", "bundle"} : r[f] # NoAsset})

DraftIsExact(r, v, source, body) ==
    /\ r.version = v
    /\ r.target = release_target(v, source)
    /\ r.body = body
    /\ r.draft /\ ~r.immutable
    /\ r.bot
    /\ AssetCount(r) = 0

DraftRelevant(r, v, source, bodies) ==
    r.version = v \/ r.target = source \/ r.body \in bodies

ExactPublished(r, v, source, bodies) ==
    /\ r.version = v /\ r.target = source /\ r.body \in bodies
    /\ ~r.draft /\ r.immutable /\ r.bot

DraftCandidates(releases, v, source, bodies) ==
    {r \in releases : /\ DraftRelevant(r, v, source, bodies)
                      /\ ~ExactPublished(r, v, source, bodies)}

DraftState(releases, v, source, bodies) ==
    LET candidates == DraftCandidates(releases, v, source, bodies) IN
    Verdict(candidates # {},
            \E r \in candidates :
               /\ candidates = {r}
               /\ r.body \in bodies
               /\ DraftIsExact(r, v, source, r.body))

(***************************************************************************)
(* render_release_identity: what the publisher signs.  main and execution  *)
(* name the CI runs it was handed; an ordinary run executes its own source.*)
(***************************************************************************)
Identity(v, source, base, notes, release, publisher, execution) ==
    [epoch      |-> EpochOf(v),
     repository |-> RepositoryOf(v),
     version    |-> v,
     source     |-> source,
     base       |-> base,
     notes      |-> notes,
     release    |-> release,
     main       |-> [source |-> source, attempt |-> 1],
     publisher  |-> publisher,
     execution  |-> execution]

Signed(e) == [epoch |-> e.epoch, payload |-> e]

(***************************************************************************)
(* _validate_identity_asset_metadata and _sigstore_bundle: two assets, the *)
(* bot's, and a bundle over these very identity bytes.                     *)
(***************************************************************************)
BundleSigns(bundle, e) == bundle # NoAsset /\ bundle.payload = e

AssetsAreExact(r) ==
    /\ AssetCount(r) = 2
    /\ BundleSigns(r.bundle, r.identity)
    /\ metadata_repository(r.identity.version, NewName)
    /\ r.bot

(***************************************************************************)
(* selector_image_from_release, without the retired selector and sites of  *)
(* the first two epochs: the evidence agrees with the record that carries  *)
(* it, with the tag, with the edge and with its own execution.             *)
(***************************************************************************)
EvidenceOfRelease(r, v, source, staged) ==
    /\ r.identity.release = r.id
    /\ TargetIsKnown(v, source)
    /\ r.version = v /\ r.target = release_target(v, source)
    /\ r.draft = staged /\ r.immutable = ~staged
    /\ r.bot

EvidenceOfEdge(e, v, source) ==
    /\ e.version = v /\ e.source = source
    /\ e.base.version = v - 1 /\ e.base.source # source

EvidenceOfRuns(e, v, source) ==
    /\ e.main.source = source
    /\ e.publisher.event = PublisherEvent(v)
    /\ e.publisher.workflow = PublisherWorkflow(v)
    /\ e.publisher.head = e.execution

IdentityReleaseIsExact(r, v, source, staged) ==
    /\ AssetsAreExact(r)
    /\ EvidenceOfRelease(r, v, source, staged)
    /\ EvidenceOfEdge(r.identity, v, source)
    /\ EvidenceOfRuns(r.identity, v, source)
    /\ validate_identity(r.identity)

IdentityReleaseState(published, v, source) ==
    Verdict(published # {},
            \E r \in published : IdentityReleaseIsExact(r, v, source, FALSE))

(***************************************************************************)
(* validate_identity_run_records: every run the receipt names is an exact  *)
(* completed attempt.  records[run][attempt] is what GitHub says of a      *)
(* publisher attempt, ci[c] the conclusion of the push CI of commit c.     *)
(***************************************************************************)
PublisherRecord(e, records) == records[e.publisher.run][e.publisher.attempt]

PublisherRecordAgrees(e, record) ==
    /\ record.head = e.execution
    /\ record.event = PublisherEvent(e.version)
    /\ record.workflow = PublisherWorkflow(e.version)
    /\ run_repository(e.version, NewName, TRUE)

MainRecordsAgree(e, ci) ==
    /\ ci[e.source] = "success"
    /\ ci[e.execution] = "success"

RunsAreProven(e, records, ci) ==
    LET record == PublisherRecord(e, records) IN
    /\ EpochOf(e.version) = 4 => validate_execution(e)
    /\ MainRecordsAgree(e, ci)
    /\ PublisherRecordAgrees(e, record)
    /\ record.status = "completed" /\ record.conclusion = "success"

\* Mutant of RunsArePending: a publisher still at work counts as failed.
NoRunIsPending(e, records, ci) == FALSE

RunsArePending(e, records, ci) ==
    LET record == PublisherRecord(e, records) IN
    /\ EpochOf(e.version) = 4
    /\ MainRecordsAgree(e, ci)
    /\ PublisherRecordAgrees(e, record)
    /\ record.status = PendingStatus

(***************************************************************************)
(* prove_release: only an exact immutable release whose original publisher *)
(* attempt completed successfully advances the ledger.                     *)
(***************************************************************************)
ReleaseProof(tag, published, v, source, records, ci) ==
    CASE tag = NoTag /\ published = {}                   -> "absent"
      [] tag = NoTag /\ published # {}                   -> "refused"
      [] tag # NoTag /\ ~TagIsExact(tag, source)         -> "refused"
      [] TagIsExact(tag, source) /\ published = {}       -> "absent"
      [] OTHER ->
            LET r == CHOOSE p \in published : TRUE IN
            IF ~IdentityReleaseIsExact(r, v, source, FALSE) THEN "refused"
            ELSE IF RunsArePending(r.identity, records, ci) THEN "pending"
            ELSE IF RunsAreProven(r.identity, records, ci) THEN "exact"
            ELSE "refused"
=============================================================================

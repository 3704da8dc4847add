-------------------------- MODULE ReleasePublication --------------------------
(***************************************************************************)
(* Publication of platform source releases: pull requests merge into main, *)
(* the push CI of each source starts one publisher run, and the runs of    *)
(* different sources race through platform-release.yml, its predecessor    *)
(* wait and publish-platform-release.sh against one tag ledger and one     *)
(* list of GitHub releases.  A run may be killed and rerun at any step,    *)
(* the owner may toggle the immutable-release setting or draft a release,  *)
(* and main may move before a workflow_run event is delivered.  The script *)
(* also serves the dispatches of ReleaseRecovery, which share its actions. *)
(*                                                                         *)
(* External, from how the scripts use it: GitHub's refs and releases are   *)
(* atomic objects, a ref is created once, at most one release of a tag is  *)
(* published, and a published release is immutable iff the setting is on.  *)
(***************************************************************************)
EXTENDS ReleaseRecords

CONSTANTS
    Proposal,     \* trees a pull request may propose
    Landed,       \* the trees on main at the start, the floor's first
    MaxMain,      \* bound: commits on main
    MaxDispatch,  \* bound: recovery dispatches, see ReleaseRecovery
    MaxAttempts,  \* bound: attempts of one run
    Disturbance,  \* the kinds of disturbance that may happen
    MaxDisturbances  \* bound: how many of them, of all kinds together

ASSUME BoundsAssumption ==
    /\ Proposal \subseteq Tree
    /\ {MaxMain, MaxAttempts} \subseteq Nat \ {0}
    /\ MaxVersion \in Nat /\ MaxVersion >= MaxMain
    /\ IsFiniteSet(Path)
    /\ Landed \in Seq(Tree) /\ Len(Landed) \in 1..MaxMain
    /\ Disturbance \subseteq {"kill", "timeout", "codeql", "toggle", "draft"}
    /\ {MaxDispatch, MaxDisturbances} \subseteq Nat

\* The backlog is part of what has landed: its edges follow one another from
\* the terminal release of the third epoch (TERMINAL_V3_SOURCE), which the
\* model takes as its floor, and each adds one fragment.
ASSUME FrozenAssumption ==
    /\ Frozen \in Seq([source : 2..Len(Landed), parent : 1..Len(Landed), tree : Tree, mainRun : Nat])
    /\ Frozen # <<>> => FirstV4 = 2
    /\ \A i \in DOMAIN Frozen :
          /\ Frozen[i].parent = IF i = 1 THEN Floor ELSE Frozen[i - 1].source
          /\ BindsOneFragment(Landed, Frozen[i].parent, Frozen[i].source)

VARIABLES
    main,      \* the protected branch: a sequence of trees
    pr,        \* the open pull request's tree, or <<>>
    ci,        \* conclusion of the push CI of each source
    codeql,    \* and of its CodeQL run
    tags,      \* version -> tag ref
    releases,  \* every release record, drafts included
    setting,   \* the repository's immutable-releases setting
    run,       \* run -> the publisher attempt in progress
    records,   \* run -> GitHub's records of its attempts
    disturbances  \* the bounded disturbances that have happened

vars == <<main, pr, ci, codeql, tags, releases, setting, run, records, disturbances>>

\* The ordinary run of a source has its number; dispatches come after them.
Commit   == 1..MaxMain
Dispatch == MaxMain + 1..MaxMain + MaxDispatch
Run      == Commit \cup Dispatch
NoPR     == <<>>
Step     == {"ci", "wait", "settings", "rebind", "preflight", "confirm", "tag",
             "tagref", "tagpoll", "release", "draft", "create", "body", "listed",
             "upload1", "upload2", "publish", "published", "settle",
             "queued", "prepare", "verify", "reverify"}
Idle     == [pc |-> "idle", at |-> "start", ctx |-> 0, source |-> 0, base |-> 0,
             version |-> 1, notes |-> Denied,
             seen |-> <<"absent", "absent", "absent">>, draft |-> 0]

Running(c)   == run[c].pc # "idle"
Attempt(c)   == Len(records[c])
Source(c)    == run[c].source
Tip          == Len(main)

(***************************************************************************)
(* The two workflows that a source must have passed, as their attempt and  *)
(* job records show them.                                                  *)
(***************************************************************************)
plan_workflow_run(c) == ci[c] = "success"

classify_codeql_run(c) ==
    CASE codeql[c] = "pending"               -> "pending"
      [] codeql[c] \in {"run", "success"}    -> "exact"
      [] codeql[c] = "failure"               -> "refused"

\* The jobs of a completed run may still be listed as pending, or not at all.
codeql_jobs_ready(c) == codeql[c] = "success"

build_main_ci_jobs_receipt(c) ==
    IF ~plan_workflow_run(c) \/ classify_codeql_run(c) = "refused" THEN "refused"
    ELSE IF classify_codeql_run(c) = "exact" /\ codeql_jobs_ready(c) THEN "exact"
    ELSE "pending"

(***************************************************************************)
(* What a run of source c would sign, and what it expects to read.         *)
(***************************************************************************)
Publisher(c, attempt, v, execution) ==
    [run |-> c, attempt |-> attempt, head |-> execution,
     event |-> PublisherEvent(v), workflow |-> PublisherWorkflow(v)]

Base(c) == [version |-> run[c].version - 1, source |-> run[c].base]

Bodies(c) == {DraftMarker(Source(c), run[c].version), NotesBody(run[c].notes)}

Execution(c) == IF c \in Dispatch THEN run[c].ctx ELSE Source(c)

CurrentIdentity(c) ==
    Identity(run[c].version, Source(c), Base(c), run[c].notes, run[c].draft,
             Publisher(c, Attempt(c), run[c].version, Execution(c)), Execution(c))

\* GET /releases/tags/<tag> does not show drafts.
Published(v) == {r \in releases : r.version = v /\ ~r.draft}

FloorIdentity ==
    Identity(1, Floor, [version |-> 0, source |-> 0], Denied, 1, Publisher(Floor, 1, 1, Floor), Floor)
FloorRelease ==
    [id |-> 1, version |-> 1, target |-> Floor, body |-> ForeignBody, draft |-> FALSE,
     immutable |-> TRUE, bot |-> TRUE, identity |-> FloorIdentity, bundle |-> Signed(FloorIdentity)]

Completed(conclusion, record) ==
    [record EXCEPT !.status = "completed", !.conclusion = conclusion]
Started(head, event, workflow) ==
    [head |-> head, event |-> event, workflow |-> workflow,
     status |-> PendingStatus, conclusion |-> "none"]
Ordinary(c) == Started(c, "workflow_run", "platform-release")

Init ==
    /\ main = Landed
    /\ pr = NoPR
    /\ ci = [c \in Commit |-> IF c \in FrozenSources \cup {Floor} THEN "success" ELSE "none"]
    /\ codeql = [c \in Commit |->
                   IF c \in FrozenSources \cup {Floor} THEN "success" ELSE "pending"]
    /\ tags = [v \in Version |->
                 IF v = 1 THEN [source |-> Floor, exact |-> TRUE] ELSE NoTag]
    /\ releases = {FloorRelease}
    /\ setting = "on"
    /\ run = [c \in Run |-> Idle]
    /\ records = [c \in Run |->
                    CASE c = Floor            -> <<Completed("success", Ordinary(c))>>
                      [] c \in FrozenSources -> <<Completed("failure", Ordinary(c))>>
                      [] OTHER                -> <<>>]
    /\ disturbances = <<>>

(***************************************************************************)
(* Ends and moves of one attempt.                                          *)
(***************************************************************************)
End(c, conclusion) ==
    /\ run' = [run EXCEPT ![c] = [Idle EXCEPT !.ctx = run[c].ctx]]
    /\ records' = [records EXCEPT ![c][Attempt(c)] = Completed(conclusion, @)]

Fail(c) == /\ End(c, "failure")
           /\ UNCHANGED <<main, pr, ci, codeql, tags, releases, setting, disturbances>>

Move(c, fields) ==
    /\ run' = [run EXCEPT ![c] = fields]
    /\ UNCHANGED <<main, pr, ci, codeql, setting, records, disturbances>>

Goto(c, pc) == Move(c, [run[c] EXCEPT !.pc = pc])
Reads       == UNCHANGED <<tags, releases>>

Disturb(kind) ==
    /\ kind \in Disturbance /\ Len(disturbances) < MaxDisturbances
    /\ disturbances' = Append(disturbances, kind)

(***************************************************************************)
(* Pull requests and push CI.  Both run validate_transition with the tags  *)
(* of their own moment; protection lets only an up-to-date head merge.     *)
(***************************************************************************)
OpenPR ==
    /\ pr = NoPR /\ Tip < MaxMain
    /\ \E tree \in Proposal :
          /\ TransitionIsValid(Append(main, tree), tags, Tip, Tip + 1)
          /\ pr' = tree
    /\ UNCHANGED <<main, ci, codeql, tags, releases, setting, run, records, disturbances>>

MergePR ==
    /\ pr # NoPR
    /\ main' = Append(main, pr)
    /\ pr' = NoPR
    /\ UNCHANGED <<ci, codeql, tags, releases, setting, run, records, disturbances>>

PushCI(c) ==
    /\ c \in 2..Tip /\ ci[c] = "none"
    /\ UNCHANGED <<main, pr, codeql, tags, releases, setting, disturbances>>
    /\ IF TransitionIsValid(main, tags, c - 1, c)
       THEN /\ ci' = [ci EXCEPT ![c] = "success"]
            /\ run' = [run EXCEPT ![c] = [Idle EXCEPT !.pc = "ci", !.ctx = Tip]]
            /\ records' = [records EXCEPT ![c] = <<Ordinary(c)>>]
       ELSE /\ ci' = [ci EXCEPT ![c] = "failure"]
            /\ UNCHANGED <<run, records>>

\* CodeQL succeeds unless it is disturbed.
CodeQL(c) ==
    /\ c \in 2..Tip /\ codeql[c] \in {"pending", "run"}
    /\ codeql' = [codeql EXCEPT ![c] = IF @ = "pending" THEN "run" ELSE "success"]
    /\ UNCHANGED <<main, pr, ci, tags, releases, setting, run, records, disturbances>>

CodeQLFails(c) ==
    /\ c \in 2..Tip /\ codeql[c] = "pending" /\ Disturb("codeql")
    /\ codeql' = [codeql EXCEPT ![c] = "failure"]
    /\ UNCHANGED <<main, pr, ci, tags, releases, setting, run, records>>

\* main-ci-jobs: poll until CodeQL of this source is complete.  That its
\* thirty polls may run out is one of the places where Kill ends the run.
MainCI(c) ==
    /\ run[c].pc = "ci"
    /\ \/ build_main_ci_jobs_receipt(c) = "exact" /\ Goto(c, "wait") /\ UNCHANGED <<tags, releases>>
       \/ build_main_ci_jobs_receipt(c) = "refused" /\ Fail(c)

(***************************************************************************)
(* immutable-settings: wait for the exact predecessor, then prove that the *)
(* setting is on.  Before the fourth epoch the wait asks for the exact     *)
(* release only; from there on also for its original publisher's success.  *)
(***************************************************************************)
EdgeProof(window, c) ==
    LET b == window.version - 1 IN
    CASE window.verdict = "deny"    -> "refused"
      [] window.verdict = "pending" -> "pending"
      [] window.verdict = "ready"   ->
            IF \/ ~publication(NewName, window.version, [version |-> b, source |-> window.base], c)
               \/ TagState(tags[b], window.base) # "exact"
            THEN "refused"
            ELSE IF EpochOf(b) < 4 THEN IdentityReleaseState(Published(b), b, window.base)
            ELSE ReleaseProof(tags[b], Published(b), b, window.base, records, ci)

Polled(c) == {EdgeProof(window, c) : window \in {Window(main, tags, c)}}

Wait(c) ==
    /\ run[c].pc = "wait"
    /\ \E proof \in Polled(c) :
          \/ proof = "exact" /\ Goto(c, "settings") /\ Reads
          \/ proof = "refused" /\ Fail(c)
OthersAtWork(c) ==
    \/ \E d \in Run \ {c} : Running(d)
    \/ \E d \in 2..Tip : ci[d] = "none" \/ codeql[d] \in {"pending", "run"}

\* Mutant of Timeout: the wait is bounded only while another run is at work.
TimeoutNeverAlone(c) ==
    /\ run[c].pc = "wait" /\ Polled(c) \subseteq {"pending", "absent"}
    /\ OthersAtWork(c)
    /\ Disturb("timeout")
    /\ End(c, "failure")
    /\ UNCHANGED <<main, pr, ci, codeql, tags, releases, setting>>

\* Thirty polls.  Without a bounded disturbance they outlast any run at work.
Timeout(c) ==
    /\ run[c].pc = "wait" /\ Polled(c) \subseteq {"pending", "absent"}
    /\ IF OthersAtWork(c)
       THEN Disturb("timeout")
       ELSE UNCHANGED disturbances
    /\ End(c, "failure")
    /\ UNCHANGED <<main, pr, ci, codeql, tags, releases, setting>>

Settings(c) ==
    /\ run[c].pc = "settings"
    /\ IF setting = "on"
       THEN Goto(c, IF c \in Dispatch THEN "reverify" ELSE "rebind") /\ Reads
       ELSE Fail(c)

\* publish: fetch the tags, derive the window again, and (fourth epoch) let
\* only the commit the event itself ran on be its own source.  An edge of the
\* backlog has no selection here.  The notes are rendered from these tags.
Rebind(c) ==
    /\ run[c].pc = "rebind"
    /\ \E window \in {Window(main, tags, c)} :
       IF /\ window.verdict = "ready"
          /\ ~IsHistorical(window.version)
          /\ run[c].ctx = c
          /\ publication(NewName, window.version,
                         [version |-> window.version - 1, source |-> window.base], c)
       THEN /\ Move(c, [run[c] EXCEPT !.pc = "preflight", !.at = "start",
                           !.source = c, !.base = window.base, !.version = window.version,
                           !.notes = Notes(main, tags, c, window.base, window.version)])
            /\ Reads
       ELSE Fail(c)

(***************************************************************************)
(* The closed state of an edge, as the publisher classifies it.  A release *)
(* that names this very attempt is its own; any other must name completed  *)
(* successful runs.                                                        *)
(***************************************************************************)
PredecessorIsProven(c) ==
    LET b == run[c].version - 1 IN
    /\ TagIsExact(tags[b], run[c].base)
    /\ \E r \in Published(b) :
          /\ IdentityReleaseIsExact(r, b, run[c].base, FALSE)
          /\ RunsAreProven(r.identity, records, ci)

OwnIdentity(c, e) == e.publisher.run = c /\ e.publisher.attempt = Attempt(c)

CurrentTag(c) == TagState(tags[run[c].version], Source(c))

\* Mutant of CurrentRelease: what the evidence says is not compared.
ReleaseIsThere(c) == Verdict(Published(run[c].version) # {}, TRUE)

CurrentRelease(c) ==
    LET shown == Published(run[c].version) IN
    Verdict(shown # {},
            \E r \in shown :
               /\ IdentityReleaseIsExact(r, run[c].version, Source(c), FALSE)
               /\ OwnIdentity(c, r.identity) \/ RunsAreProven(r.identity, records, ci))
CurrentDraft(c) == DraftState(releases, run[c].version, Source(c), Bodies(c))

ClosedState(c) == <<CurrentTag(c), CurrentRelease(c), CurrentDraft(c)>>

StateIsPossible(tag, release, draft) ==
    /\ "refused" \notin {tag, release, draft}
    /\ tag = "absent" => release = "absent" /\ draft = "absent"
    /\ release = "exact" => draft = "absent"

\* platform_release_recovery.py bind, and the ref of main beside it: the edge
\* is still the ledger's and its executor is still the tip of main.
Binding(c) ==
    /\ publication(NewName, run[c].version, Base(c), Source(c))
    /\ Window(main, tags, Source(c)) = Ready(run[c].base, run[c].version)

\* preflight_publication_state: one complete pass, then the same pass again.
Preflight(c) ==
    /\ run[c].pc = "preflight"
    /\ \E state \in {ClosedState(c)} :
       IF /\ c \in Dispatch => Binding(c)
          /\ PredecessorIsProven(c) /\ StateIsPossible(state[1], state[2], state[3])
       THEN Move(c, [run[c] EXCEPT !.pc = "confirm", !.seen = state]) /\ Reads
       ELSE Fail(c)

\* What follows the second pass at each of its four call sites.
AfterConfirm(at) ==
    CASE at = "start"     -> "tag"
      [] at = "tagobject" -> "preflight"
      [] at = "tagref"    -> "tagref"
      [] at = "draft"     -> "draft"
NextSite(at) == IF at = "tagobject" THEN "tagref" ELSE at

Confirm(c) ==
    LET at == run[c].at IN
    /\ run[c].pc = "confirm"
    /\ IF PredecessorIsProven(c) /\ ClosedState(c) = run[c].seen
       THEN Move(c, [run[c] EXCEPT !.pc = AfterConfirm(at), !.at = NextSite(at)]) /\ Reads
       ELSE Fail(c)

(***************************************************************************)
(* publish_current_release.                                                *)
(***************************************************************************)
ToPreflight(c, at) == Move(c, [run[c] EXCEPT !.pc = "preflight", !.at = at]) /\ Reads

Tag(c) ==
    /\ run[c].pc = "tag"
    /\ CASE CurrentTag(c) = "exact" -> Goto(c, "release") /\ Reads
         [] CurrentTag(c) = "absent" /\ CurrentRelease(c) = "absent" /\ c \notin Dispatch ->
               ToPreflight(c, "tagobject")
         [] OTHER -> Fail(c)

\* The ref of an existing tag is never moved: the loser's create is refused.
TagRef(c) ==
    LET v == run[c].version IN
    /\ run[c].pc = "tagref"
    /\ Goto(c, "tagpoll")
    /\ tags' = IF tags[v] = NoTag
               THEN [tags EXCEPT ![v] = [source |-> Source(c), exact |-> TRUE]] ELSE tags
    /\ UNCHANGED releases

TagPoll(c) ==
    /\ run[c].pc = "tagpoll"
    /\ IF CurrentTag(c) = "exact" THEN Goto(c, "release") /\ Reads ELSE Fail(c)

Release(c) ==
    /\ run[c].pc = "release"
    /\ CASE CurrentRelease(c) = "exact"  -> Goto(c, "settle") /\ Reads
         [] CurrentRelease(c) = "absent" -> ToPreflight(c, "draft")
         [] OTHER                        -> Fail(c)

\* release_write_boundary, before and after every write of the fourth epoch.
Boundary(c) ==
    /\ c \in Dispatch => Binding(c) /\ run[c].ctx = Tip
    /\ PredecessorIsProven(c) /\ CurrentTag(c) = "exact"

\* Mutant of Draft: a rerun opens a draft of its own beside the first.
DraftAlwaysCreates(c) ==
    /\ run[c].pc = "draft"
    /\ IF CurrentTag(c) = "exact" /\ CurrentRelease(c) = "absent" /\ Boundary(c)
       THEN Goto(c, "create") /\ Reads
       ELSE Fail(c)

\* Resume the one exact zero-asset draft, or see that there is none.
Draft(c) ==
    LET own == DraftCandidates(releases, run[c].version, Source(c), Bodies(c)) IN
    /\ run[c].pc = "draft"
    /\ IF CurrentTag(c) # "exact" \/ CurrentRelease(c) # "absent" THEN Fail(c)
       ELSE CASE CurrentDraft(c) = "exact" ->
                    /\ Move(c, [run[c] EXCEPT !.pc = "body",
                                              !.draft = (CHOOSE r \in own : TRUE).id])
                    /\ Reads
              [] CurrentDraft(c) = "absent" /\ Boundary(c) -> Goto(c, "create") /\ Reads
              [] OTHER -> Fail(c)

NextId == 1 + Cardinality(releases)

Create(c) ==
    /\ run[c].pc = "create"
    /\ Move(c, [run[c] EXCEPT !.pc = "body", !.draft = NextId])
    /\ releases' = releases \cup
          {[id |-> NextId, version |-> run[c].version,
            target |-> release_target(run[c].version, Source(c)),
            body |-> DraftMarker(Source(c), run[c].version), draft |-> TRUE, immutable |-> FALSE,
            bot |-> TRUE, identity |-> NoAsset, bundle |-> NoAsset]}
    /\ UNCHANGED tags

Record(id) == CHOOSE r \in releases : r.id = id
Patch(id, r) == releases' = {q \in releases : q.id # id} \cup {r}

\* PATCH the body of the draft this run holds by id.
Body(c) ==
    LET r == Record(run[c].draft) IN
    /\ run[c].pc = "body"
    /\ IF /\ r.body \in Bodies(c)
          /\ DraftIsExact(r, run[c].version, Source(c), r.body)
          /\ Boundary(c)
       THEN /\ Goto(c, "listed")
            /\ Patch(r.id, [r EXCEPT !.body = NotesBody(run[c].notes)])
            /\ UNCHANGED tags
       ELSE Fail(c)

\* The list must show this draft and no other before anything is uploaded.
Listed(c) ==
    /\ run[c].pc = "listed"
    /\ IF /\ CurrentDraft(c) = "exact"
          /\ Record(run[c].draft) \in
                DraftCandidates(releases, run[c].version, Source(c), Bodies(c))
          /\ Boundary(c)
       THEN Goto(c, "upload1") /\ Reads
       ELSE Fail(c)

UploadIdentity(c) ==
    LET r == Record(run[c].draft) IN
    /\ run[c].pc = "upload1"
    /\ IF Boundary(c)
       THEN /\ Goto(c, "upload2")
            /\ Patch(r.id, [r EXCEPT !.identity = CurrentIdentity(c)])
            /\ UNCHANGED tags
       ELSE Fail(c)

UploadBundle(c) ==
    LET r == Record(run[c].draft) IN
    /\ run[c].pc = "upload2"
    /\ IF Boundary(c)
       THEN /\ Goto(c, "publish")
            /\ Patch(r.id, [r EXCEPT !.bundle = Signed(CurrentIdentity(c))])
            /\ UNCHANGED tags
       ELSE Fail(c)

\* The staged record is proved whole, then draft := false.  Whether that
\* release is immutable is decided by the setting of this moment.
Publish(c) ==
    LET r == Record(run[c].draft) IN
    /\ run[c].pc = "publish"
    /\ IF /\ IdentityReleaseIsExact(r, run[c].version, Source(c), TRUE)
          /\ Boundary(c)
          /\ Published(run[c].version) = {}
       THEN /\ Goto(c, "published")
            /\ Patch(r.id, [r EXCEPT !.draft = FALSE, !.immutable = (setting = "on")])
            /\ UNCHANGED tags
       ELSE Fail(c)
\* The boundary after the last write, and the release read back.
ReadBack(c) ==
    /\ run[c].pc = "published"
    /\ IF Boundary(c) /\ CurrentRelease(c) = "exact" THEN Goto(c, "settle") /\ Reads ELSE Fail(c)

Settle(c) ==
    /\ run[c].pc = "settle"
    /\ IF CurrentRelease(c) = "exact" /\ CurrentTag(c) = "exact"
       THEN /\ End(c, "success")
            /\ UNCHANGED <<main, pr, ci, codeql, tags, releases, setting, disturbances>>
       ELSE Fail(c)

(***************************************************************************)
(* Disturbances and the owner's rerun, which keeps the event's context.    *)
(***************************************************************************)

Kill(c) ==
    /\ Running(c) /\ Disturb("kill")
    /\ End(c, "failure")
    /\ UNCHANGED <<main, pr, ci, codeql, tags, releases, setting>>

Rerun(c) ==
    /\ ~Running(c) /\ c \notin FrozenSources /\ records[c] # <<>> /\ Attempt(c) < MaxAttempts
    /\ records[c][Attempt(c)].conclusion = "failure"
    /\ run' = [run EXCEPT ![c].pc = "ci"]
    /\ records' = [records EXCEPT ![c] = Append(@, Ordinary(c))]
    /\ UNCHANGED <<main, pr, ci, codeql, tags, releases, setting, disturbances>>

ToggleSetting ==
    /\ Disturb("toggle")
    /\ setting' = IF setting = "on" THEN "off" ELSE "on"
    /\ UNCHANGED <<main, pr, ci, codeql, tags, releases, run, records>>

\* The owner drafts a release by hand for a version of the ledger.
OwnerDraft ==
    /\ Disturb("draft")
    /\ \E v \in 2..MaxVersion :
         releases' = releases \cup
            {[id |-> NextId, version |-> v, target |-> MainTarget, body |-> ForeignBody,
              draft |-> TRUE, immutable |-> FALSE, bot |-> FALSE,
              identity |-> NoAsset, bundle |-> NoAsset]}
    /\ UNCHANGED <<main, pr, ci, codeql, tags, setting, run, records>>

Advance(c) ==
    \/ MainCI(c) \/ Wait(c) \/ Timeout(c) \/ Settings(c) \/ Rebind(c) \/ Preflight(c) \/ Confirm(c)
    \/ Tag(c) \/ TagRef(c) \/ TagPoll(c) \/ Release(c) \/ Draft(c) \/ Create(c) \/ Body(c)
    \/ Listed(c) \/ UploadIdentity(c) \/ UploadBundle(c) \/ Publish(c) \/ ReadBack(c)
    \/ Settle(c)

\* GitHub runs the push CI of every push and every job it has started; people
\* owe nothing.  Every counter is bounded, so it is enough that the platform
\* as a whole never stops while any of its steps is possible.
Platform == \/ \E c \in Commit : PushCI(c) \/ CodeQL(c)
            \/ \E c \in Run : Advance(c)
People   ==
    \/ OpenPR \/ MergePR \/ ToggleSetting \/ OwnerDraft
    \/ \E c \in Commit : Rerun(c) \/ CodeQLFails(c)
    \/ \E c \in Run : Kill(c)

Next == Platform \/ People

Spec == Init /\ [][Next]_vars /\ WF_vars(Platform)

-----------------------------------------------------------------------------
\* Type correctness of every variable, releases by their fields' ranges.
TypeOK ==
    /\ main \in Seq(Tree) /\ Tip \in 1..MaxMain
    /\ pr \in Proposal \cup {NoPR}
    /\ ci \in [Commit -> {"none", "success", "failure"}]
    /\ tags \in [Version -> [source : 0..MaxMain, exact : BOOLEAN]]
    /\ \A r \in releases : /\ r.id \in 1..Cardinality(releases)
                           /\ r.version \in Version /\ r.target \in 0..MaxMain
                           /\ {r.draft, r.immutable, r.bot} \subseteq BOOLEAN
    /\ setting \in {"on", "off"}
    /\ codeql \in [Commit -> {"pending", "run", "success", "failure"}]
    /\ \A c \in Run :    /\ run[c].pc \in Step \cup {"idle"}
                         /\ {run[c].ctx, run[c].source} \subseteq 0..MaxMain /\ run[c].version \in Version
                         /\ Attempt(c) <= MaxAttempts
    /\ disturbances \in Seq(Disturbance) /\ Len(disturbances) <= MaxDisturbances

ReleasedVersion(v) ==
    \E r \in Published(v) :
       /\ IdentityReleaseIsExact(r, v, tags[v].source, FALSE)
       /\ RunsAreProven(r.identity, records, ci)

\* Whatever the runs of different sources do to the tag namespace, the tags
\* stay one ledger: no gap, ascending sources, one fragment on every edge.
TagsAreOneLedger == LedgerIsExact(main, tags)

\* An immutable bot release is only ever published over a proven predecessor,
\* at its own exact tag, and both its body and its signed identity carry the
\* one fragment of that edge as it stands at the released source.
PublishedIsProven ==
    \A v \in Version \ {1} : \A r \in Published(v) : r.immutable =>
       LET source == tags[v].source
           base   == tags[v - 1].source
           path   == CHOOSE p \in Path : p \in Added(main, base, source)
           notes  == [source |-> source, version |-> v, path |-> path,
                      text |-> main[source][path]]
       IN  /\ IdentityReleaseIsExact(r, v, source, FALSE)
           /\ r.body = NotesBody(notes) /\ r.identity.notes = notes
           /\ r.identity.base = [version |-> v - 1, source |-> base]
           /\ ReleasedVersion(v - 1)

\* Tags and releases are one proven ledger.
LedgerIsProven == TagsAreOneLedger /\ PublishedIsProven

\* Killed, rerun or racing, the publishers leave at most one release record
\* of a source: a rerun resumes its draft and never opens a second one.
OneRecordPerSource ==
    \A q, r \in releases :
       q.bot /\ r.bot /\ q.version = r.version /\ q.target = r.target => q = r

\* A run GitHub shows as successful left its source released: tagged, signed,
\* immutable, and attributed to attempts that succeeded.
SuccessIsReleased ==
    \A c \in Commit : \A i \in DOMAIN records[c] :
       records[c][i].conclusion = "success" =>
          \E v \in Version : tags[v].source = c /\ ReleasedVersion(v)

\* The released sources are an append-only history of the protected branch.
ReleasedSources ==
    LET Complete(v) == \A w \in 1..v : ReleasedVersion(w)
        count == CHOOSE v \in Version : Complete(v) /\ (v + 1 \in Version => ~Complete(v + 1))
    IN  [v \in 1..count |-> tags[v].source]

History == INSTANCE ReleaseHistory WITH chain <- main, history <- ReleasedSources
HistoryIsRefined == History!Spec

\* Every attempt ends, also the one that waits for a predecessor that will
\* never be released.
AttemptsEnd == \A c \in Commit \ {Floor} : Running(c) ~> ~Running(c)

Edited == \E c \in 2..Tip : Modified(main, c - 1, c) # {}
Disturbed ==
    \/ disturbances # <<>>
    \/ Edited
    \/ \E c \in 2..Tip : run[c].ctx \notin {0, c}

\* Undisturbed, every source on main is released: no lost wait, no deadlock
\* between a source and its predecessor, no attempt that fails by itself.
UndisturbedIsReleased ==
    \A c \in Commit \ {Floor} :
       c <= Tip ~> Disturbed \/ \E v \in Version : tags[v].source = c /\ ReleasedVersion(v)
=============================================================================

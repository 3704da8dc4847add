---------------------------- MODULE ReleaseProofs ----------------------------
(***************************************************************************)
(* Proofs about the publication of platform source releases and the        *)
(* recovery of the backlog beside it, for every number of commits, runs,   *)
(* dispatches, attempts and disturbances: the tags stay one ledger, what   *)
(* is published is proven, a source has one release record, a successful   *)
(* run left its source released, a dispatch keeps the oldest edge, its     *)
(* executors ascend, and the released sources implement ReleaseHistory.    *)
(*                                                                         *)
(* One inductive invariant carries all of them.  Its parts speak of main   *)
(* and its CI, of the tags, of the attempt records, of the run in progress *)
(* (RunOK, about one run and its record), of the release records, and of   *)
(* the prefix of versions that are released.  What a step leaves behind is *)
(* described once (Evolves); a part then follows from what it adds.        *)
(***************************************************************************)
EXTENDS ReleaseRecovery, FiniteSetTheorems, SequenceTheorems, TLAPS

-----------------------------------------------------------------------------
(***************************************************************************)
(* Where a run is: bound to an edge, or holding a draft by its id.  A      *)
(* dispatch is bound from its selection on.                                *)
(***************************************************************************)
EdgePc == {"preflight", "confirm", "tag", "tagref", "tagpoll", "release", "draft", "create",
           "body", "listed", "upload1", "upload2", "publish", "published", "settle"}
SelectedPc == EdgePc \cup {"verify", "settings", "reverify"}
HoldingPc  == {"body", "listed", "upload1", "upload2", "publish"}
CommitPc   == (Step \ {"queued", "prepare", "verify", "reverify"}) \cup {"idle"}
DispatchPc == (Step \ {"ci", "wait", "rebind", "tagref", "tagpoll"}) \cup {"idle"}
Site       == {"start", "tagobject", "tagref", "draft"}
Verdicts   == {"absent", "exact", "refused"}

OnEdge(c, r) == r.pc \in EdgePc \/ (c \in Dispatch /\ r.pc \in SelectedPc)

\* Notes of an edge, without the window that found it.
EdgePath(m, base, source) == CHOOSE p \in Path : p \in Added(m, base, source)
EdgeNotes(m, base, source, v) ==
    [source |-> source, version |-> v, path |-> EdgePath(m, base, source),
     text |-> m[source][EdgePath(m, base, source)]]

\* What run c signs once its record is r.
ExecutionOf(c, r) == IF c \in Dispatch THEN r.ctx ELSE r.source
IdentityOf(c, r, attempt) ==
    Identity(r.version, r.source, [version |-> r.version - 1, source |-> r.base], r.notes,
             r.draft, Publisher(c, attempt, r.version, ExecutionOf(c, r)), ExecutionOf(c, r))

-----------------------------------------------------------------------------
(***************************************************************************)
(* Types.                                                                  *)
(***************************************************************************)
EventSet      == {"workflow_run", "workflow_dispatch"}
WorkflowSet   == {"platform-release", "platform-release-recovery"}
TagSet        == [source : 0..MaxMain, exact : BOOLEAN]
NoteSet       == [source : Commit, version : Version, path : Path, text : Content]
RunSet        ==
    [pc : Step \cup {"idle"}, at : Site, ctx : 0..MaxMain, source : 0..MaxMain,
     base : 0..MaxMain, version : Version, notes : NoteSet \cup {Denied},
     seen : Verdicts \X Verdicts \X Verdicts, draft : Nat]
AttemptSet    ==
    [head : 0..MaxMain, event : EventSet, workflow : WorkflowSet,
     status : {PendingStatus, "completed"},
     conclusion : {"none", "success", "failure", "cancelled"}]
PublisherSet  ==
    [run : Run, attempt : Nat, head : 0..MaxMain, event : EventSet, workflow : WorkflowSet]
IdentitySet   ==
    [epoch : 1..4, repository : {OldName, NewName}, version : Version, source : Commit,
     base : [version : Nat, source : 0..MaxMain], notes : NoteSet \cup {Denied},
     release : Nat, main : [source : Commit, attempt : {1}], publisher : PublisherSet,
     execution : 0..MaxMain]
BundleSet     == [epoch : 1..4, payload : IdentitySet]
BodySet       ==
    [kind : {"marker"}, source : Commit, version : Version]
    \cup [kind : {"notes"}, notes : NoteSet] \cup {ForeignBody}
ReleaseSet    ==
    [id : Nat, version : Version, target : 0..MaxMain, body : BodySet, draft : BOOLEAN,
     immutable : BOOLEAN, bot : BOOLEAN, identity : IdentitySet \cup {NoAsset},
     bundle : BundleSet \cup {NoAsset}]

-----------------------------------------------------------------------------
(***************************************************************************)
(* The inductive invariant.                                                *)
(***************************************************************************)

\* main begins with what had landed, and an open pull request still fits.
MainInv ==
    /\ main \in Seq(Tree) /\ Len(main) \in 1..MaxMain
    /\ pr \in Proposal \cup {NoPR}
    /\ pr # NoPR => Len(main) < MaxMain
    /\ Len(Landed) <= Len(main)
    /\ \A i \in 1..Len(Landed) : main[i] = Landed[i]

CIInv ==
    /\ ci \in [Commit -> {"none", "success", "failure"}]
    /\ codeql \in [Commit -> {"pending", "run", "success", "failure"}]
    /\ \A c \in FrozenSources : ci[c] = "success"

\* Exactly the versions up to n are tagged; the n-th source is at least n.
LedgerUpTo(m, t, n) ==
    /\ \A v \in Version : t[v] # NoTag <=> v <= n
    /\ \A v \in 1..n : /\ t[v].exact /\ t[v].source \in v..Len(m)
                       /\ IsHistorical(v) => t[v].source = historical_release(v).source
    /\ t[1].source = Floor
    /\ \A v \in 2..n : BindsOneFragment(m, t[v - 1].source, t[v].source)

TagInv ==
    /\ tags \in [Version -> TagSet]
    /\ \E n \in Version : LedgerUpTo(main, tags, n)

\* The attempts of one run: only the last may be at work; a dispatch has one.
AttemptsOK(c, s) ==
    /\ Len(s) <= MaxAttempts
    /\ c \in Dispatch => Len(s) <= 1
    /\ \A i \in 1..Len(s) :
          /\ s[i].event = (IF c \in Dispatch THEN "workflow_dispatch" ELSE "workflow_run")
          /\ s[i].workflow =
                (IF c \in Dispatch THEN "platform-release-recovery" ELSE "platform-release")
          /\ c \in Commit => s[i].head = c
          /\ i < Len(s) => s[i].status = "completed"
          /\ s[i].status = "completed" <=> s[i].conclusion # "none"

RecordInv ==
    /\ records \in [Run -> Seq(AttemptSet)]
    /\ \A c \in Run : AttemptsOK(c, records[c])
    /\ \A c \in Commit : Len(records[c]) > 0 => ci[c] = "success" /\ c <= Len(main)

PcOK(c, r) ==
    /\ c \in Dispatch => /\ r.pc \in DispatchPc /\ r.at \in {"start", "draft"}
                         /\ r.pc \notin SelectedPc => r.source = 0
    /\ c \in Commit => r.pc \in CommitPc
    /\ c \in FrozenSources => r.pc = "idle"

AttemptOK(c, r) ==
    /\ r.pc = "idle" => \A i \in 1..Len(records[c]) : records[c][i].status = "completed"
    /\ r.pc # "idle" => /\ Len(records[c]) > 0
                        /\ records[c][Len(records[c])].status = PendingStatus
                        /\ c \in Dispatch => records[c][1].head = r.ctx

\* The edge a run is bound to, in the ledger of now.
EdgeOK(c, r) ==
    OnEdge(c, r) =>
       /\ r.version - 1 \in Version /\ r.source \in 1..Len(main) /\ r.base \in 1..Len(main)
       /\ BindsOneFragment(main, r.base, r.source)
       /\ tags[r.version - 1] # NoTag /\ tags[r.version - 1].source = r.base
       /\ IF c \in Dispatch
          THEN IsHistorical(r.version) /\ r.source = historical_release(r.version).source
          ELSE ~IsHistorical(r.version) /\ r.source = c

NotesOK(c, r) ==
    r.pc \in EdgePc => r.notes = EdgeNotes(main, r.base, r.source, r.version)

CIOK(c, r) ==
    c \in Dispatch /\ r.pc \in SelectedPc =>
       r.ctx \in 1..Len(main) /\ prove_ci(r.ctx) /\ prove_ci(r.source)

\* Before its create, nobody has a record of this run's source.
FreshOK(c, r) ==
    r.pc = "create" =>
       \A q \in releases : q.bot /\ q.version = r.version =>
                              q.target # release_target(r.version, r.source)

HeldBy(c, r, q) ==
    /\ q.id = r.draft /\ q.version = r.version
    /\ q.target = release_target(r.version, r.source)
    /\ q.bot /\ q.draft
    /\ r.pc # "body" => q.body = NotesBody(r.notes)
    /\ r.pc \in {"upload2", "publish"} => q.identity = IdentityOf(c, r, Len(records[c]))
    /\ r.pc = "publish" => q.bundle = Signed(IdentityOf(c, r, Len(records[c])))

HoldOK(c, r) == r.pc \in HoldingPc => \E q \in releases : HeldBy(c, r, q)

\* A selected edge: all before it is released, and nobody else has released it.
SelectedOK(c, r) ==
    c \in Dispatch /\ r.pc \in SelectedPc =>
       /\ \A w \in Version : w < r.version => ReleasedVersion(w)
       /\ \A q \in Published(r.version) : q.identity.publisher.run = c

RunOK(c, r) ==
    /\ PcOK(c, r)
    /\ AttemptOK(c, r)
    /\ EdgeOK(c, r)
    /\ NotesOK(c, r)
    /\ CIOK(c, r)
    /\ FreshOK(c, r)
    /\ HoldOK(c, r)
    /\ SelectedOK(c, r)

RunInv ==
    /\ run \in [Run -> RunSet]
    /\ \A c \in Run : RunOK(c, run[c])

AtWork(d) == run[d].pc \notin {"idle", "queued"}

\* The concurrency group admits one dispatch.
GroupInv == \A d, e \in Dispatch : AtWork(d) /\ AtWork(e) => d = e

\* The attempt that an identity names exists and is the one that signed it.
IdentityIsOwed(e) ==
    /\ e.publisher.attempt \in 1..Len(records[e.publisher.run])
    /\ PublisherRecordAgrees(e, PublisherRecord(e, records))
    /\ e.source \in Commit /\ e.execution \in Commit
    /\ MainRecordsAgree(e, ci)

ReleaseInv ==
    /\ releases \subseteq ReleaseSet
    /\ IsFiniteSet(releases)
    /\ \A q, r \in releases : q.id = r.id => q = r
    /\ \A q \in releases : q.id \in 1..Cardinality(releases)
    /\ FloorRelease \in releases
    /\ \A q \in releases : q.version = 1 => q = FloorRelease
    /\ \A q \in releases : q.identity # NoAsset => IdentityIsOwed(q.identity)

\* A published record of a later version: what PublishedIsProven says of it
\* while the setting was on, and what it says whatever the setting was.
PublishedOK(q) ==
    LET v == q.version
        source == tags[v].source
        base == tags[v - 1].source
    IN  /\ v - 1 \in Version /\ tags[v] # NoTag
        /\ q.immutable => IdentityReleaseIsExact(q, v, source, FALSE)
        /\ q.identity # NoAsset
        /\ q.body = NotesBody(EdgeNotes(main, base, source, v))
        /\ q.identity.notes = EdgeNotes(main, base, source, v)
        /\ q.identity.base = [version |-> v - 1, source |-> base]
        /\ \A w \in Version : w < v => ReleasedVersion(w)

ExecutorOK(q) ==
    IsHistorical(q.version) =>
       /\ q.identity.execution \in 1..Len(main)
       /\ prove_ci(q.identity.execution)
       /\ q.identity.publisher.run \in Dispatch
       /\ Len(records[q.identity.publisher.run]) > 0
       /\ records[q.identity.publisher.run][1].head = q.identity.execution

PublishedInv ==
    \A q \in releases : ~q.draft /\ q.version # 1 => PublishedOK(q) /\ ExecutorOK(q)

OnePublished ==
    \A q, r \in releases : ~q.draft /\ ~r.draft /\ q.version = r.version => q = r

ExecutorsInv ==
    \A q, r \in releases :
       /\ ~q.draft /\ ~r.draft /\ q.version <= r.version
       /\ IsHistorical(q.version) /\ IsHistorical(r.version)
       => q.identity.execution <= r.identity.execution

\* The released versions are the first n.
ReleasedUpTo(n) == \A w \in Version : ReleasedVersion(w) <=> w <= n
PrefixInv == \E n \in Version : ReleasedUpTo(n)

Inv ==
    /\ MainInv
    /\ CIInv
    /\ TagInv
    /\ RecordInv
    /\ RunInv
    /\ GroupInv
    /\ ReleaseInv
    /\ OneRecordPerSource
    /\ PublishedInv
    /\ OnePublished
    /\ ExecutorsInv
    /\ PrefixInv
    /\ SuccessIsReleased

-----------------------------------------------------------------------------
(***************************************************************************)
(* The ledger.                                                             *)
(***************************************************************************)

\* An edge is a matter of its two trees alone.
LEMMA EdgeOfTrees ==
    ASSUME NEW m, NEW n, NEW a, NEW b, n[a] = m[a], n[b] = m[b]
    PROVE  /\ Added(n, a, b) = Added(m, a, b)
           /\ BindsOneFragment(n, a, b) <=> BindsOneFragment(m, a, b)
<1>1. Added(n, a, b) = Added(m, a, b)
  BY DEF Added
<1>2. Changed(n, a, b) = Changed(m, a, b)
  BY DEF Changed
<1>3. SurfaceIsReleasable(n, a, b) <=> SurfaceIsReleasable(m, a, b)
  BY <1>1, <1>2 DEF SurfaceIsReleasable
<1> QED
  BY <1>1, <1>3 DEF BindsOneFragment, Intents

\* So are the notes of that edge.
LEMMA NotesOfTrees ==
    ASSUME NEW m, NEW n, NEW a, NEW b, NEW v, n[a] = m[a], n[b] = m[b]
    PROVE  EdgeNotes(n, a, b, v) = EdgeNotes(m, a, b, v)
<1>1. Added(n, a, b) = Added(m, a, b)
  BY EdgeOfTrees
<1>2. EdgePath(n, a, b) = EdgePath(m, a, b)
  BY <1>1, Zenon DEF EdgePath
<1> QED
  BY <1>2 DEF EdgeNotes

\* A bound edge adds a fragment of Path, and its notes say so.
LEMMA EdgeNotesType ==
    ASSUME NEW m \in Seq(Tree), Len(m) <= MaxMain, NEW a \in 1..Len(m), NEW b \in 1..Len(m),
           BindsOneFragment(m, a, b), NEW v \in Version
    PROVE  EdgeNotes(m, a, b, v) \in NoteSet
<1>1. IsFiniteSet(Surface)
  <2>1. IsFiniteSet(Path \cup {Generated})
    BY FS_AddElement, BoundsAssumption
  <2> QED
    BY <2>1 DEF Surface
<1>2. IsFiniteSet(Added(m, a, b))
  <2>1. Added(m, a, b) \in SUBSET Surface
    BY DEF Added
  <2> QED
    BY <1>1, <2>1, FS_Subset
<1>3. Cardinality(Added(m, a, b)) = 1 /\ SurfaceIsReleasable(m, a, b)
  BY DEF BindsOneFragment, Intents
<1>4. PICK p : Added(m, a, b) = {p}
  BY <1>2, <1>3, FS_Singleton
<1>5. p \in Path
  <2>1. p \in Changed(m, a, b) /\ Generated \notin Changed(m, a, b)
    BY <1>3, <1>4 DEF SurfaceIsReleasable
  <2> QED
    BY <1>4, <2>1 DEF Added, Surface
<1>6. EdgePath(m, a, b) \in Path
  BY <1>4, <1>5 DEF EdgePath
<1>7. m[b] \in Tree
  OBVIOUS
<1>8. m[b][EdgePath(m, a, b)] \in Content
  BY <1>6, <1>7 DEF Tree, Surface
<1>9. b \in Commit
  BY BoundsAssumption DEF Commit
<1> QED
  BY <1>6, <1>8, <1>9 DEF EdgeNotes, NoteSet

\* A bound edge goes forward.
LEMMA EdgeAscends ==
    ASSUME NEW m, NEW a \in Nat, NEW b \in Nat, BindsOneFragment(m, a, b)
    PROVE  a < b
BY DEF BindsOneFragment, SurfaceIsReleasable, LinearRange, IsAncestor

\* The number of added fragments is a number.
LEMMA IntentsCount ==
    ASSUME NEW m, NEW a, NEW b
    PROVE  Cardinality(Intents(m, a, b)) \in Nat
<1>1. IsFiniteSet(Path \cup {Generated})
  BY FS_AddElement, BoundsAssumption
<1>2. Intents(m, a, b) \in SUBSET (Path \cup {Generated})
  BY DEF Added, Intents, Surface
<1> QED
  BY <1>1, <1>2, FS_Subset, FS_CardinalityType

\* Versions are the numbers from one to the bound.
LEMMA VersionFacts == Version \in SUBSET Nat /\ \A v \in Version : v <= MaxVersion /\ v >= 1
BY BoundsAssumption DEF Version

\* A ledger of n tags is exact, and n is its latest.
LEMMA LedgerFacts ==
    ASSUME NEW m \in Seq(Tree), NEW t \in [Version -> TagSet], NEW n \in Version,
           LedgerUpTo(m, t, n)
    PROVE  /\ Tagged(t) = 1..n
           /\ LedgerIsExact(m, t)
           /\ Latest(t) = n
<1>1. Tagged(t) = 1..n
  BY VersionFacts, BoundsAssumption DEF LedgerUpTo, Tagged, Version
<1>2. LedgerIsExact(m, t)
  <2>1. \A v \in Tagged(t) : t[v].exact /\ t[v].source \in DOMAIN m
    BY <1>1, VersionFacts DEF LedgerUpTo
  <2>2. \A v \in Tagged(t) \ {1} :
           v - 1 \in Tagged(t) /\ BindsOneFragment(m, t[v - 1].source, t[v].source)
    BY <1>1, VersionFacts DEF LedgerUpTo
  <2> QED
    BY <2>1, <2>2 DEF LedgerIsExact, LedgerUpTo
<1>3. Latest(t) = n
  <2>1. n \in 1..n /\ \A w \in 1..n : w <= n
    BY VersionFacts
  <2>2. \A v \in 1..n : (\A w \in 1..n : w <= v) => v = n
    BY <2>1, VersionFacts
  <2> QED
    BY <1>1, <2>1, <2>2 DEF Latest
<1> QED
  BY <1>1, <1>2, <1>3

\* What a ready window says: an edge from an existing tag, and the version it
\* names is either this very source's or the first free one.
ReadyEdge(m, t, head, b, v) ==
    /\ v \in Version /\ v - 1 \in Version
    /\ t[v - 1] # NoTag /\ t[v - 1].source = b /\ b \in 1..Len(m)
    /\ BindsOneFragment(m, b, head)
    /\ t[v] # NoTag => t[v].source = head

\* A ready window of a sound ledger carries such an edge.
LEMMA WindowIsReady ==
    ASSUME NEW m \in Seq(Tree), Len(m) <= MaxMain, NEW t \in [Version -> TagSet],
           NEW n \in Version, LedgerUpTo(m, t, n), NEW head \in 1..Len(m),
           Window(m, t, head).verdict = "ready"
    PROVE  /\ Window(m, t, head) = Ready(Window(m, t, head).base, Window(m, t, head).version)
           /\ ReadyEdge(m, t, head, Window(m, t, head).base, Window(m, t, head).version)
<1> DEFINE w == Window(m, t, head)
<1>0. /\ Tagged(t) = 1..n /\ LedgerIsExact(m, t) /\ Latest(t) = n
      /\ n \in Nat /\ n >= 1 /\ n <= MaxVersion /\ MaxVersion \in Nat
      /\ MaxMain \in Nat /\ MaxMain <= MaxVersion /\ Version = 1..MaxVersion
  BY LedgerFacts, VersionFacts, BoundsAssumption DEF Version
<1>1. Denied.verdict # "ready"
  BY DEF Denied
<1>2. CASE PointsAt(t, head) # {}
  <2> DEFINE v == CHOOSE u \in PointsAt(t, head) : TRUE
  <2>1. v \in PointsAt(t, head)
    BY <1>2
  <2>2. v \in 1..n /\ t[v].source = head
    BY <1>0, <2>1 DEF PointsAt
  <2>3. w = ExistingEdge(t, v)
    BY <1>0, <1>2 DEF Window
  <2>4. v # 1 /\ w = Ready(t[v - 1].source, v)
    BY <1>1, <2>3 DEF ExistingEdge
  <2>5. v - 1 \in 1..n
    BY <1>0, <2>2, <2>4
  <2>6. BindsOneFragment(m, t[v - 1].source, t[v].source)
    BY <1>0, <2>2, <2>4 DEF LedgerUpTo
  <2>7. t[v - 1].source \in 1..Len(m)
    BY <1>0, <2>5 DEF LedgerUpTo
  <2>8. w.base = t[v - 1].source /\ w.version = v
    BY <2>4 DEF Ready
  <2>9. t[v - 1] # NoTag
    BY <1>0, <2>5 DEF LedgerUpTo
  <2> HIDE DEF v, w
  <2>10. ReadyEdge(m, t, head, t[v - 1].source, v)
    BY <1>0, <2>2, <2>5, <2>6, <2>7, <2>9 DEF ReadyEdge
  <2> QED
    BY <2>4, <2>8, <2>10 DEF w
<1>3. CASE PointsAt(t, head) = {}
  <2> DEFINE s == t[n].source
  <2>1. ~\E v \in 1..n : IsAncestor(head, t[v].source)
    BY <1>0, <1>1, <1>3 DEF Window
  <2>2. w = NewEdge(m, s, n, head)
    BY <1>0, <1>3, <2>1 DEF Window
  <2>3. s \in n..Len(m) /\ s < head
    BY <1>0, <2>1 DEF IsAncestor, LedgerUpTo
  <2>4. SurfaceIsReleasable(m, s, head)
    BY <1>1, <2>2 DEF NewEdge
  <2> DEFINE k == Cardinality(Intents(m, s, head))
  <2>5. k \in Nat
    BY IntentsCount
  <2>6. w = CASE k = 0 -> Denied [] k = 1 -> Ready(s, next_version(n)) [] k > 1 -> Pending
    BY <2>2, <2>4, Zenon DEF NewEdge
  <2>7. k = 1 /\ w = Ready(s, n + 1)
    <3>1. Pending.verdict # "ready"
      BY DEF Pending
    <3>2. k = 0 \/ k = 1 \/ k > 1
      BY <2>5
    <3>3. CASE k = 0
      <4>1. ~(k = 1) /\ ~(k > 1)
        BY <3>3
      <4>2. w = Denied
        BY <2>6, <3>3, <4>1, Zenon
      <4> QED
        BY <1>1, <4>2
    <3>4. CASE k > 1
      <4>1. ~(k = 1) /\ ~(k = 0)
        BY <3>4, <2>5
      <4>2. w = Pending
        BY <2>6, <3>4, <4>1, Zenon
      <4> QED
        BY <3>1, <4>2
    <3>5. CASE k = 1
      <4>1. ~(k > 1) /\ ~(k = 0)
        BY <3>5
      <4>2. w = Ready(s, next_version(n))
        BY <2>6, <3>5, <4>1, Zenon
      <4> QED
        BY <4>2, <3>5 DEF next_version
    <3> QED
      BY <3>2, <3>3, <3>4, <3>5
  <2>8. BindsOneFragment(m, s, head)
    BY <2>4, <2>7 DEF BindsOneFragment
  <2>9. w.base = s /\ w.version = n + 1
    BY <2>7 DEF Ready
  <2>10. n + 1 \in Version /\ t[n + 1] = NoTag /\ t[n] # NoTag /\ n + 1 - 1 = n
    BY <1>0, <2>3 DEF LedgerUpTo
  <2> HIDE DEF s, w, k
  <2>11. ReadyEdge(m, t, head, s, n + 1)
    BY <1>0, <2>3, <2>8, <2>10 DEF ReadyEdge, s
  <2> QED
    BY <2>7, <2>9, <2>11 DEF w
<1> QED
  BY <1>2, <1>3

\* The notes of a ready window are those of its edge.
LEMMA NotesOfWindow ==
    ASSUME NEW m, NEW t, NEW head, NEW b, NEW v, Window(m, t, head) = Ready(b, v)
    PROVE  Notes(m, t, head, b, v) = EdgeNotes(m, b, head, v)
<1>1. Window(m, t, head).base = b
  BY DEF Ready
<1>2. (CHOOSE p \in Path : p \in Intents(m, Window(m, t, head).base, head)) = EdgePath(m, b, head)
  BY <1>1 DEF EdgePath, Intents
<1> QED
  BY <1>1, <1>2 DEF Notes, EdgeNotes

-----------------------------------------------------------------------------
(***************************************************************************)
(* Epochs, verdicts and what is signed.                                    *)
(***************************************************************************)
\* A version is in one of the four epochs.
LEMMA EpochType ==
    ASSUME NEW v \in Nat
    PROVE  EpochOf(v) \in 1..4
<1>1. FirstV2 \in Nat /\ FirstV3 \in Nat /\ FirstV4 \in Nat
  BY EpochAssumption
<1>2. v < FirstV2 \/ (v >= FirstV2 /\ v < FirstV3) \/ (v >= FirstV3 /\ v < FirstV4) \/ v >= FirstV4
  BY <1>1, EpochAssumption
<1> DEFINE e == EpochOf(v)
<1>3. e = 1 \/ e = 2 \/ e = 3 \/ e = 4
  <2> DEFINE a == v < FirstV2
             b == v >= FirstV2 /\ v < FirstV3
             d == v >= FirstV3 /\ v < FirstV4
             f == v >= FirstV4
  <2>1. e = CASE a -> 1 [] b -> 2 [] d -> 3 [] f -> 4
    BY DEF EpochOf
  <2>2. a \/ b \/ d \/ f
    BY <1>2
  <2> HIDE DEF a, b, d, f, e
  <2>3. (a /\ ~b /\ ~d /\ ~f) \/ (b /\ ~a /\ ~d /\ ~f) \/ (d /\ ~a /\ ~b /\ ~f) \/ (f /\ ~a /\ ~b /\ ~d)
    BY <1>1, <2>2, EpochAssumption DEF a, b, d, f
  <2> QED
    BY <2>1, <2>3, Zenon
<1> QED
  BY <1>3

\* The event, workflow and repository name that a version is owed are known ones.
LEMMA PublisherTypes ==
    ASSUME NEW v
    PROVE  /\ PublisherEvent(v) \in EventSet
           /\ PublisherWorkflow(v) \in WorkflowSet
           /\ RepositoryOf(v) \in {OldName, NewName}
BY DEF PublisherEvent, PublisherWorkflow, RepositoryOf, EventSet, WorkflowSet

\* The records of the policy's frozen edges.
FrozenSet == [source : 2..Len(Landed), parent : 1..Len(Landed), tree : Tree, mainRun : Nat]

\* The policy's frozen edges join sources that have landed.
LEMMA FrozenType ==
    ASSUME NEW i \in DOMAIN Frozen
    PROVE  /\ DOMAIN Frozen = 1..Len(Frozen) /\ Len(Frozen) \in Nat
           /\ Frozen[i].source \in 2..Len(Landed)
           /\ Frozen[i].parent \in 1..Len(Landed)
<1>1. Frozen \in Seq(FrozenSet)
  BY FrozenAssumption DEF FrozenSet
<1>2. DOMAIN Frozen = 1..Len(Frozen) /\ Len(Frozen) \in Nat
  BY <1>1, LenProperties
<1>3. Frozen[i] \in FrozenSet
  BY <1>1, <1>2, ElementOfSeq
<1> QED
  BY <1>2, <1>3 DEF FrozenSet

\* A version of the backlog has its frozen edge, and the version before it is
\* the floor or has one too.
LEMMA HistoricalVersions ==
    ASSUME NEW v \in Nat, IsHistorical(v)
    PROVE  /\ FirstV4 = 2 /\ v >= 2
           /\ v - 1 \in DOMAIN Frozen
           /\ historical_release(v).source \in 2..Len(Landed)
           /\ historical_release(v).parent = IF v = 2 THEN Floor ELSE historical_release(v - 1).source
           /\ BindsOneFragment(Landed, historical_release(v).parent, historical_release(v).source)
           /\ historical_release(v).parent \in 1..Len(Landed)
           /\ v > 2 => IsHistorical(v - 1)
<1>1. v - FirstV4 + 1 \in DOMAIN Frozen /\ v >= FirstV4
  BY DEF IsHistorical
<1>2. DOMAIN Frozen = 1..Len(Frozen) /\ Len(Frozen) \in Nat
  BY <1>1, FrozenType
<1>3. Frozen # <<>>
  <2>1. Len(<<>>) = 0
    BY EmptySeq
  <2> QED
    BY <1>1, <1>2, <2>1
<1>4. FirstV4 = 2
  BY <1>3, FrozenAssumption
<1>5. v - 1 \in DOMAIN Frozen /\ historical_release(v) = Frozen[v - 1]
  BY <1>1, <1>4 DEF historical_release
<1>6. Frozen[v - 1].source \in 2..Len(Landed) /\ Frozen[v - 1].parent \in 1..Len(Landed)
  BY <1>5, FrozenType
<1>7. v > 2 => v - 2 \in DOMAIN Frozen /\ historical_release(v - 1) = Frozen[v - 2]
  BY <1>2, <1>4, <1>5 DEF historical_release
<1>8. v > 2 => IsHistorical(v - 1)
  BY <1>4, <1>7 DEF IsHistorical
<1>9. /\ Frozen[v - 1].parent = IF v - 1 = 1 THEN Floor ELSE Frozen[v - 1 - 1].source
      /\ BindsOneFragment(Landed, Frozen[v - 1].parent, Frozen[v - 1].source)
  BY <1>5, FrozenAssumption
<1>10. Frozen[v - 1].source \in 2..Len(Landed) /\ Frozen[v - 1].parent \in 1..Len(Landed)
  BY <1>6
<1>11. v >= 2
  BY <1>1, <1>4
<1>12. historical_release(v).parent = IF v = 2 THEN Floor ELSE historical_release(v - 1).source
  BY <1>5, <1>7, <1>9, <1>11
<1> QED
  BY <1>4, <1>5, <1>8, <1>9, <1>10, <1>11, <1>12

\* The floor is not part of the backlog.
LEMMA FloorIsOrdinary == ~IsHistorical(1)
<1>1. SUFFICES ASSUME IsHistorical(1) PROVE FALSE
  OBVIOUS
<1> QED
  BY <1>1, HistoricalVersions

\* The frozen sources are commits after the floor.
LEMMA FrozenFacts == FrozenSources \subseteq Commit \ {Floor}
<1>1. ASSUME NEW i \in DOMAIN Frozen
      PROVE  Frozen[i].source \in 2..Len(Landed)
  BY FrozenType
<1>2. Len(Landed) \in 1..MaxMain /\ MaxMain \in Nat
  BY BoundsAssumption
<1> QED
  BY <1>1, <1>2 DEF FrozenSources, Commit, Floor

\* The source of a version of the backlog is a frozen one.
LEMMA HistoricalIsFrozen ==
    ASSUME NEW v, IsHistorical(v)
    PROVE  historical_release(v).source \in FrozenSources
BY DEF IsHistorical, historical_release, FrozenSources

\* A verdict is one of three, and says what it was given.
LEMMA VerdictSays ==
    ASSUME NEW present \in BOOLEAN, NEW exact \in BOOLEAN
    PROVE  /\ Verdict(present, exact) \in Verdicts
           /\ Verdict(present, exact) = "exact" <=> present /\ exact
           /\ Verdict(present, exact) = "absent" <=> ~present
BY Zenon DEF Verdict, Verdicts

\* An identity is never the null asset.
LEMMA IdentityIsNotNull ==
    ASSUME NEW e \in IdentitySet
    PROVE  e # NoAsset
<1>1. e.epoch \in 1..4
  BY DEF IdentitySet
<1> QED
  BY <1>1 DEF NoAsset

-----------------------------------------------------------------------------
(***************************************************************************)
(* What every step keeps.                                                  *)
(***************************************************************************)
MainGrows ==
    /\ Len(main) <= Len(main')
    /\ \A i \in 1..Len(main) : main'[i] = main[i]

TagsStay == \A v \in Version : tags[v] # NoTag => tags'[v] = tags[v]

SuccessStays ==
    \A c \in Commit : /\ ci[c] = "success" => ci'[c] = "success"
                      /\ codeql[c] = "success" => codeql'[c] = "success"

RecordsGrow ==
    \A c \in Run :
       /\ Len(records[c]) <= Len(records'[c])
       /\ \A i \in 1..Len(records[c]) :
             /\ records'[c][i].head = records[c][i].head
             /\ records'[c][i].event = records[c][i].event
             /\ records'[c][i].workflow = records[c][i].workflow
             /\ records[c][i].status = "completed" => records'[c][i] = records[c][i]

PublishedStays == \A q \in releases : ~q.draft => q \in releases'

Evolves ==
    /\ MainGrows
    /\ TagsStay
    /\ SuccessStays
    /\ RecordsGrow
    /\ PublishedStays

\* Both CI proofs of a commit are there.
LEMMA ProveCI ==
    ASSUME NEW c
    PROVE  prove_ci(c) <=> ci[c] = "success" /\ codeql[c] = "success"
<1>1. CASE codeql[c] = "success"
  <2>1. classify_codeql_run(c) = "exact"
    <3>1. ~(codeql[c] = "pending") /\ codeql[c] \in {"run", "success"} /\ ~(codeql[c] = "failure")
      BY <1>1
    <3> QED
      BY <3>1, Zenon DEF classify_codeql_run
  <2> QED
    BY <1>1, <2>1 DEF prove_ci, build_main_ci_jobs_receipt, plan_workflow_run, codeql_jobs_ready
<1>2. CASE codeql[c] # "success"
  BY <1>2 DEF prove_ci, build_main_ci_jobs_receipt, codeql_jobs_ready
<1> QED
  BY <1>1, <1>2

\* The same after a step.
LEMMA ProveCINext ==
    ASSUME NEW c
    PROVE  prove_ci(c)' <=> ci'[c] = "success" /\ codeql'[c] = "success"
<1>1. CASE codeql'[c] = "success"
  <2>1. classify_codeql_run(c)' = "exact"
    <3>1. ~(codeql'[c] = "pending") /\ codeql'[c] \in {"run", "success"} /\ ~(codeql'[c] = "failure")
      BY <1>1
    <3> QED
      BY <3>1, Zenon DEF classify_codeql_run
  <2> QED
    BY <1>1, <2>1 DEF prove_ci, build_main_ci_jobs_receipt, plan_workflow_run, codeql_jobs_ready
<1>2. CASE codeql'[c] # "success"
  BY <1>2 DEF prove_ci, build_main_ci_jobs_receipt, codeql_jobs_ready
<1> QED
  BY <1>1, <1>2

\* A commit whose two CI proofs are there keeps them.
LEMMA CIStays ==
    ASSUME Evolves, NEW c \in Commit, prove_ci(c)
    PROVE  prove_ci(c)'
BY ProveCI, ProveCINext DEF Evolves, SuccessStays

\* An owed identity stays owed, and a proven one stays proven.
LEMMA OwedStays ==
    ASSUME Evolves, RecordInv, NEW e \in IdentitySet, IdentityIsOwed(e)
    PROVE  IdentityIsOwed(e)'
<1> DEFINE c == e.publisher.run
           i == e.publisher.attempt
<1>1. c \in Run /\ i \in Nat
  BY DEF IdentitySet, PublisherSet
<1>2. i \in 1..Len(records[c])
  BY DEF IdentityIsOwed
<1>3. i \in 1..Len(records'[c])
  <2>1. Len(records[c]) \in Nat
    BY <1>1 DEF RecordInv
  <2>2. Len(records[c]) <= Len(records'[c])
    BY <1>1 DEF Evolves, RecordsGrow
  <2>3. Len(records'[c]) \in Nat \/ Len(records'[c]) >= i
    BY <1>1, <1>2, <2>1, <2>2
  <2> QED
    BY <1>1, <1>2, <2>1, <2>2, <2>3
<1>4. /\ records'[c][i].head = records[c][i].head
      /\ records'[c][i].event = records[c][i].event
      /\ records'[c][i].workflow = records[c][i].workflow
  BY <1>1, <1>2 DEF Evolves, RecordsGrow
<1>5. PublisherRecordAgrees(e, PublisherRecord(e, records'))
  BY <1>4 DEF IdentityIsOwed, PublisherRecordAgrees, PublisherRecord
<1>6. MainRecordsAgree(e, ci')
  BY DEF IdentityIsOwed, MainRecordsAgree, Evolves, SuccessStays
<1> QED
  BY <1>3, <1>5, <1>6 DEF IdentityIsOwed

\* Runs that are proven stay proven: their records are complete.
LEMMA ProvenStays ==
    ASSUME Evolves, RecordInv, NEW e \in IdentitySet, IdentityIsOwed(e),
           RunsAreProven(e, records, ci)
    PROVE  RunsAreProven(e, records', ci')
<1> DEFINE c == e.publisher.run
           i == e.publisher.attempt
<1>1. c \in Run /\ i \in 1..Len(records[c])
  BY DEF IdentitySet, PublisherSet, IdentityIsOwed
<1>2. records[c][i].status = "completed"
  BY DEF RunsAreProven, PublisherRecord
<1>3. PublisherRecord(e, records') = PublisherRecord(e, records)
  BY <1>1, <1>2 DEF PublisherRecord, Evolves, RecordsGrow
<1>4. MainRecordsAgree(e, ci')
  BY DEF IdentityIsOwed, MainRecordsAgree, Evolves, SuccessStays
<1> QED
  BY <1>3, <1>4 DEF RunsAreProven

\* The tag that a published record names is never moved.
LEMMA PublishedTag ==
    ASSUME TagInv, ReleaseInv, PublishedInv, NEW q \in releases, ~q.draft
    PROVE  q.version \in Version /\ tags[q.version] # NoTag
<1>1. q.version \in Version
  BY DEF ReleaseInv, ReleaseSet
<1>2. CASE q.version = 1
  BY <1>1, <1>2, VersionFacts DEF TagInv, LedgerUpTo
<1>3. CASE q.version # 1
  BY <1>1, <1>3 DEF PublishedInv, PublishedOK
<1> QED
  BY <1>1, <1>2, <1>3

\* The identity of a record that is exact is owed.
LEMMA ExactIsOwed ==
    ASSUME ReleaseInv, NEW q \in releases, NEW v, NEW s, NEW staged,
           IdentityReleaseIsExact(q, v, s, staged)
    PROVE  q.identity \in IdentitySet /\ IdentityIsOwed(q.identity)
<1>1. q.bundle # NoAsset /\ q.bundle.payload = q.identity
  BY DEF IdentityReleaseIsExact, AssetsAreExact, BundleSigns
<1>2. q.bundle \in BundleSet
  BY <1>1 DEF ReleaseInv, ReleaseSet
<1>3. q.identity \in IdentitySet
  BY <1>1, <1>2 DEF BundleSet
<1>4. q.identity # NoAsset
  BY <1>3, IdentityIsNotNull
<1> QED
  BY <1>3, <1>4 DEF ReleaseInv

\* A released version stays released.
LEMMA ReleasedStays ==
    ASSUME Evolves, TagInv, RecordInv, ReleaseInv, PublishedInv, NEW v \in Version, ReleasedVersion(v)
    PROVE  ReleasedVersion(v)'
<1>1. PICK q \in Published(v) : /\ IdentityReleaseIsExact(q, v, tags[v].source, FALSE)
                                /\ RunsAreProven(q.identity, records, ci)
  BY DEF ReleasedVersion
<1>2. q \in releases /\ q.version = v /\ ~q.draft
  BY DEF Published
<1>3. q \in releases'
  BY <1>2 DEF Evolves, PublishedStays
<1>4. tags'[v] = tags[v]
  BY <1>2, PublishedTag DEF Evolves, TagsStay
<1>5. RunsAreProven(q.identity, records', ci')
  BY <1>1, <1>2, ExactIsOwed, ProvenStays
<1> QED
  BY <1>1, <1>2, <1>3, <1>4, <1>5 DEF ReleasedVersion, Published

-----------------------------------------------------------------------------
(***************************************************************************)
(* Steps of one run that only read.                                        *)
(***************************************************************************)

\* A run ends: killed, timed out, refused or settled.
Finishes(c, conclusion) ==
    /\ Running(c) /\ End(c, conclusion)
    /\ UNCHANGED <<main, pr, ci, codeql, tags, releases, setting>>
    /\ UNCHANGED disturbances \/ \E kind \in Disturbance : Disturb(kind)

\* A run moves on without a write, to a record that is sound where it stands.
ReadStep(c) ==
    \E f \in RunSet :
       /\ Move(c, f) /\ UNCHANGED <<tags, releases>>
       /\ RunOK(c, f)
       /\ f.pc \notin {"idle", "queued"}
       /\ AtWork(c) \/ \A e \in Dispatch : ~AtWork(e)

\* A run is that of a commit or a dispatch, never both.
LEMMA RunKinds ==
    /\ Run = Commit \cup Dispatch
    /\ Commit \cap Dispatch = {}
    /\ Commit \subseteq Nat /\ Dispatch \subseteq Nat
BY BoundsAssumption DEF Run, Commit, Dispatch

\* A refusal ends the run.
LEMMA FailFinishes ==
    ASSUME NEW c, Fail(c), run[c].pc # "idle"
    PROVE  Finishes(c, "failure")
BY DEF Fail, Finishes, Running

\* The record of every run is a sound one.
LEMMA RunFacts ==
    ASSUME Inv, NEW c \in Run
    PROVE  run[c] \in RunSet /\ RunOK(c, run[c])
BY DEF Inv, RunInv

\* A move that keeps the edge and holds no draft yet.
LEMMA KeepsEdge ==
    ASSUME Inv, NEW c \in Run, NEW r \in RunSet, RunOK(c, r), r.pc # "idle",
           NEW f \in RunSet, f.pc # "idle",
           f.ctx = r.ctx, f.source = r.source, f.base = r.base, f.version = r.version,
           f.notes = r.notes,
           PcOK(c, f), OnEdge(c, f) => OnEdge(c, r), f.pc \in EdgePc => r.pc \in EdgePc,
           c \in Dispatch /\ f.pc \in SelectedPc => r.pc \in SelectedPc,
           f.pc \notin HoldingPc, f.pc # "create"
    PROVE  RunOK(c, f)
<1>1. AttemptOK(c, f)
  BY DEF RunOK, AttemptOK
<1>2. EdgeOK(c, f)
  BY DEF RunOK, EdgeOK
<1>3. NotesOK(c, f)
  BY DEF RunOK, NotesOK
<1>4. CIOK(c, f)
  BY DEF RunOK, CIOK
<1>5. FreshOK(c, f) /\ HoldOK(c, f)
  BY DEF FreshOK, HoldOK
<1>6. SelectedOK(c, f)
  BY DEF RunOK, SelectedOK
<1> QED
  BY <1>1, <1>2, <1>3, <1>4, <1>5, <1>6 DEF RunOK

\* The shape in which the actions below use it: only pc, at and seen change.
LEMMA GoesOn ==
    ASSUME Inv, NEW c \in Run, NEW pc \in Step, NEW at \in Site,
           NEW seen \in Verdicts \X Verdicts \X Verdicts, NEW f,
           f = [run[c] EXCEPT !.pc = pc, !.at = at, !.seen = seen],
           AtWork(c), Move(c, f), UNCHANGED <<tags, releases>>,
           pc # "queued", pc \notin HoldingPc, pc # "create",
           pc \in EdgePc => run[c].pc \in EdgePc,
           c \in Dispatch => /\ pc \in SelectedPc /\ run[c].pc \in SelectedPc
                             /\ pc \in DispatchPc /\ at \in {"start", "draft"},
           c \in Commit => pc \in CommitPc
    PROVE  ReadStep(c)
<1>1. run[c] \in RunSet /\ RunOK(c, run[c])
  BY RunFacts
<1>2. f \in RunSet
  BY <1>1 DEF RunSet
<1>3. /\ f.pc = pc /\ f.at = at /\ f.ctx = run[c].ctx /\ f.source = run[c].source
      /\ f.base = run[c].base /\ f.version = run[c].version /\ f.notes = run[c].notes
  BY <1>1 DEF RunSet
<1>4. pc # "idle" /\ run[c].pc # "idle"
  BY DEF Step, AtWork
<1>5. PcOK(c, f)
  BY <1>1, <1>3, <1>4 DEF PcOK, RunOK
<1>6. OnEdge(c, f) => OnEdge(c, run[c])
  BY <1>3 DEF OnEdge
<1>7. RunOK(c, f)
  BY <1>1, <1>2, <1>3, <1>4, <1>5, <1>6, KeepsEdge
<1> QED
  BY <1>2, <1>3, <1>4, <1>7 DEF ReadStep

\* Goto and ToPreflight in that shape.
LEMMA GotoGoesOn ==
    ASSUME Inv, NEW c \in Run, NEW pc \in Step, NEW at \in Site,
           AtWork(c), Move(c, [run[c] EXCEPT !.pc = pc, !.at = at]), UNCHANGED <<tags, releases>>,
           pc # "queued", pc \notin HoldingPc, pc # "create",
           pc \in EdgePc => run[c].pc \in EdgePc,
           c \in Dispatch => /\ pc \in SelectedPc /\ run[c].pc \in SelectedPc
                             /\ pc \in DispatchPc /\ at \in {"start", "draft"},
           c \in Commit => pc \in CommitPc
    PROVE  ReadStep(c)
<1> DEFINE f == [run[c] EXCEPT !.pc = pc, !.at = at]
           seen == run[c].seen
<1>1. run[c] \in RunSet
  BY RunFacts
<1>2. seen \in Verdicts \X Verdicts \X Verdicts
  BY <1>1 DEF RunSet
<1>3. f = [run[c] EXCEPT !.pc = pc, !.at = at, !.seen = seen]
  BY <1>1 DEF RunSet
<1> HIDE DEF f, seen
<1>4. Move(c, f)
  BY DEF f
<1> QED
  BY <1>2, <1>3, <1>4, GoesOn

\* A step that changes nothing but where the run is.
LEMMA GotoStep ==
    ASSUME Inv, NEW c \in Run, NEW pc \in Step,
           AtWork(c), Goto(c, pc), UNCHANGED <<tags, releases>>,
           pc # "queued", pc \notin HoldingPc, pc # "create",
           pc \in EdgePc => run[c].pc \in EdgePc,
           c \in Dispatch => pc \in SelectedPc /\ run[c].pc \in SelectedPc /\ pc \in DispatchPc,
           c \in Commit => pc \in CommitPc
    PROVE  ReadStep(c)
<1> DEFINE f == [run[c] EXCEPT !.pc = pc]
           at == run[c].at
<1>1. run[c] \in RunSet /\ RunOK(c, run[c])
  BY RunFacts
<1>2. at \in Site /\ (c \in Dispatch => at \in {"start", "draft"})
  BY <1>1 DEF RunSet, RunOK, PcOK
<1>3. f = [run[c] EXCEPT !.pc = pc, !.at = at]
  BY <1>1 DEF RunSet
<1>4. Move(c, f)
  BY DEF Goto
<1> HIDE DEF f, at
<1>5. Move(c, [run[c] EXCEPT !.pc = pc, !.at = at])
  BY <1>3, <1>4
<1> QED
  BY <1>2, <1>5, GotoGoesOn

\* The kind of run that can stand at a pc.
LEMMA PcKind ==
    ASSUME Inv, NEW c \in Run
    PROVE  /\ run[c].pc \in {"ci", "wait", "rebind", "tagref", "tagpoll"} => c \in Commit /\ c \notin Dispatch
           /\ run[c].pc \in {"queued", "prepare", "verify", "reverify"} => c \in Dispatch /\ c \notin Commit
           /\ c \in Dispatch => run[c].at \in {"start", "draft"}
<1>1. PcOK(c, run[c])
  BY RunFacts DEF RunOK
<1> QED
  BY <1>1, RunKinds DEF PcOK, CommitPc, DispatchPc

\* The run waits for the CI of its own source.
LEMMA MainCIStep ==
    ASSUME Inv, NEW c \in Run, MainCI(c)
    PROVE  Finishes(c, "failure") \/ ReadStep(c)
<1>1. run[c].pc = "ci" /\ AtWork(c)
  BY DEF MainCI, AtWork
<1>2. c \in Commit /\ c \notin Dispatch
  BY <1>1, PcKind
<1>3. CASE Fail(c)
  BY <1>1, <1>3, FailFinishes
<1>4. CASE Goto(c, "wait") /\ UNCHANGED <<tags, releases>>
  <2>1. "wait" \in Step /\ "wait" \in CommitPc /\ "wait" \notin HoldingPc /\ "wait" \notin EdgePc
    BY DEF Step, CommitPc, HoldingPc, EdgePc
  <2> QED
    BY <1>1, <1>2, <1>4, <2>1, GotoStep
<1> QED
  BY <1>3, <1>4 DEF MainCI

\* The run waits for the release of its predecessor.
LEMMA WaitStep ==
    ASSUME Inv, NEW c \in Run, Wait(c)
    PROVE  Finishes(c, "failure") \/ ReadStep(c)
<1>1. run[c].pc = "wait" /\ AtWork(c)
  BY DEF Wait, AtWork
<1>2. c \in Commit /\ c \notin Dispatch
  BY <1>1, PcKind
<1>3. CASE Fail(c)
  BY <1>1, <1>3, FailFinishes
<1>4. CASE Goto(c, "settings") /\ UNCHANGED <<tags, releases>>
  <2>1. /\ "settings" \in Step /\ "settings" \in CommitPc
        /\ "settings" \notin HoldingPc /\ "settings" \notin EdgePc
    BY DEF Step, CommitPc, HoldingPc, EdgePc
  <2> QED
    BY <1>1, <1>2, <1>4, <2>1, GotoStep
<1> QED
  BY <1>3, <1>4 DEF Wait, Reads

\* The job immutable-settings ends and the next one starts.
LEMMA SettingsStep ==
    ASSUME Inv, NEW c \in Run, Settings(c)
    PROVE  Finishes(c, "failure") \/ ReadStep(c)
<1>1. run[c].pc = "settings" /\ AtWork(c)
  BY DEF Settings, AtWork
<1>2. CASE Fail(c)
  BY <1>1, <1>2, FailFinishes
<1>3. CASE Goto(c, IF c \in Dispatch THEN "reverify" ELSE "rebind") /\ UNCHANGED <<tags, releases>>
  <2> DEFINE pc == IF c \in Dispatch THEN "reverify" ELSE "rebind"
  <2>1. /\ pc \in Step /\ pc \notin HoldingPc /\ pc \notin EdgePc /\ pc # "create" /\ pc # "queued"
        /\ c \in Commit => pc \in CommitPc
        /\ c \in Dispatch => pc \in SelectedPc /\ run[c].pc \in SelectedPc /\ pc \in DispatchPc
    BY <1>1, RunKinds DEF Step, CommitPc, DispatchPc, SelectedPc, HoldingPc, EdgePc
  <2>2. Goto(c, pc)
    BY <1>3
  <2> HIDE DEF pc
  <2> QED
    BY <1>1, <1>3, <2>1, <2>2, GotoStep
<1> QED
  BY <1>2, <1>3 DEF Settings, Reads

\* A closed classification is three verdicts.
LEMMA VerdictTypes ==
    ASSUME NEW c
    PROVE  ClosedState(c) \in Verdicts \X Verdicts \X Verdicts
<1>1. CurrentTag(c) \in Verdicts
  BY VerdictSays, Zenon DEF CurrentTag, TagState, TagIsExact
<1>2. CurrentRelease(c) \in Verdicts
  BY VerdictSays, Zenon DEF CurrentRelease
<1>3. CurrentDraft(c) \in Verdicts
  BY VerdictSays, Zenon DEF CurrentDraft, DraftState
<1> QED
  BY <1>1, <1>2, <1>3 DEF ClosedState

\* The first classification: a run that may go on confirms it.
LEMMA PreflightStep ==
    ASSUME Inv, NEW c \in Run, Preflight(c)
    PROVE  Finishes(c, "failure") \/ ReadStep(c)
<1>1. run[c].pc = "preflight" /\ AtWork(c)
  BY DEF Preflight, AtWork
<1>2. CASE Fail(c)
  BY <1>1, <1>2, FailFinishes
<1>3. CASE /\ Move(c, [run[c] EXCEPT !.pc = "confirm", !.seen = ClosedState(c)])
           /\ UNCHANGED <<tags, releases>>
  <2> DEFINE at == run[c].at
             seen == ClosedState(c)
             f == [run[c] EXCEPT !.pc = "confirm", !.seen = seen]
             pc == "confirm"
  <2>1. run[c] \in RunSet /\ RunOK(c, run[c])
    BY RunFacts
  <2>2. at \in Site /\ (c \in Dispatch => at \in {"start", "draft"})
    BY <2>1, PcKind DEF RunSet
  <2>3. f = [run[c] EXCEPT !.pc = pc, !.at = at, !.seen = seen]
    BY <2>1 DEF RunSet
  <2>4. seen \in Verdicts \X Verdicts \X Verdicts
    BY VerdictTypes
  <2>5. /\ pc \in Step /\ pc \notin HoldingPc /\ pc \in EdgePc /\ run[c].pc \in EdgePc
        /\ pc # "create" /\ pc # "queued" /\ pc \in CommitPc /\ pc \in DispatchPc
        /\ pc \in SelectedPc /\ run[c].pc \in SelectedPc
    BY <1>1 DEF Step, CommitPc, DispatchPc, SelectedPc, HoldingPc, EdgePc
  <2>6. Move(c, f)
    BY <1>3
  <2> HIDE DEF pc, at, f, seen
  <2> QED
    BY <1>1, <1>3, <2>2, <2>3, <2>4, <2>5, <2>6, GoesOn
<1> QED
  BY <1>2, <1>3 DEF Preflight, Reads

\* The confirmed classification decides where the run enters the publication.
LEMMA ConfirmStep ==
    ASSUME Inv, NEW c \in Run, Confirm(c)
    PROVE  Finishes(c, "failure") \/ ReadStep(c)
<1> DEFINE a == run[c].at
           pc == AfterConfirm(a)
           at == NextSite(a)
<1>1. run[c].pc = "confirm" /\ AtWork(c)
  BY DEF Confirm, AtWork
<1>2. CASE Fail(c)
  BY <1>1, <1>2, FailFinishes
<1>3. CASE /\ Move(c, [run[c] EXCEPT !.pc = pc, !.at = at])
           /\ UNCHANGED <<tags, releases>>
  <2>1. a \in Site /\ (c \in Dispatch => a \in {"start", "draft"})
    BY RunFacts, PcKind DEF RunSet
  <2>2. /\ a = "start" => pc = "tag"
        /\ a = "tagobject" => pc = "preflight"
        /\ a = "tagref" => pc = "tagref"
        /\ a = "draft" => pc = "draft"
    <3>1. /\ "start" # "tagobject" /\ "start" # "tagref" /\ "start" # "draft"
          /\ "tagobject" # "tagref" /\ "tagobject" # "draft" /\ "tagref" # "draft"
      OBVIOUS
    <3> QED
      BY <3>1, Zenon DEF AfterConfirm
  <2>3. /\ a = "start" => at = "start"
        /\ a = "tagobject" => at = "tagref"
        /\ a = "tagref" => at = "tagref"
        /\ a = "draft" => at = "draft"
    BY DEF NextSite
  <2>4. pc \in {"tag", "preflight", "tagref", "draft"} /\ at \in Site
    BY <2>1, <2>2, <2>3 DEF Site
  <2>5. c \in Dispatch => pc \in {"tag", "draft"} /\ at \in {"start", "draft"}
    BY <2>1, <2>2, <2>3
  <2>6. Move(c, [run[c] EXCEPT !.pc = pc, !.at = at])
    BY <1>3
  <2> HIDE DEF a, pc, at
  <2>7. /\ pc \in Step /\ pc \notin HoldingPc /\ pc \in EdgePc /\ run[c].pc \in EdgePc
        /\ pc # "create" /\ pc # "queued" /\ pc \in CommitPc
        /\ pc \in SelectedPc /\ run[c].pc \in SelectedPc
        /\ c \in Dispatch => pc \in DispatchPc
    BY <1>1, <2>4, <2>5 DEF Step, CommitPc, DispatchPc, SelectedPc, HoldingPc, EdgePc
  <2> QED
    BY <1>1, <1>3, <2>4, <2>5, <2>6, <2>7, GotoGoesOn
<1> QED
  BY <1>2, <1>3 DEF Confirm, Reads

\* From an edge pc to an edge pc that neither holds a draft nor creates one.
LEMMA EdgeGoto ==
    ASSUME Inv, NEW c \in Run, NEW pc, run[c].pc \in EdgePc,
           pc \in {"tagpoll", "tag", "release", "settle", "published"},
           c \in Dispatch => pc # "tagpoll",
           Goto(c, pc), UNCHANGED <<tags, releases>>
    PROVE  ReadStep(c)
<1>1. /\ pc \in Step /\ pc \notin HoldingPc /\ pc \in EdgePc /\ AtWork(c)
      /\ pc # "create" /\ pc # "queued" /\ pc \in CommitPc
      /\ pc \in SelectedPc /\ run[c].pc \in SelectedPc
      /\ c \in Dispatch => pc \in DispatchPc
  BY DEF Step, CommitPc, DispatchPc, SelectedPc, HoldingPc, EdgePc, AtWork
<1> QED
  BY <1>1, GotoStep

\* A run that sees its classification changed classifies again.
LEMMA EdgeToPreflight ==
    ASSUME Inv, NEW c \in Run, NEW at \in {"tagobject", "draft"}, run[c].pc \in EdgePc,
           c \in Dispatch => at = "draft", ToPreflight(c, at)
    PROVE  ReadStep(c)
<1> DEFINE pc == "preflight"
<1>1. /\ pc \in Step /\ pc \notin HoldingPc /\ pc \in EdgePc /\ AtWork(c)
      /\ pc # "create" /\ pc # "queued" /\ pc \in CommitPc /\ pc \in DispatchPc
      /\ pc \in SelectedPc /\ run[c].pc \in SelectedPc /\ at \in Site
      /\ c \in Dispatch => at \in {"start", "draft"}
  BY DEF Step, CommitPc, DispatchPc, SelectedPc, HoldingPc, EdgePc, AtWork, Site
<1>2. Move(c, [run[c] EXCEPT !.pc = pc, !.at = at]) /\ UNCHANGED <<tags, releases>>
  BY DEF ToPreflight, Reads
<1> HIDE DEF pc
<1> QED
  BY <1>1, <1>2, GotoGoesOn

\* The check before the tag only reads.
LEMMA TagStep ==
    ASSUME Inv, NEW c \in Run, Tag(c)
    PROVE  Finishes(c, "failure") \/ ReadStep(c)
<1>1. run[c].pc = "tag" /\ run[c].pc # "idle" /\ run[c].pc \in EdgePc
  BY DEF Tag, EdgePc
<1>2. CASE Fail(c)
  BY <1>1, <1>2, FailFinishes
<1>3. CASE Goto(c, "release") /\ Reads
  BY <1>1, <1>3, EdgeGoto DEF Reads
<1>4. CASE c \notin Dispatch /\ ToPreflight(c, "tagobject")
  BY <1>1, <1>4, EdgeToPreflight
<1>5. \/ Goto(c, "release") /\ Reads
      \/ c \notin Dispatch /\ ToPreflight(c, "tagobject")
      \/ Fail(c)
  BY Zenon DEF Tag
<1> QED
  BY <1>2, <1>3, <1>4, <1>5

\* The tag read back after its creation.
LEMMA TagPollStep ==
    ASSUME Inv, NEW c \in Run, TagPoll(c)
    PROVE  Finishes(c, "failure") \/ ReadStep(c)
<1>1. run[c].pc = "tagpoll" /\ run[c].pc # "idle" /\ run[c].pc \in EdgePc
  BY DEF TagPoll, EdgePc
<1>2. CASE Fail(c)
  BY <1>1, <1>2, FailFinishes
<1>3. CASE Goto(c, "release") /\ Reads
  BY <1>1, <1>3, EdgeGoto DEF Reads
<1> QED
  BY <1>2, <1>3 DEF TagPoll

\* The release of the run's version: there, or to be drafted.
LEMMA ReleaseStep ==
    ASSUME Inv, NEW c \in Run, Release(c)
    PROVE  Finishes(c, "failure") \/ ReadStep(c)
<1>1. run[c].pc = "release" /\ run[c].pc # "idle" /\ run[c].pc \in EdgePc
  BY DEF Release, EdgePc
<1>2. CASE Fail(c)
  BY <1>1, <1>2, FailFinishes
<1>3. CASE Goto(c, "settle") /\ Reads
  BY <1>1, <1>3, EdgeGoto DEF Reads
<1>4. CASE ToPreflight(c, "draft")
  BY <1>1, <1>4, EdgeToPreflight
<1>5. \/ Goto(c, "settle") /\ Reads
      \/ ToPreflight(c, "draft")
      \/ Fail(c)
  BY Zenon DEF Release
<1> QED
  BY <1>2, <1>3, <1>4, <1>5

\* The published release read back.
LEMMA ReadBackStep ==
    ASSUME Inv, NEW c \in Run, ReadBack(c)
    PROVE  Finishes(c, "failure") \/ ReadStep(c)
<1>1. run[c].pc = "published" /\ run[c].pc # "idle" /\ run[c].pc \in EdgePc
  BY DEF ReadBack, EdgePc
<1>2. CASE Fail(c)
  BY <1>1, <1>2, FailFinishes
<1>3. CASE Goto(c, "settle") /\ Reads
  BY <1>1, <1>3, EdgeGoto DEF Reads
<1> QED
  BY <1>2, <1>3 DEF ReadBack

\* The dispatch proves its selection again.
LEMMA VerifyStep ==
    ASSUME Inv, NEW d \in Dispatch, Verify(d)
    PROVE  Finishes(d, "failure") \/ ReadStep(d)
<1>1. run[d].pc = "verify" /\ AtWork(d) /\ d \in Run /\ d \notin Commit
  BY RunKinds DEF Verify, AtWork
<1>2. CASE Fail(d)
  BY <1>1, <1>2, FailFinishes
<1>3. CASE Goto(d, "settings") /\ Reads
  <2>1. /\ "settings" \in Step /\ "settings" \notin HoldingPc /\ "settings" \notin EdgePc
        /\ "settings" \in SelectedPc /\ "settings" \in DispatchPc /\ run[d].pc \in SelectedPc
    BY <1>1 DEF Step, DispatchPc, SelectedPc, HoldingPc, EdgePc
  <2> QED
    BY <1>1, <1>3, <2>1, GotoStep DEF Reads
<1> QED
  BY <1>2, <1>3 DEF Verify

\* A queued dispatch begins when the group is free.
LEMMA BeginStep ==
    ASSUME Inv, NEW d \in Dispatch, Begin(d)
    PROVE  ReadStep(d)
<1>1. run[d].pc = "queued" /\ d \in Run
  BY RunKinds DEF Begin, Queued
<1> DEFINE r == run[d]
           f == [run[d] EXCEPT !.pc = "prepare"]
<1>2. r \in RunSet /\ RunOK(d, r)
  BY <1>1, RunFacts
<1>3. f \in RunSet
  BY <1>2 DEF RunSet, Step
<1>4. /\ f.pc = "prepare" /\ f.ctx = r.ctx /\ f.source = r.source /\ f.base = r.base
      /\ f.version = r.version /\ f.notes = r.notes /\ f.at = r.at
  BY <1>2 DEF RunSet
<1>5. /\ "prepare" \notin SelectedPc /\ "prepare" \notin EdgePc /\ "prepare" \in DispatchPc
      /\ "queued" \notin SelectedPc /\ "prepare" \notin HoldingPc
  BY DEF DispatchPc, SelectedPc, EdgePc, Step, HoldingPc
<1>6. Move(d, f) /\ UNCHANGED <<tags, releases>>
  BY DEF Begin, Goto, Reads
<1>7. \A e \in Dispatch : ~AtWork(e)
  BY DEF Begin, Running, Queued, AtWork
<1>8. r.pc = "queued"
  BY <1>1
<1> HIDE DEF r, f
<1>9. PcOK(d, f)
  <2>1. PcOK(d, r)
    BY <1>2 DEF RunOK
  <2>2. d \notin Commit
    BY RunKinds
  <2> QED
    BY <1>4, <1>5, <1>8, <2>1, <2>2 DEF PcOK
<1>10. RunOK(d, f)
  <2>1. OnEdge(d, f) => OnEdge(d, r)
    BY <1>4, <1>5 DEF OnEdge
  <2> QED
    BY <1>1, <1>2, <1>3, <1>4, <1>5, <1>8, <1>9, <2>1, KeepsEdge
<1> QED
  BY <1>3, <1>4, <1>6, <1>7, <1>10 DEF ReadStep

\* The list shows the draft: from here on it is this run's to complete.
LEMMA ListedStep ==
    ASSUME Inv, NEW c \in Run, Listed(c)
    PROVE  Finishes(c, "failure") \/ ReadStep(c)
<1>1. run[c].pc = "listed" /\ run[c].pc # "idle" /\ AtWork(c)
  BY DEF Listed, AtWork
<1>2. CASE Fail(c)
  BY <1>1, <1>2, FailFinishes
<1>3. CASE Goto(c, "upload1") /\ Reads
  <2> DEFINE r == run[c]
             f == [run[c] EXCEPT !.pc = "upload1"]
  <2>1. r \in RunSet /\ RunOK(c, r) /\ r.pc = "listed"
    BY <1>1, RunFacts
  <2>2. f \in RunSet
    BY <2>1 DEF RunSet, Step
  <2>3. /\ f.pc = "upload1" /\ f.ctx = r.ctx /\ f.source = r.source /\ f.base = r.base
        /\ f.version = r.version /\ f.notes = r.notes /\ f.at = r.at /\ f.draft = r.draft
    BY <2>1 DEF RunSet
  <2>4. Move(c, f) /\ UNCHANGED <<tags, releases>>
    BY <1>3 DEF Goto, Reads
  <2>5. /\ "upload1" \in SelectedPc /\ "upload1" \in EdgePc /\ "upload1" \in DispatchPc
        /\ "upload1" \in CommitPc /\ "upload1" \in HoldingPc
        /\ "listed" \in SelectedPc /\ "listed" \in EdgePc /\ "listed" \in HoldingPc
    BY DEF DispatchPc, CommitPc, SelectedPc, EdgePc, Step, HoldingPc
  <2> HIDE DEF r, f
  <2>6. PcOK(c, f)
    BY <2>1, <2>3, <2>5 DEF PcOK, RunOK
  <2>7. AttemptOK(c, f)
    BY <2>1, <2>3 DEF RunOK, AttemptOK
  <2>8. EdgeOK(c, f)
    BY <2>1, <2>3, <2>5 DEF RunOK, EdgeOK, OnEdge
  <2>9. NotesOK(c, f)
    BY <2>1, <2>3, <2>5 DEF RunOK, NotesOK
  <2>10. CIOK(c, f)
    BY <2>1, <2>3, <2>5 DEF RunOK, CIOK
  <2>11. FreshOK(c, f)
    BY <2>3 DEF FreshOK
  <2>12. HoldOK(c, f)
    <3>1. PICK q \in releases : HeldBy(c, r, q)
      BY <2>1, <2>5 DEF RunOK, HoldOK
    <3>2. HeldBy(c, f, q)
      BY <2>1, <2>3, <3>1 DEF HeldBy
    <3> QED
      BY <3>2 DEF HoldOK
  <2>13. SelectedOK(c, f)
    BY <2>1, <2>3, <2>5 DEF RunOK, SelectedOK
  <2>14. RunOK(c, f)
    BY <2>6, <2>7, <2>8, <2>9, <2>10, <2>11, <2>12, <2>13 DEF RunOK
  <2> QED
    BY <1>1, <2>2, <2>3, <2>4, <2>14 DEF ReadStep
<1> QED
  BY <1>2, <1>3 DEF Listed

-----------------------------------------------------------------------------
(***************************************************************************)
(* Reads that bind a run: to a draft, to an edge, to a selection.          *)
(***************************************************************************)

\* A draft is opened only when nobody has a record of this source.
LEMMA DraftCreates ==
    ASSUME Inv, NEW c \in Run, run[c].pc = "draft", CurrentRelease(c) = "absent",
           CurrentDraft(c) = "absent", Goto(c, "create"), UNCHANGED <<tags, releases>>
    PROVE  ReadStep(c)
<1> DEFINE r == run[c]
           f == [run[c] EXCEPT !.pc = "create"]
           v == run[c].version
           s == run[c].source
<1>1. r \in RunSet /\ RunOK(c, r) /\ r.pc = "draft"
  BY RunFacts
<1>2. f \in RunSet
  BY <1>1 DEF RunSet, Step
<1>3. /\ f.pc = "create" /\ f.ctx = r.ctx /\ f.source = r.source /\ f.base = r.base
      /\ f.version = r.version /\ f.notes = r.notes /\ f.at = r.at
  BY <1>1 DEF RunSet
<1>4. Move(c, f) /\ AtWork(c)
  BY DEF Goto, AtWork
<1>5. Published(v) = {}
  BY VerdictSays, Zenon DEF CurrentRelease
<1>6. DraftCandidates(releases, v, s, Bodies(c)) = {}
  BY VerdictSays, Zenon DEF CurrentDraft, DraftState, Source
<1>7. ASSUME NEW q \in releases, q.version = v
      PROVE  FALSE
  <2>1. DraftRelevant(q, v, s, Bodies(c))
    BY <1>7 DEF DraftRelevant
  <2>2. ExactPublished(q, v, s, Bodies(c))
    BY <1>6, <2>1 DEF DraftCandidates
  <2>3. q \in Published(v)
    BY <1>7, <2>2 DEF ExactPublished, Published
  <2> QED
    BY <1>5, <2>3
<1>8. \A q \in releases : q.version # r.version
  BY <1>7
<1>9. /\ "create" \in SelectedPc /\ "create" \in EdgePc /\ "create" \in DispatchPc
      /\ "create" \in CommitPc /\ "create" \notin HoldingPc
      /\ "draft" \in SelectedPc /\ "draft" \in EdgePc
  BY DEF DispatchPc, CommitPc, SelectedPc, EdgePc, Step, HoldingPc
<1> HIDE DEF r, f
<1>10. PcOK(c, f)
  BY <1>1, <1>3, <1>9 DEF PcOK, RunOK
<1>11. AttemptOK(c, f)
  BY <1>1, <1>3 DEF RunOK, AttemptOK
<1>12. EdgeOK(c, f) /\ NotesOK(c, f) /\ CIOK(c, f)
  BY <1>1, <1>3, <1>9 DEF RunOK, EdgeOK, NotesOK, CIOK, OnEdge
<1>13. FreshOK(c, f) /\ HoldOK(c, f)
  BY <1>3, <1>8, <1>9 DEF FreshOK, HoldOK
<1>14. SelectedOK(c, f)
  BY <1>1, <1>3, <1>9 DEF RunOK, SelectedOK
<1>15. RunOK(c, f)
  BY <1>10, <1>11, <1>12, <1>13, <1>14 DEF RunOK
<1> QED
  BY <1>2, <1>3, <1>4, <1>15 DEF ReadStep

\* The one exact draft of this source is resumed by its id.
LEMMA DraftResumes ==
    ASSUME Inv, NEW c \in Run, run[c].pc = "draft", CurrentDraft(c) = "exact",
           NEW own, own = DraftCandidates(releases, run[c].version, Source(c), Bodies(c)),
           Move(c, [run[c] EXCEPT !.pc = "body", !.draft = (CHOOSE q \in own : TRUE).id]),
           UNCHANGED <<tags, releases>>
    PROVE  ReadStep(c)
<1> DEFINE r == run[c]
           id == (CHOOSE q \in own : TRUE).id
           f == [run[c] EXCEPT !.pc = "body", !.draft = id]
<1>1. r \in RunSet /\ RunOK(c, r) /\ r.pc = "draft"
  BY RunFacts
<1>2. \E q \in own : own = {q} /\ q.body \in Bodies(c) /\ DraftIsExact(q, r.version, r.source, q.body)
  BY VerdictSays, Zenon DEF CurrentDraft, DraftState, Source
<1>3. PICK q \in own : own = {q} /\ DraftIsExact(q, r.version, r.source, q.body)
  BY <1>2
<1>4. q \in releases /\ id = q.id
  BY <1>3 DEF DraftCandidates
<1>5. id \in Nat
  BY <1>4 DEF Inv, ReleaseInv, ReleaseSet
<1>6. Move(c, f) /\ AtWork(c)
  BY DEF AtWork
<1>7. f \in RunSet
  BY <1>1, <1>5 DEF RunSet, Step
<1>8. /\ f.pc = "body" /\ f.ctx = r.ctx /\ f.source = r.source /\ f.base = r.base
      /\ f.version = r.version /\ f.notes = r.notes /\ f.at = r.at /\ f.draft = id
  BY <1>1 DEF RunSet
<1>9. /\ "body" \in SelectedPc /\ "body" \in EdgePc /\ "body" \in DispatchPc
      /\ "body" \in CommitPc
      /\ "draft" \in SelectedPc /\ "draft" \in EdgePc
  BY DEF DispatchPc, CommitPc, SelectedPc, EdgePc, Step
<1> HIDE DEF r, f, id
<1>10. PcOK(c, f)
  BY <1>1, <1>8, <1>9 DEF PcOK, RunOK
<1>11. AttemptOK(c, f)
  BY <1>1, <1>8 DEF RunOK, AttemptOK
<1>12. EdgeOK(c, f) /\ NotesOK(c, f) /\ CIOK(c, f)
  BY <1>1, <1>8, <1>9 DEF RunOK, EdgeOK, NotesOK, CIOK, OnEdge
<1>13. FreshOK(c, f)
  BY <1>8 DEF FreshOK
<1>14. HoldOK(c, f)
  <2>1. HeldBy(c, f, q)
    BY <1>3, <1>4, <1>8 DEF HeldBy, DraftIsExact
  <2> QED
    BY <1>4, <2>1 DEF HoldOK
<1>15. SelectedOK(c, f)
  BY <1>1, <1>8, <1>9 DEF RunOK, SelectedOK
<1>16. RunOK(c, f)
  BY <1>10, <1>11, <1>12, <1>13, <1>14, <1>15 DEF RunOK
<1> QED
  BY <1>6, <1>7, <1>8, <1>16 DEF ReadStep

\* The run resumes its draft, or has none and may create one.
LEMMA DraftStep ==
    ASSUME Inv, NEW c \in Run, Draft(c)
    PROVE  Finishes(c, "failure") \/ ReadStep(c)
<1> DEFINE own == DraftCandidates(releases, run[c].version, Source(c), Bodies(c))
           Resume == /\ Move(c, [run[c] EXCEPT !.pc = "body", !.draft = (CHOOSE r \in own : TRUE).id])
                     /\ Reads
<1>1. run[c].pc = "draft" /\ run[c].pc # "idle"
  BY DEF Draft
<1>2. CASE Fail(c)
  BY <1>1, <1>2, FailFinishes
<1>3. CASE CurrentDraft(c) = "exact" /\ Resume
  BY <1>1, <1>3, DraftResumes DEF Reads
<1>4. CASE CurrentRelease(c) = "absent" /\ CurrentDraft(c) = "absent" /\ Goto(c, "create") /\ Reads
  BY <1>1, <1>4, DraftCreates DEF Reads
<1>5. \/ Fail(c)
      \/ CurrentDraft(c) = "exact" /\ Resume
      \/ CurrentRelease(c) = "absent" /\ CurrentDraft(c) = "absent" /\ Goto(c, "create") /\ Reads
  <2> HIDE DEF Resume
  <2>1. CASE CurrentTag(c) # "exact" \/ CurrentRelease(c) # "absent"
    BY <2>1, Zenon DEF Draft
  <2>2. CASE ~(CurrentTag(c) # "exact" \/ CurrentRelease(c) # "absent")
    <3>1. (CASE CurrentDraft(c) = "exact" -> Resume
             [] CurrentDraft(c) = "absent" /\ Boundary(c) -> Goto(c, "create") /\ Reads
             [] OTHER -> Fail(c))
      BY <2>2, Zenon DEF Draft, Resume
    <3> QED
      BY <2>2, <3>1, Zenon
  <2> QED
    BY <2>1, <2>2
<1> QED
  BY <1>2, <1>3, <1>4, <1>5

\* What the invariant says of the ledger, with its number of tags.
LEMMA InvLedger ==
    ASSUME Inv
    PROVE  /\ main \in Seq(Tree) /\ Len(main) \in Nat /\ Len(main) <= MaxMain /\ Len(main) >= 1
           /\ tags \in [Version -> TagSet]
           /\ \E n \in Version : LedgerUpTo(main, tags, n)
BY BoundsAssumption DEF Inv, MainInv, TagInv

\* A ready window of the ledger of now carries such an edge.
LEMMA BoundWindow ==
    ASSUME Inv, NEW head \in 1..Len(main), Window(main, tags, head).verdict = "ready"
    PROVE  /\ Window(main, tags, head)
                = Ready(Window(main, tags, head).base, Window(main, tags, head).version)
           /\ ReadyEdge(main, tags, head, Window(main, tags, head).base, Window(main, tags, head).version)
<1>1. PICK n \in Version : LedgerUpTo(main, tags, n)
  BY InvLedger
<1> QED
  BY <1>1, InvLedger, WindowIsReady

\* An ordinary publisher binds its own source to the window's edge.
LEMMA RebindStep ==
    ASSUME Inv, NEW c \in Run, Rebind(c)
    PROVE  Finishes(c, "failure") \/ ReadStep(c)
<1> DEFINE window == Window(main, tags, c)
           r == run[c]
           b == window.base
           v == window.version
           notes == Notes(main, tags, c, b, v)
           f == [run[c] EXCEPT !.pc = "preflight", !.at = "start",
                               !.source = c, !.base = b, !.version = v, !.notes = notes]
<1>1. r.pc = "rebind" /\ r.pc # "idle" /\ AtWork(c)
  BY DEF Rebind, AtWork
<1>2. c \in Commit /\ c \notin Dispatch /\ r \in RunSet /\ RunOK(c, r)
  BY <1>1, PcKind, RunFacts
<1>3. CASE Fail(c)
  BY <1>1, <1>3, FailFinishes
<1>4. CASE window.verdict = "ready" /\ ~IsHistorical(v) /\ Move(c, f) /\ Reads
  <2>1. c \in 1..Len(main)
    <3>1. Len(records[c]) > 0
      BY <1>1, <1>2 DEF RunOK, AttemptOK
    <3>2. c <= Len(main)
      BY <1>2, <3>1 DEF Inv, RecordInv
    <3> QED
      BY <1>2, <3>2, InvLedger DEF Commit
  <2>2. window = Ready(b, v) /\ ReadyEdge(main, tags, c, b, v)
    BY <1>4, <2>1, BoundWindow
  <2>3. notes = EdgeNotes(main, b, c, v)
    BY <2>2, NotesOfWindow
  <2>4. /\ v \in Version /\ v - 1 \in Version /\ b \in 1..Len(main)
        /\ BindsOneFragment(main, b, c) /\ tags[v - 1] # NoTag /\ tags[v - 1].source = b
    BY <2>2 DEF ReadyEdge
  <2>5. notes \in NoteSet
    BY <2>1, <2>3, <2>4, InvLedger, EdgeNotesType
  <2>6. b \in 0..MaxMain /\ c \in 0..MaxMain
    BY <2>1, <2>4, InvLedger, BoundsAssumption
  <2>7. Move(c, f) /\ UNCHANGED <<tags, releases>>
    BY <1>4 DEF Reads
  <2> HIDE DEF r, b, v, notes, window
  <2>8. f \in RunSet
    BY <1>2, <2>4, <2>5, <2>6 DEF RunSet, Step, Site, r
  <2>9. /\ f.pc = "preflight" /\ f.at = "start" /\ f.source = c /\ f.base = b
        /\ f.version = v /\ f.notes = notes
    BY <1>2 DEF RunSet, r
  <2>10. ~IsHistorical(v)
    BY <1>4
  <2> HIDE DEF f
  <2>11. /\ "preflight" \in EdgePc /\ "preflight" \in CommitPc /\ "preflight" \notin HoldingPc
    BY DEF CommitPc, EdgePc, Step, HoldingPc
  <2>12. PcOK(c, f)
    BY <1>1, <1>2, <2>9, <2>11 DEF PcOK, RunOK
  <2>13. AttemptOK(c, f)
    BY <1>1, <1>2, <2>9 DEF RunOK, AttemptOK
  <2>14. EdgeOK(c, f)
    BY <1>2, <2>1, <2>4, <2>9, <2>10 DEF EdgeOK
  <2>15. NotesOK(c, f)
    BY <2>3, <2>9 DEF NotesOK
  <2>16. CIOK(c, f) /\ FreshOK(c, f) /\ HoldOK(c, f) /\ SelectedOK(c, f)
    BY <1>2, <2>9, <2>11 DEF CIOK, FreshOK, HoldOK, SelectedOK
  <2>17. RunOK(c, f)
    BY <2>12, <2>13, <2>14, <2>15, <2>16 DEF RunOK
  <2> QED
    BY <1>1, <2>7, <2>8, <2>9, <2>17 DEF ReadStep
<1> QED
  BY <1>3, <1>4 DEF Rebind

\* What the proof of a release says.
LEMMA ReleaseProofSays ==
    ASSUME NEW tag, NEW published, NEW v, NEW s, NEW rs, NEW k
    PROVE  /\ ReleaseProof(tag, published, v, s, rs, k) = "absent" => published = {}
           /\ ReleaseProof(tag, published, v, s, rs, k) = "exact" =>
                 /\ TagIsExact(tag, s)
                 /\ \E r \in published : /\ IdentityReleaseIsExact(r, v, s, FALSE)
                                         /\ RunsAreProven(r.identity, rs, k)
<1> DEFINE proof == ReleaseProof(tag, published, v, s, rs, k)
           r == CHOOSE p \in published : TRUE
           last == IF ~IdentityReleaseIsExact(r, v, s, FALSE) THEN "refused"
                   ELSE IF RunsArePending(r.identity, rs, k) THEN "pending"
                   ELSE IF RunsAreProven(r.identity, rs, k) THEN "exact" ELSE "refused"
           a == tag = NoTag
           n == published = {}
           x == TagIsExact(tag, s)
<1>1. proof = CASE a /\ n            -> "absent"
                [] a /\ ~n           -> "refused"
                [] ~a /\ ~x          -> "refused"
                [] x /\ n            -> "absent"
                [] OTHER -> last
  BY Zenon DEF ReleaseProof
<1>2. last # "absent"
  OBVIOUS
<1>3. last = "exact" => IdentityReleaseIsExact(r, v, s, FALSE) /\ RunsAreProven(r.identity, rs, k)
  OBVIOUS
<1>4. ~n => r \in published
  OBVIOUS
<1>5. "absent" # "refused" /\ "exact" # "absent" /\ "exact" # "refused"
  OBVIOUS
<1> HIDE DEF proof, last, x, a
<1>6. proof = "absent" => n
  <2> HIDE DEF n
  <2> QED
    BY <1>1, <1>2, <1>5, Zenon
<1>7. proof = "exact" => x /\ ~n /\ last = "exact"
  <2> HIDE DEF n
  <2> QED
    BY <1>1, <1>5, Zenon
<1> QED
  BY <1>3, <1>4, <1>6, <1>7 DEF proof, x, n

\* A dispatch selects the oldest edge that nobody has released.
LEMMA PrepareStep ==
    ASSUME Inv, NEW d \in Dispatch, Prepare(d)
    PROVE  Finishes(d, "failure") \/ ReadStep(d)
<1> DEFINE r == run[d]
<1>1. r.pc = "prepare" /\ r.pc # "idle" /\ AtWork(d)
  BY DEF Prepare, AtWork
<1>2. d \in Run /\ d \notin Commit /\ r \in RunSet /\ RunOK(d, r)
  BY RunKinds, RunFacts
<1>3. CASE Fail(d)
  BY <1>1, <1>3, FailFinishes
<1>4. ASSUME NEW v \in Backlog, prove_context(d), Chosen(d, v), Reads,
             Move(d, [run[d] EXCEPT !.pc = "verify", !.version = v,
                           !.source = EdgeSource(v), !.base = historical_release(v).parent])
      PROVE  ReadStep(d)
  <2> DEFINE s == EdgeSource(v)
             b == historical_release(v).parent
             f == [run[d] EXCEPT !.pc = "verify", !.version = v, !.source = s, !.base = b]
  <2>1. v \in Version /\ v \in Nat /\ IsHistorical(v) /\ s = historical_release(v).source
    BY VersionFacts DEF Backlog, EdgeSource
  <2>2. s \in 2..Len(Landed) /\ b \in 1..Len(Landed) /\ FirstV4 = 2 /\ v >= 2
    BY <2>1, HistoricalVersions
  <2>3. Len(Landed) \in Nat /\ Len(Landed) <= Len(main) /\ Len(main) \in Nat /\ Len(main) <= MaxMain
    BY InvLedger, BoundsAssumption DEF Inv, MainInv
  <2>4. s \in 1..Len(main) /\ s \in 0..MaxMain /\ b \in 0..MaxMain
    BY <2>2, <2>3, BoundsAssumption
  <2>5. Window(main, tags, s) = Ready(b, v)
    BY <1>4, <2>1 DEF Chosen
  <2>6. ReadyEdge(main, tags, s, b, v)
    BY <2>4, <2>5, BoundWindow DEF Ready
  <2>7. r.ctx \in 1..Len(main)
    BY <2>3, InvLedger, <1>4 DEF prove_context, Tip
  <2>8. prove_ci(r.ctx) /\ prove_ci(s)
    BY <1>4, <2>1 DEF Chosen, Admitted
  <2>9. \A w \in Version : w < v => ReleasedVersion(w)
    <3> SUFFICES ASSUME NEW w \in Version, w < v PROVE ReleasedVersion(w)
      OBVIOUS
    <3>1. w \in TerminalV3..v - 1
      BY <2>1, <2>2, VersionFacts DEF TerminalV3
    <3>2. prove_release(w, EdgeSource(w)) = "exact"
      BY <1>4, <3>1 DEF Chosen, Oldest
    <3>3. /\ TagIsExact(tags[w], EdgeSource(w))
          /\ \E q \in Published(w) : /\ IdentityReleaseIsExact(q, w, EdgeSource(w), FALSE)
                                     /\ RunsAreProven(q.identity, records, ci)
      BY <3>2, ReleaseProofSays DEF prove_release
    <3> QED
      BY <3>3 DEF TagIsExact, ReleasedVersion
  <2>10. Published(v) = {}
    BY <1>4, ReleaseProofSays DEF Chosen, Oldest, prove_release
  <2>11. Move(d, f) /\ UNCHANGED <<tags, releases>>
    BY <1>4 DEF Reads
  <2> HIDE DEF s, b, r
  <2>12. f \in RunSet
    BY <1>2, <2>1, <2>4 DEF RunSet, Step, r
  <2>13. /\ f.pc = "verify" /\ f.version = v /\ f.source = s /\ f.base = b
         /\ f.ctx = r.ctx /\ f.at = r.at
    BY <1>2 DEF RunSet, r
  <2> HIDE DEF f
  <2>14. /\ "verify" \in SelectedPc /\ "verify" \in DispatchPc
         /\ "verify" \notin HoldingPc /\ "verify" \notin EdgePc
    BY DEF DispatchPc, SelectedPc, EdgePc, Step, HoldingPc
  <2>15. PcOK(d, f)
    BY <1>1, <1>2, <2>13, <2>14 DEF PcOK, RunOK
  <2>16. AttemptOK(d, f)
    BY <1>1, <1>2, <2>13 DEF RunOK, AttemptOK
  <2>17. EdgeOK(d, f)
    BY <2>1, <2>4, <2>6, <2>13 DEF EdgeOK, ReadyEdge
  <2>18. NotesOK(d, f) /\ FreshOK(d, f) /\ HoldOK(d, f)
    BY <2>13, <2>14 DEF NotesOK, FreshOK, HoldOK
  <2>19. CIOK(d, f)
    BY <2>7, <2>8, <2>13 DEF CIOK
  <2>20. SelectedOK(d, f)
    BY <2>9, <2>10, <2>13 DEF SelectedOK
  <2>21. RunOK(d, f)
    BY <2>15, <2>16, <2>17, <2>18, <2>19, <2>20 DEF RunOK
  <2> QED
    BY <1>1, <2>11, <2>12, <2>13, <2>21 DEF ReadStep
<1> QED
  BY <1>3, <1>4 DEF Prepare

\* A dispatch proves its selection again and renders the notes of its edge.
LEMMA ReverifyStep ==
    ASSUME Inv, NEW d \in Dispatch, Reverify(d)
    PROVE  Finishes(d, "failure") \/ ReadStep(d)
<1> DEFINE r == run[d]
           notes == Notes(main, tags, Source(d), run[d].base, run[d].version)
           f == [run[d] EXCEPT !.pc = "preflight", !.notes = notes]
<1>1. r.pc = "reverify" /\ r.pc # "idle" /\ AtWork(d)
  BY DEF Reverify, AtWork
<1>2. d \in Run /\ d \notin Commit /\ r \in RunSet /\ RunOK(d, r)
  BY RunKinds, RunFacts
<1>3. CASE Fail(d)
  BY <1>1, <1>3, FailFinishes
<1>4. CASE Verified(d) /\ Move(d, f) /\ Reads
  <2>1. Window(main, tags, r.source) = Ready(r.base, r.version)
    BY <1>4 DEF Verified, Binding, Source
  <2>2. notes = EdgeNotes(main, r.base, r.source, r.version)
    BY <2>1, NotesOfWindow DEF Source
  <2>3. /\ "reverify" \in SelectedPc /\ "preflight" \in SelectedPc /\ "preflight" \in EdgePc
        /\ "preflight" \in DispatchPc /\ "preflight" \notin HoldingPc
    BY DEF DispatchPc, SelectedPc, EdgePc, Step, HoldingPc
  <2>4. OnEdge(d, r) /\ EdgeOK(d, r)
    BY <1>1, <1>2, <2>3 DEF OnEdge, RunOK
  <2>5. /\ r.source \in 1..Len(main) /\ r.base \in 1..Len(main)
        /\ BindsOneFragment(main, r.base, r.source)
    BY <2>4 DEF EdgeOK
  <2>6. r.version \in Version
    BY <1>2 DEF RunSet
  <2>7. notes \in NoteSet
    BY <2>2, <2>5, <2>6, InvLedger, EdgeNotesType
  <2>8. Move(d, f) /\ UNCHANGED <<tags, releases>>
    BY <1>4 DEF Reads
  <2> HIDE DEF r, notes
  <2>9. f \in RunSet
    BY <1>2, <2>7 DEF RunSet, Step, r
  <2>10. /\ f.pc = "preflight" /\ f.ctx = r.ctx /\ f.source = r.source /\ f.base = r.base
         /\ f.version = r.version /\ f.notes = notes /\ f.at = r.at
    BY <1>2 DEF RunSet, r
  <2> HIDE DEF f
  <2>11. PcOK(d, f)
    BY <1>1, <1>2, <2>3, <2>10 DEF PcOK, RunOK
  <2>12. AttemptOK(d, f)
    BY <1>1, <1>2, <2>10 DEF RunOK, AttemptOK
  <2>13. EdgeOK(d, f)
    BY <2>4, <2>10 DEF EdgeOK
  <2>14. NotesOK(d, f)
    BY <2>2, <2>10 DEF NotesOK
  <2>15. FreshOK(d, f) /\ HoldOK(d, f)
    BY <2>3, <2>10 DEF FreshOK, HoldOK
  <2>16. CIOK(d, f)
    BY <1>1, <1>2, <2>3, <2>10 DEF RunOK, CIOK
  <2>17. SelectedOK(d, f)
    BY <1>1, <1>2, <2>3, <2>10 DEF RunOK, SelectedOK
  <2>18. RunOK(d, f)
    BY <2>11, <2>12, <2>13, <2>14, <2>15, <2>16, <2>17 DEF RunOK
  <2> QED
    BY <1>1, <2>8, <2>9, <2>10, <2>18 DEF ReadStep
<1> QED
  BY <1>3, <1>4 DEF Reverify

-----------------------------------------------------------------------------
(***************************************************************************)
(* Writes to the release a run holds.                                      *)
(***************************************************************************)

\* What a bound run signs is well formed, and its attempt owes it.
LEMMA IdentityOfSound ==
    ASSUME Inv, NEW c \in Run, NEW r \in RunSet, RunOK(c, r), r.pc \in EdgePc,
           NEW e, e = IdentityOf(c, r, Len(records[c]))
    PROVE  e \in IdentitySet /\ IdentityIsOwed(e)
<1> DEFINE v == r.version
           k == Len(records[c])
           x == ExecutionOf(c, r)
<1>1. /\ EdgeOK(c, r) /\ NotesOK(c, r) /\ AttemptOK(c, r) /\ CIOK(c, r)
      /\ OnEdge(c, r) /\ r.pc # "idle" /\ r.pc \in SelectedPc
  BY DEF RunOK, OnEdge, EdgePc, SelectedPc
<1>2. /\ v - 1 \in Version /\ r.source \in 1..Len(main) /\ r.base \in 1..Len(main)
      /\ BindsOneFragment(main, r.base, r.source)
      /\ c \in Dispatch => IsHistorical(v)
      /\ c \notin Dispatch => ~IsHistorical(v) /\ r.source = c
  BY <1>1 DEF EdgeOK
<1>3. r.version \in Version /\ v \in Nat /\ v - 1 \in Nat
  BY <1>2, VersionFacts DEF RunSet
<1>4. r.notes \in NoteSet
  BY <1>1, <1>2, <1>3, InvLedger, EdgeNotesType DEF NotesOK
<1>5. r.source \in Commit /\ r.base \in 0..MaxMain
  BY <1>2, InvLedger, BoundsAssumption DEF Commit
<1>6. /\ records[c] \in Seq(AttemptSet) /\ k \in Nat /\ k > 0
      /\ records[c][k].status = PendingStatus /\ AttemptsOK(c, records[c])
  BY <1>1 DEF Inv, RecordInv, AttemptOK
<1>7. x \in Commit /\ ci[x] = "success" /\ ci[r.source] = "success"
  <2>1. CASE c \in Dispatch
    <3>1. r.ctx \in 1..Len(main) /\ prove_ci(r.ctx) /\ prove_ci(r.source)
      BY <1>1, <2>1 DEF CIOK
    <3> QED
      BY <2>1, <3>1, ProveCI, InvLedger, BoundsAssumption DEF ExecutionOf, Commit
  <2>2. CASE c \notin Dispatch
    <3>1. c \in Commit /\ ci[c] = "success"
      BY <1>6, <2>2, RunKinds DEF Inv, RecordInv
    <3> QED
      BY <1>2, <2>2, <3>1 DEF ExecutionOf
  <2> QED
    BY <2>1, <2>2
<1>8. records[c][k].head = x
  <2>1. CASE c \in Dispatch
    <3>1. Len(records[c]) <= 1
      BY <1>6, <2>1, Zenon DEF AttemptsOK
    <3>2. k = 1
      <4>1. k \in Nat /\ k > 0 /\ k <= 1
        BY <1>6, <3>1
      <4> HIDE DEF k
      <4> QED
        BY <4>1
    <3> QED
      BY <1>1, <2>1, <3>2 DEF AttemptOK, ExecutionOf
  <2>2. CASE c \notin Dispatch
    BY <1>2, <1>6, <2>2, RunKinds DEF AttemptsOK, ExecutionOf
  <2> QED
    BY <2>1, <2>2
<1>9. /\ records[c][k].event = PublisherEvent(v)
      /\ records[c][k].workflow = PublisherWorkflow(v)
  BY <1>2, <1>6 DEF AttemptsOK, PublisherEvent, PublisherWorkflow
<1>10. x \in 0..MaxMain
  BY <1>7, BoundsAssumption DEF Commit
<1>11. PublisherEvent(v) \in EventSet /\ PublisherWorkflow(v) \in WorkflowSet /\ RepositoryOf(v) \in {OldName, NewName}
  BY PublisherTypes
<1>12. EpochOf(v) \in 1..4
  BY <1>3, EpochType
<1>13. r.draft \in Nat
  BY DEF RunSet
<1> DEFINE p == Publisher(c, k, v, x)
<1>14. p \in PublisherSet
  BY <1>6, <1>10, <1>11 DEF Publisher, PublisherSet
<1>15. /\ p.run = c /\ p.attempt = k /\ p.head = x
       /\ p.event = PublisherEvent(v) /\ p.workflow = PublisherWorkflow(v)
  BY DEF Publisher
<1>16. e = [epoch |-> EpochOf(v), repository |-> RepositoryOf(v), version |-> v,
            source |-> r.source, base |-> [version |-> v - 1, source |-> r.base],
            notes |-> r.notes, release |-> r.draft,
            main |-> [source |-> r.source, attempt |-> 1],
            publisher |-> p, execution |-> x]
  BY DEF IdentityOf, Identity
<1> HIDE DEF p, v, k, x
<1>17. e \in IdentitySet
  BY <1>3, <1>4, <1>5, <1>10, <1>11, <1>12, <1>13, <1>14, <1>16 DEF IdentitySet, v
<1>18. /\ e.publisher = p /\ e.source = r.source /\ e.execution = x /\ e.version = v
  BY <1>16
<1>19. run_repository(v, NewName, TRUE)
  BY DEF run_repository, metadata_repository, NewName, NoName, OldName
<1>20. PublisherRecordAgrees(e, records[c][k])
  BY <1>8, <1>9, <1>18, <1>19 DEF PublisherRecordAgrees
<1>21. MainRecordsAgree(e, ci)
  BY <1>7, <1>18 DEF MainRecordsAgree
<1>22. e.publisher.run = c /\ e.publisher.attempt = k /\ k \in 1..k /\ k = Len(records[c])
  BY <1>6, <1>15, <1>18 DEF k
<1>23. PublisherRecord(e, records) = records[c][k]
  BY <1>22 DEF PublisherRecord
<1>24. IdentityIsOwed(e)
  BY <1>5, <1>7, <1>18, <1>20, <1>21, <1>22, <1>23 DEF IdentityIsOwed
<1> QED
  BY <1>17, <1>24

\* The record a run holds is the one with its id.
LEMMA HeldRecord ==
    ASSUME Inv, NEW c \in Run, run[c].pc \in HoldingPc
    PROVE  \E q \in releases :
              /\ HeldBy(c, run[c], q) /\ Record(run[c].draft) = q /\ q \in ReleaseSet
              /\ {p \in releases : p.id # q.id} = releases \ {q}
<1>1. PICK q \in releases : HeldBy(c, run[c], q)
  BY RunFacts DEF RunOK, HoldOK
<1>2. q.id = run[c].draft
  BY <1>1 DEF HeldBy
<1>3. \A p \in releases : p.id = q.id => p = q
  BY DEF Inv, ReleaseInv
<1>4. Record(run[c].draft) = q
  BY <1>2, <1>3 DEF Record
<1>5. {p \in releases : p.id # q.id} = releases \ {q}
  BY <1>3
<1>6. q \in ReleaseSet
  BY DEF Inv, ReleaseInv
<1> QED
  BY <1>1, <1>4, <1>5, <1>6

\* All of RunOK but what it says of the release records.
RunCore(c, r) ==
    /\ PcOK(c, r) /\ AttemptOK(c, r) /\ EdgeOK(c, r)
    /\ NotesOK(c, r) /\ CIOK(c, r) /\ SelectedOK(c, r)

\* The run rewrites its draft, which stays the draft it holds.
DraftPatch(c) ==
    \E q \in releases : \E x \in ReleaseSet : \E f \in RunSet :
       /\ HeldBy(c, run[c], q) /\ run[c].pc \in HoldingPc
       /\ x.id = q.id /\ x.version = q.version /\ x.target = q.target /\ x.bot = q.bot
       /\ x.draft
       /\ x.identity # NoAsset => IdentityIsOwed(x.identity)
       /\ releases' = (releases \ {q}) \cup {x} /\ UNCHANGED tags
       /\ Move(c, f) /\ f.pc \in HoldingPc /\ HeldBy(c, f, x) /\ RunCore(c, f)

\* The run publishes it.
PublishPatch(c) ==
    \E q \in releases : \E x \in ReleaseSet : \E f \in RunSet :
       /\ HeldBy(c, run[c], q) /\ run[c].pc = "publish"
       /\ IdentityReleaseIsExact(q, run[c].version, Source(c), TRUE)
       /\ Boundary(c) /\ Published(run[c].version) = {}
       /\ x = [q EXCEPT !.draft = FALSE, !.immutable = (setting = "on")]
       /\ releases' = (releases \ {q}) \cup {x} /\ UNCHANGED tags
       /\ Move(c, f) /\ f.pc = "published" /\ RunCore(c, f)

\* A move among the pcs of a bound edge keeps what does not speak of releases.
LEMMA EdgeMove ==
    ASSUME Inv, NEW c \in Run, run[c].pc \in EdgePc, NEW pc \in EdgePc,
           c \in Dispatch => pc \in DispatchPc,
           NEW f, f = [run[c] EXCEPT !.pc = pc]
    PROVE  /\ f \in RunSet /\ f.pc = pc /\ RunCore(c, f)
           /\ f.source = run[c].source /\ f.base = run[c].base /\ f.version = run[c].version
           /\ f.notes = run[c].notes /\ f.draft = run[c].draft /\ f.ctx = run[c].ctx
<1> DEFINE r == run[c]
<1>1. r \in RunSet /\ RunOK(c, r) /\ r.pc \in EdgePc
  BY RunFacts
<1>2. pc \in Step /\ pc \in CommitPc /\ pc # "idle" /\ pc \in SelectedPc /\ r.pc \in SelectedPc
  BY <1>1 DEF Step, CommitPc, EdgePc, SelectedPc
<1>3. f \in RunSet
  BY <1>1, <1>2 DEF RunSet
<1>4. /\ f.pc = pc /\ f.ctx = r.ctx /\ f.source = r.source /\ f.base = r.base
      /\ f.version = r.version /\ f.notes = r.notes /\ f.at = r.at /\ f.draft = r.draft
  BY <1>1 DEF RunSet
<1>5. r.pc # "idle"
  BY <1>1 DEF EdgePc
<1> HIDE DEF r
<1>6. PcOK(c, f)
  BY <1>1, <1>2, <1>4, <1>5 DEF PcOK, RunOK
<1>7. AttemptOK(c, f)
  BY <1>1, <1>2, <1>4, <1>5 DEF RunOK, AttemptOK
<1>8. EdgeOK(c, f)
  BY <1>1, <1>2, <1>4 DEF RunOK, EdgeOK, OnEdge
<1>9. NotesOK(c, f) /\ CIOK(c, f)
  BY <1>1, <1>2, <1>4 DEF RunOK, NotesOK, CIOK
<1>10. SelectedOK(c, f)
  BY <1>1, <1>2, <1>4 DEF RunOK, SelectedOK
<1> QED
  BY <1>3, <1>4, <1>6, <1>7, <1>8, <1>9, <1>10 DEF RunCore, r

\* The body of the draft is written over a proven boundary.
LEMMA BodyStep ==
    ASSUME Inv, NEW c \in Run, Body(c)
    PROVE  Finishes(c, "failure") \/ DraftPatch(c)
<1>1. run[c].pc = "body" /\ run[c].pc # "idle" /\ run[c].pc \in EdgePc /\ run[c].pc \in HoldingPc
  BY DEF Body, EdgePc, HoldingPc
<1>2. CASE Fail(c)
  BY <1>1, <1>2, FailFinishes
<1>3. CASE ~Fail(c)
  <2>1. PICK q \in releases : /\ HeldBy(c, run[c], q) /\ Record(run[c].draft) = q /\ q \in ReleaseSet
                              /\ {p \in releases : p.id # q.id} = releases \ {q}
    BY <1>1, HeldRecord
  <2> DEFINE body == NotesBody(run[c].notes)
             x == [q EXCEPT !.body = body]
             f == [run[c] EXCEPT !.pc = "listed"]
  <2>2. Goto(c, "listed") /\ Patch(q.id, x) /\ UNCHANGED tags
    BY <1>3, <2>1 DEF Body
  <2>3. releases' = (releases \ {q}) \cup {x} /\ Move(c, f)
    BY <2>1, <2>2 DEF Patch, Goto
  <2>4. run[c] \in RunSet /\ RunOK(c, run[c])
    BY RunFacts
  <2>5. run[c].notes \in NoteSet
    <3>1. NotesOK(c, run[c]) /\ EdgeOK(c, run[c]) /\ OnEdge(c, run[c])
      BY <1>1, <2>4 DEF RunOK, OnEdge
    <3>2. run[c].version \in Version
      BY <2>4 DEF RunSet
    <3> QED
      BY <1>1, <3>1, <3>2, InvLedger, EdgeNotesType DEF NotesOK, EdgeOK
  <2>6. body \in BodySet
    BY <2>5 DEF NotesBody, BodySet
  <2>7. "listed" \in EdgePc /\ "listed" \in DispatchPc /\ "listed" \in HoldingPc
    BY DEF EdgePc, DispatchPc, HoldingPc, Step
  <2>8. /\ f \in RunSet /\ f.pc = "listed" /\ RunCore(c, f)
        /\ f.source = run[c].source /\ f.version = run[c].version
        /\ f.notes = run[c].notes /\ f.draft = run[c].draft
    BY <1>1, <2>7, EdgeMove
  <2> HIDE DEF body, f
  <2>9. /\ x \in ReleaseSet /\ x.body = body
        /\ x.id = q.id /\ x.version = q.version /\ x.target = q.target /\ x.bot = q.bot
        /\ x.draft = q.draft /\ x.identity = q.identity /\ x.bundle = q.bundle
    BY <2>1, <2>6 DEF ReleaseSet
  <2> HIDE DEF x
  <2>10. x.draft /\ HeldBy(c, f, x)
    BY <2>1, <2>8, <2>9 DEF HeldBy, body
  <2>11. x.identity # NoAsset => IdentityIsOwed(x.identity)
    BY <2>9 DEF Inv, ReleaseInv
  <2> QED
    BY <1>1, <2>1, <2>2, <2>3, <2>7, <2>8, <2>9, <2>10, <2>11 DEF DraftPatch
<1> QED
  BY <1>2, <1>3

\* The identity is uploaded to the draft, signed by the attempt at work.
LEMMA UploadIdentityStep ==
    ASSUME Inv, NEW c \in Run, UploadIdentity(c)
    PROVE  Finishes(c, "failure") \/ DraftPatch(c)
<1>1. run[c].pc = "upload1" /\ run[c].pc # "idle" /\ run[c].pc \in EdgePc /\ run[c].pc \in HoldingPc
  BY DEF UploadIdentity, EdgePc, HoldingPc
<1>2. CASE Fail(c)
  BY <1>1, <1>2, FailFinishes
<1>3. CASE ~Fail(c)
  <2>1. PICK q \in releases : /\ HeldBy(c, run[c], q) /\ Record(run[c].draft) = q /\ q \in ReleaseSet
                              /\ {p \in releases : p.id # q.id} = releases \ {q}
    BY <1>1, HeldRecord
  <2> DEFINE e == CurrentIdentity(c)
             x == [q EXCEPT !.identity = e]
             f == [run[c] EXCEPT !.pc = "upload2"]
  <2>2. Goto(c, "upload2") /\ Patch(q.id, x) /\ UNCHANGED tags
    BY <1>3, <2>1 DEF UploadIdentity
  <2>3. releases' = (releases \ {q}) \cup {x} /\ Move(c, f)
    BY <2>1, <2>2 DEF Patch, Goto
  <2>4. e = IdentityOf(c, run[c], Len(records[c]))
    BY DEF CurrentIdentity, IdentityOf, ExecutionOf, Execution, Source, Base, Attempt
  <2>5. e \in IdentitySet /\ IdentityIsOwed(e)
    BY <1>1, <2>4, RunFacts, IdentityOfSound
  <2>7. "upload2" \in EdgePc /\ "upload2" \in DispatchPc /\ "upload2" \in HoldingPc
    BY DEF EdgePc, DispatchPc, HoldingPc, Step
  <2>8. /\ f \in RunSet /\ f.pc = "upload2" /\ RunCore(c, f)
        /\ f.source = run[c].source /\ f.base = run[c].base /\ f.version = run[c].version
        /\ f.notes = run[c].notes /\ f.draft = run[c].draft /\ f.ctx = run[c].ctx
    BY <1>1, <2>7, EdgeMove
  <2> HIDE DEF e, f
  <2>9. /\ x \in ReleaseSet /\ x.identity = e
        /\ x.id = q.id /\ x.version = q.version /\ x.target = q.target /\ x.bot = q.bot
        /\ x.draft = q.draft /\ x.body = q.body /\ x.bundle = q.bundle
    BY <2>1, <2>5 DEF ReleaseSet
  <2> HIDE DEF x
  <2>10. IdentityOf(c, f, Len(records[c])) = IdentityOf(c, run[c], Len(records[c]))
    BY <2>8 DEF IdentityOf, ExecutionOf
  <2>11. x.draft /\ HeldBy(c, f, x)
    BY <1>1, <2>1, <2>4, <2>8, <2>9, <2>10 DEF HeldBy
  <2> QED
    BY <1>1, <2>1, <2>2, <2>3, <2>5, <2>7, <2>8, <2>9, <2>11 DEF DraftPatch
<1> QED
  BY <1>2, <1>3

\* Its bundle follows.
LEMMA UploadBundleStep ==
    ASSUME Inv, NEW c \in Run, UploadBundle(c)
    PROVE  Finishes(c, "failure") \/ DraftPatch(c)
<1>1. run[c].pc = "upload2" /\ run[c].pc # "idle" /\ run[c].pc \in EdgePc /\ run[c].pc \in HoldingPc
  BY DEF UploadBundle, EdgePc, HoldingPc
<1>2. CASE Fail(c)
  BY <1>1, <1>2, FailFinishes
<1>3. CASE ~Fail(c)
  <2>1. PICK q \in releases : /\ HeldBy(c, run[c], q) /\ Record(run[c].draft) = q /\ q \in ReleaseSet
                              /\ {p \in releases : p.id # q.id} = releases \ {q}
    BY <1>1, HeldRecord
  <2> DEFINE e == CurrentIdentity(c)
             bundle == Signed(e)
             x == [q EXCEPT !.bundle = bundle]
             f == [run[c] EXCEPT !.pc = "publish"]
  <2>2. Goto(c, "publish") /\ Patch(q.id, x) /\ UNCHANGED tags
    BY <1>3, <2>1 DEF UploadBundle
  <2>3. releases' = (releases \ {q}) \cup {x} /\ Move(c, f)
    BY <2>1, <2>2 DEF Patch, Goto
  <2>4. e = IdentityOf(c, run[c], Len(records[c]))
    BY DEF CurrentIdentity, IdentityOf, ExecutionOf, Execution, Source, Base, Attempt
  <2>5. e \in IdentitySet
    BY <1>1, <2>4, RunFacts, IdentityOfSound
  <2>6. bundle \in BundleSet
    BY <2>5 DEF Signed, BundleSet, IdentitySet
  <2>7. "publish" \in EdgePc /\ "publish" \in DispatchPc /\ "publish" \in HoldingPc
    BY DEF EdgePc, DispatchPc, HoldingPc, Step
  <2>8. /\ f \in RunSet /\ f.pc = "publish" /\ RunCore(c, f)
        /\ f.source = run[c].source /\ f.base = run[c].base /\ f.version = run[c].version
        /\ f.notes = run[c].notes /\ f.draft = run[c].draft /\ f.ctx = run[c].ctx
    BY <1>1, <2>7, EdgeMove
  <2> HIDE DEF bundle, f
  <2>9. /\ x \in ReleaseSet /\ x.bundle = bundle
        /\ x.id = q.id /\ x.version = q.version /\ x.target = q.target /\ x.bot = q.bot
        /\ x.draft = q.draft /\ x.body = q.body /\ x.identity = q.identity
    BY <2>1, <2>6 DEF ReleaseSet
  <2> HIDE DEF x, e
  <2>10. IdentityOf(c, f, Len(records[c])) = IdentityOf(c, run[c], Len(records[c]))
    BY <2>8 DEF IdentityOf, ExecutionOf
  <2>11. x.draft /\ HeldBy(c, f, x)
    BY <1>1, <2>1, <2>4, <2>8, <2>9, <2>10 DEF HeldBy, bundle
  <2>12. x.identity # NoAsset => IdentityIsOwed(x.identity)
    BY <2>9 DEF Inv, ReleaseInv
  <2> QED
    BY <1>1, <2>1, <2>2, <2>3, <2>7, <2>8, <2>9, <2>11, <2>12 DEF DraftPatch
<1> QED
  BY <1>2, <1>3

\* The staged record is published, or the run refuses.
LEMMA PublishStep ==
    ASSUME Inv, NEW c \in Run, Publish(c)
    PROVE  Finishes(c, "failure") \/ PublishPatch(c)
<1>1. run[c].pc = "publish" /\ run[c].pc # "idle" /\ run[c].pc \in EdgePc /\ run[c].pc \in HoldingPc
  BY DEF Publish, EdgePc, HoldingPc
<1>2. CASE Fail(c)
  BY <1>1, <1>2, FailFinishes
<1>3. CASE ~Fail(c)
  <2>1. PICK q \in releases : /\ HeldBy(c, run[c], q) /\ Record(run[c].draft) = q /\ q \in ReleaseSet
                              /\ {p \in releases : p.id # q.id} = releases \ {q}
    BY <1>1, HeldRecord
  <2> DEFINE x == [q EXCEPT !.draft = FALSE, !.immutable = (setting = "on")]
             f == [run[c] EXCEPT !.pc = "published"]
  <2>2. /\ Goto(c, "published") /\ Patch(q.id, x) /\ UNCHANGED tags
        /\ IdentityReleaseIsExact(q, run[c].version, Source(c), TRUE)
        /\ Boundary(c) /\ Published(run[c].version) = {}
    BY <1>3, <2>1 DEF Publish
  <2>3. releases' = (releases \ {q}) \cup {x} /\ Move(c, f)
    BY <2>1, <2>2 DEF Patch, Goto
  <2>4. "published" \in EdgePc /\ "published" \in DispatchPc
    BY DEF EdgePc, DispatchPc, Step
  <2>5. f \in RunSet /\ f.pc = "published" /\ RunCore(c, f)
    BY <1>1, <2>4, EdgeMove
  <2> DEFINE off == FALSE
             on == (setting = "on")
  <2>6. off \in BOOLEAN /\ on \in BOOLEAN
    OBVIOUS
  <2>7. x = [q EXCEPT !.draft = off, !.immutable = on]
    OBVIOUS
  <2> HIDE DEF off, on, x
  <2>8. x \in ReleaseSet
    BY <2>1, <2>6, <2>7 DEF ReleaseSet
  <2> HIDE DEF f
  <2> QED
    BY <1>1, <2>1, <2>2, <2>3, <2>5, <2>8 DEF PublishPatch, x
<1> QED
  BY <1>2, <1>3

\* The run succeeds only over its exact tag and its exact release.
LEMMA SettleStep ==
    ASSUME Inv, NEW c \in Run, Settle(c)
    PROVE  \/ Finishes(c, "failure")
           \/ /\ Finishes(c, "success") /\ run[c].pc = "settle"
              /\ CurrentRelease(c) = "exact" /\ CurrentTag(c) = "exact"
<1>1. run[c].pc = "settle" /\ run[c].pc # "idle"
  BY DEF Settle
<1>2. CASE Fail(c)
  BY <1>1, <1>2, FailFinishes
<1> QED
  BY <1>1, <1>2 DEF Settle, Finishes, Running

-----------------------------------------------------------------------------
(***************************************************************************)
(* The kinds of steps, and that each of them only adds.                    *)
(***************************************************************************)

\* Steps that touch neither tags nor releases nor any run.
Aside ==
    \/ OpenPR \/ MergePR \/ ToggleSetting
    \/ \E c \in Commit : CodeQL(c) \/ CodeQLFails(c)
    \/ UNCHANGED vars

RunStep(c) ==
    \/ Finishes(c, "failure")
    \/ /\ Finishes(c, "success") /\ run[c].pc = "settle"
       /\ CurrentRelease(c) = "exact" /\ CurrentTag(c) = "exact"
    \/ ReadStep(c)
    \/ TagRef(c) \/ Create(c) \/ DraftPatch(c) \/ PublishPatch(c)

StepKind ==
    \/ Aside
    \/ OwnerDraft \/ PrepareTag
    \/ \E c \in Commit : PushCI(c) \/ Rerun(c)
    \/ \E d \in Dispatch : StartDispatch(d)
    \/ \E c \in Run : RunStep(c)

\* Every step of a publisher is one of these.
LEMMA AdvanceIsRunStep ==
    ASSUME Inv, NEW c \in Run, Advance(c)
    PROVE  RunStep(c)
<1>1. CASE MainCI(c)
  BY <1>1, MainCIStep DEF RunStep
<1>2. CASE Wait(c)
  BY <1>2, WaitStep DEF RunStep
<1>3. CASE Timeout(c)
  <2>1. Finishes(c, "failure")
    BY <1>3 DEF Timeout, Finishes, Running, Disturb
  <2> QED
    BY <2>1 DEF RunStep
<1>4. CASE Settings(c)
  BY <1>4, SettingsStep DEF RunStep
<1>5. CASE Rebind(c)
  BY <1>5, RebindStep DEF RunStep
<1>6. CASE Preflight(c)
  BY <1>6, PreflightStep DEF RunStep
<1>7. CASE Confirm(c)
  BY <1>7, ConfirmStep DEF RunStep
<1>8. CASE Tag(c)
  BY <1>8, TagStep DEF RunStep
<1>9. CASE TagRef(c) \/ Create(c)
  BY <1>9 DEF RunStep
<1>10. CASE TagPoll(c)
  BY <1>10, TagPollStep DEF RunStep
<1>11. CASE Release(c)
  BY <1>11, ReleaseStep DEF RunStep
<1>12. CASE Draft(c)
  BY <1>12, DraftStep DEF RunStep
<1>13. CASE Body(c)
  BY <1>13, BodyStep DEF RunStep
<1>14. CASE Listed(c)
  BY <1>14, ListedStep DEF RunStep
<1>15. CASE UploadIdentity(c)
  BY <1>15, UploadIdentityStep DEF RunStep
<1>16. CASE UploadBundle(c)
  BY <1>16, UploadBundleStep DEF RunStep
<1>17. CASE Publish(c)
  BY <1>17, PublishStep DEF RunStep
<1>18. CASE ReadBack(c)
  BY <1>18, ReadBackStep DEF RunStep
<1>19. CASE Settle(c)
  BY <1>19, SettleStep DEF RunStep
<1> QED
  BY <1>1, <1>2, <1>3, <1>4, <1>5, <1>6, <1>7, <1>8, <1>9, <1>10, <1>11, <1>12, <1>13, <1>14,
     <1>15, <1>16, <1>17, <1>18, <1>19 DEF Advance

\* Every step of the publishers and of the recovery is of one of the kinds.
LEMMA StepKinds ==
    ASSUME Inv, [RecoveryNext]_vars
    PROVE  StepKind
<1>1. CASE UNCHANGED vars
  BY <1>1 DEF StepKind, Aside
<1>2. CASE PrepareTag
  BY <1>2 DEF StepKind
<1>3. ASSUME NEW d \in Dispatch, StartDispatch(d) PROVE StepKind
  BY <1>3 DEF StepKind
<1>4. CASE People
  <2>1. CASE OpenPR \/ MergePR \/ ToggleSetting
    BY <2>1 DEF StepKind, Aside
  <2>2. CASE OwnerDraft
    BY <2>2 DEF StepKind
  <2>3. ASSUME NEW c \in Commit, Rerun(c) PROVE StepKind
    BY <2>3 DEF StepKind
  <2>4. ASSUME NEW c \in Commit, CodeQLFails(c) PROVE StepKind
    BY <2>4 DEF StepKind, Aside
  <2>5. ASSUME NEW c \in Run, Kill(c) PROVE StepKind
    <3>1. Finishes(c, "failure")
      BY <2>5 DEF Kill, Finishes, Disturb
    <3> QED
      BY <3>1 DEF StepKind, RunStep
  <2> QED
    BY <1>4, <2>1, <2>2, <2>3, <2>4, <2>5 DEF People
<1>5. ASSUME NEW c \in Run, RunStep(c) PROVE StepKind
  BY <1>5 DEF StepKind
<1>6. CASE RecoveryPlatform
  <2>1. CASE Platform
    <3>1. ASSUME NEW c \in Commit, PushCI(c) PROVE StepKind
      BY <3>1 DEF StepKind
    <3>2. ASSUME NEW c \in Commit, CodeQL(c) PROVE StepKind
      BY <3>2 DEF StepKind, Aside
    <3>3. ASSUME NEW c \in Run, Advance(c) PROVE StepKind
      BY <1>5, <3>3, AdvanceIsRunStep
    <3> QED
      BY <2>1, <3>1, <3>2, <3>3 DEF Platform
  <2>2. ASSUME NEW d \in Dispatch, Begin(d) \/ Prepare(d) \/ Verify(d) \/ Reverify(d)
        PROVE  StepKind
    <3>1. d \in Run
      BY RunKinds
    <3>2. RunStep(d)
      BY <2>2, BeginStep, PrepareStep, VerifyStep, ReverifyStep DEF RunStep
    <3> QED
      BY <1>5, <3>1, <3>2
  <2> QED
    BY <1>6, <2>1, <2>2 DEF RecoveryPlatform
<1> QED
  BY <1>1, <1>2, <1>3, <1>4, <1>6 DEF RecoveryNext

\* A step aside keeps tags, releases and runs; main and CI only grow.
LEMMA AsideKeeps ==
    ASSUME Inv, Aside
    PROVE  /\ UNCHANGED <<ci, tags, releases, run, records>>
           /\ MainInv' /\ MainGrows /\ CIInv' /\ SuccessStays
<1>1. /\ main \in Seq(Tree) /\ Len(main) \in 1..MaxMain /\ Len(main) \in Nat
      /\ pr \in Proposal \cup {NoPR}
      /\ pr # NoPR => Len(main) < MaxMain
      /\ Len(Landed) <= Len(main) /\ Len(Landed) \in Nat
      /\ \A i \in 1..Len(Landed) : main[i] = Landed[i]
  BY BoundsAssumption DEF Inv, MainInv
<1>2. ci \in [Commit -> {"none", "success", "failure"}]
      /\ codeql \in [Commit -> {"pending", "run", "success", "failure"}]
      /\ \A c \in FrozenSources : ci[c] = "success"
  BY DEF Inv, CIInv
<1>3. ASSUME UNCHANGED <<main, pr>> PROVE MainInv' /\ MainGrows
  BY <1>1, <1>3 DEF MainInv, MainGrows
<1>4. ASSUME UNCHANGED <<ci, codeql>> PROVE CIInv' /\ SuccessStays
  BY <1>2, <1>4 DEF CIInv, SuccessStays
<1>5. CASE OpenPR
  <2>1. MainInv' /\ MainGrows
    BY <1>1, <1>5 DEF MainInv, MainGrows, OpenPR, Tip
  <2> QED
    BY <1>4, <1>5, <2>1 DEF OpenPR
<1>6. CASE MergePR
  <2>1. main' = Append(main, pr) /\ pr' = NoPR /\ pr \in Tree /\ Len(main) < MaxMain
    BY <1>1, <1>6, BoundsAssumption DEF MergePR
  <2>2. /\ main' \in Seq(Tree) /\ Len(main') = Len(main) + 1
        /\ \A i \in 1..Len(main) : main'[i] = main[i]
    BY <1>1, <2>1
  <2>3. MainInv'
    BY <1>1, <2>1, <2>2, BoundsAssumption DEF MainInv
  <2>4. MainGrows
    BY <1>1, <2>2 DEF MainGrows
  <2> QED
    BY <1>4, <1>6, <2>3, <2>4 DEF MergePR
<1>7. CASE ToggleSetting
  BY <1>3, <1>4, <1>7 DEF ToggleSetting
<1>8. ASSUME NEW c \in Commit, CodeQL(c)
      PROVE  codeql' \in [Commit -> {"pending", "run", "success", "failure"}]
             /\ \A d \in Commit : codeql[d] = "success" => codeql'[d] = "success"
  BY <1>2, <1>8 DEF CodeQL
<1>9. ASSUME NEW c \in Commit, CodeQLFails(c)
      PROVE  codeql' \in [Commit -> {"pending", "run", "success", "failure"}]
             /\ \A d \in Commit : codeql[d] = "success" => codeql'[d] = "success"
  BY <1>2, <1>9 DEF CodeQLFails
<1>10. ASSUME NEW c \in Commit, CodeQL(c) \/ CodeQLFails(c)
       PROVE  CIInv' /\ SuccessStays /\ UNCHANGED <<main, pr, ci, tags, releases, run, records>>
  <2>1. UNCHANGED <<main, pr, ci, tags, releases, run, records>>
    BY <1>10 DEF CodeQL, CodeQLFails
  <2> QED
    BY <1>2, <1>8, <1>9, <1>10, <2>1 DEF CIInv, SuccessStays
<1>11. CASE UNCHANGED vars
  BY <1>3, <1>4, <1>11 DEF vars
<1> QED
  BY <1>3, <1>5, <1>6, <1>7, <1>10, <1>11 DEF Aside

\* Attempts that are kept as they are.
LEMMA SameRecordsGrow ==
    ASSUME Inv, UNCHANGED records
    PROVE  RecordsGrow
<1>1. \A c \in Run : Len(records[c]) \in Nat
  BY DEF Inv, RecordInv
<1> QED
  BY <1>1 DEF RecordsGrow

\* A main that is left alone grows by nothing.
LEMMA SameMainGrows ==
    ASSUME Inv, UNCHANGED main
    PROVE  MainGrows
<1>1. Len(main) \in Nat
  BY InvLedger
<1> QED
  BY <1>1 DEF MainGrows

\* A run's records grow by one function update.
LEMMA OneRecordGrows ==
    ASSUME Inv, NEW c \in Run, NEW s \in Seq(AttemptSet), records' = [records EXCEPT ![c] = s],
           Len(records[c]) <= Len(s),
           \A i \in 1..Len(records[c]) :
             /\ s[i].head = records[c][i].head
             /\ s[i].event = records[c][i].event
             /\ s[i].workflow = records[c][i].workflow
             /\ records[c][i].status = "completed" => s[i] = records[c][i]
    PROVE  RecordsGrow
<1>1. records \in [Run -> Seq(AttemptSet)]
  BY DEF Inv, RecordInv
<1>2. \A d \in Run : Len(records[d]) \in Nat
  BY <1>1
<1>3. \A d \in Run : records'[d] = IF d = c THEN s ELSE records[d]
  BY <1>1
<1>4. ASSUME NEW d \in Run, d = c
      PROVE  /\ Len(records[d]) <= Len(records'[d])
             /\ \A i \in 1..Len(records[d]) :
                   /\ records'[d][i].head = records[d][i].head
                   /\ records'[d][i].event = records[d][i].event
                   /\ records'[d][i].workflow = records[d][i].workflow
                   /\ records[d][i].status = "completed" => records'[d][i] = records[d][i]
  BY <1>3, <1>4
<1>5. ASSUME NEW d \in Run, d # c
      PROVE  /\ Len(records[d]) <= Len(records'[d])
             /\ \A i \in 1..Len(records[d]) :
                   /\ records'[d][i].head = records[d][i].head
                   /\ records'[d][i].event = records[d][i].event
                   /\ records'[d][i].workflow = records[d][i].workflow
                   /\ records[d][i].status = "completed" => records'[d][i] = records[d][i]
  BY <1>2, <1>3, <1>5
<1> QED
  BY <1>4, <1>5 DEF RecordsGrow

\* The end of an attempt completes its record.
LEMMA FinishedRecord ==
    ASSUME Inv, NEW c \in Run, NEW conclusion \in {"success", "failure"}, Finishes(c, conclusion)
    PROVE  LET k == Len(records[c])
               s == [records[c] EXCEPT ![k] = Completed(conclusion, records[c][k])]
           IN  /\ records' = [records EXCEPT ![c] = s]
               /\ k \in Nat /\ k > 0
               /\ records[c][k] \in AttemptSet /\ records[c][k].status = PendingStatus
               /\ s \in Seq(AttemptSet) /\ Len(s) = k
               /\ s[k].status = "completed" /\ s[k].conclusion = conclusion
               /\ s[k].head = records[c][k].head
               /\ s[k].event = records[c][k].event
               /\ s[k].workflow = records[c][k].workflow
               /\ \A i \in 1..k : i # k => s[i] = records[c][i]
<1> DEFINE k == Len(records[c])
           x == Completed(conclusion, records[c][k])
           s == [records[c] EXCEPT ![k] = x]
<1>1. records \in [Run -> Seq(AttemptSet)] /\ records[c] \in Seq(AttemptSet)
  BY DEF Inv, RecordInv
<1>2. k \in Nat
  BY <1>1
<1>3. run[c].pc # "idle" /\ AttemptOK(c, run[c])
  BY RunFacts DEF Finishes, Running, RunOK
<1>4. k > 0 /\ records[c][k].status = PendingStatus
  BY <1>3 DEF AttemptOK
<1>5. records[c][k] \in AttemptSet
  BY <1>1, <1>2, <1>4, ElementOfSeq
<1>6. /\ x \in AttemptSet /\ x.status = "completed" /\ x.conclusion = conclusion
      /\ x.head = records[c][k].head /\ x.event = records[c][k].event
      /\ x.workflow = records[c][k].workflow
  BY <1>5 DEF Completed, AttemptSet
<1> HIDE DEF x
<1>7. /\ s \in Seq(AttemptSet) /\ Len(s) = k
      /\ \A j \in 1..k : s[j] = IF j = k THEN x ELSE records[c][j]
  <2>1. k \in 1..Len(records[c])
    BY <1>2, <1>4
  <2> QED
    BY <1>1, <1>6, <2>1, ExceptSeq
<1>8. records' = [records EXCEPT ![c] = s]
  BY <1>1 DEF Finishes, End, Attempt, x
<1>9. s[k] = x
  BY <1>2, <1>4, <1>7
<1> HIDE DEF s, k
<1>10. \A i \in 1..k : i # k => s[i] = records[c][i]
  BY <1>7
<1> QED
  BY <1>2, <1>4, <1>5, <1>6, <1>7, <1>8, <1>9, <1>10 DEF k, s, x

-----------------------------------------------------------------------------
(***************************************************************************)
(* What does not speak of the step stays as it was.                        *)
(***************************************************************************)

\* A ledger of n tags stays one while main grows.
LEMMA LedgerGrows ==
    ASSUME Inv, MainGrows, MainInv', NEW n \in Version, LedgerUpTo(main, tags, n)
    PROVE  LedgerUpTo(main', tags, n)
<1>1. /\ Len(main) \in Nat /\ Len(main') \in Nat /\ Len(main) <= Len(main')
      /\ \A i \in 1..Len(main) : main'[i] = main[i]
  BY InvLedger DEF MainGrows, MainInv
<1>2. n \in Nat /\ n >= 1
  BY VersionFacts
<1>3. \A v \in 1..n : tags[v].source \in v..Len(main) /\ tags[v].source \in v..Len(main')
                      /\ tags[v].source \in 1..Len(main)
  BY <1>1, <1>2 DEF LedgerUpTo
<1>4. ASSUME NEW v \in 2..n
      PROVE  BindsOneFragment(main', tags[v - 1].source, tags[v].source)
  <2>1. v \in 1..n /\ v - 1 \in 1..n
    BY <1>2
  <2>2. /\ main'[tags[v].source] = main[tags[v].source]
        /\ main'[tags[v - 1].source] = main[tags[v - 1].source]
    BY <1>1, <1>3, <2>1
  <2>3. BindsOneFragment(main, tags[v - 1].source, tags[v].source)
    BY DEF LedgerUpTo
  <2> QED
    BY <2>2, <2>3, EdgeOfTrees
<1> QED
  BY <1>3, <1>4 DEF LedgerUpTo

\* What a run knows but for the release records it may write stays true of it
\* while its attempts stay and nobody else publishes its edge.
LEMMA CoreStays ==
    ASSUME Inv, Evolves, MainInv', NEW d \in Run, NEW r \in RunSet, RunCore(d, r),
           records'[d] = records[d],
           d \in Dispatch /\ r.pc \in SelectedPc =>
              \A q \in releases' : q.version = r.version /\ ~q.draft =>
                                      q \in releases \/ q.identity.publisher.run = d
    PROVE  RunCore(d, r)'
<1>1. /\ Len(main) \in Nat /\ Len(main') \in Nat /\ Len(main) <= Len(main')
      /\ Len(main') <= MaxMain
      /\ \A i \in 1..Len(main) : main'[i] = main[i]
  BY InvLedger, BoundsAssumption DEF Evolves, MainGrows, MainInv
<1>2. PcOK(d, r)'
  BY DEF RunCore, PcOK
<1>3. AttemptOK(d, r)'
  BY DEF RunCore, AttemptOK
<1>4. EdgeOK(d, r)'
  <2> SUFFICES ASSUME OnEdge(d, r)
               PROVE  EdgeOK(d, r)'
    BY DEF EdgeOK, OnEdge
  <2>1. EdgeOK(d, r)
    BY DEF RunCore
  <2>2. r.source \in 1..Len(main) /\ r.base \in 1..Len(main) /\ BindsOneFragment(main, r.base, r.source)
    BY <2>1 DEF EdgeOK
  <2>3. BindsOneFragment(main', r.base, r.source)
    BY <1>1, <2>2, EdgeOfTrees
  <2>4. r.source \in 1..Len(main') /\ r.base \in 1..Len(main')
    BY <1>1, <2>2
  <2>5. tags'[r.version - 1] = tags[r.version - 1]
    BY <2>1 DEF EdgeOK, Evolves, TagsStay
  <2> QED
    BY <2>1, <2>3, <2>4, <2>5 DEF EdgeOK
<1>5. NotesOK(d, r)'
  <2> SUFFICES ASSUME r.pc \in EdgePc
               PROVE  NotesOK(d, r)'
    BY DEF NotesOK
  <2>1. EdgeOK(d, r) /\ NotesOK(d, r) /\ OnEdge(d, r)
    BY DEF RunCore, OnEdge
  <2>2. r.source \in 1..Len(main) /\ r.base \in 1..Len(main)
    BY <2>1 DEF EdgeOK
  <2>3. EdgeNotes(main', r.base, r.source, r.version) = EdgeNotes(main, r.base, r.source, r.version)
    BY <1>1, <2>2, NotesOfTrees
  <2> QED
    BY <2>1, <2>3 DEF NotesOK
<1>6. CIOK(d, r)'
  <2> SUFFICES ASSUME d \in Dispatch, r.pc \in SelectedPc
               PROVE  CIOK(d, r)'
    BY DEF CIOK
  <2>1. r.ctx \in 1..Len(main) /\ prove_ci(r.ctx) /\ prove_ci(r.source)
    BY DEF RunCore, CIOK
  <2>2. OnEdge(d, r) /\ EdgeOK(d, r)
    BY DEF RunCore, OnEdge
  <2>3. r.source \in 1..Len(main)
    BY <2>2 DEF EdgeOK
  <2>4. r.ctx \in Commit /\ r.source \in Commit
    BY <2>1, <2>3, InvLedger, BoundsAssumption DEF Commit
  <2>5. prove_ci(r.ctx)' /\ prove_ci(r.source)'
    BY <2>1, <2>4, CIStays
  <2>6. r.ctx \in 1..Len(main')
    BY <1>1, <2>1
  <2> QED
    BY <2>5, <2>6 DEF CIOK
<1>7. SelectedOK(d, r)'
  <2> SUFFICES ASSUME d \in Dispatch, r.pc \in SelectedPc
               PROVE  SelectedOK(d, r)'
    BY DEF SelectedOK
  <2>1. /\ \A w \in Version : w < r.version => ReleasedVersion(w)
        /\ \A q \in Published(r.version) : q.identity.publisher.run = d
    BY DEF RunCore, SelectedOK
  <2>2. \A w \in Version : w < r.version => ReleasedVersion(w)'
    BY <2>1, ReleasedStays DEF Inv
  <2>3. \A q \in Published(r.version)' : q.identity.publisher.run = d
    BY <2>1 DEF Published
  <2> QED
    BY <2>2, <2>3 DEF SelectedOK
<1> QED
  BY <1>2, <1>3, <1>4, <1>5, <1>6, <1>7 DEF RunCore

\* A run whose record and attempts a step leaves alone stays sound, if the
\* step keeps the draft it holds, opens no record of its source before its
\* create, and publishes its edge for nobody else.
LEMMA RunStays ==
    ASSUME Inv, Evolves, MainInv', NEW d \in Run, NEW r \in RunSet, RunOK(d, r),
           records'[d] = records[d],
           r.pc = "create" =>
              \A q \in releases' :
                 q.bot /\ q.version = r.version /\ q.target = release_target(r.version, r.source)
                    => q \in releases,
           r.pc \in HoldingPc => \A q \in releases : HeldBy(d, r, q) => q \in releases',
           d \in Dispatch /\ r.pc \in SelectedPc =>
              \A q \in releases' : q.version = r.version /\ ~q.draft =>
                                      q \in releases \/ q.identity.publisher.run = d
    PROVE  RunOK(d, r)'
<1>1. RunCore(d, r)'
  <2>1. RunCore(d, r)
    BY DEF RunOK, RunCore
  <2> QED
    BY <2>1, CoreStays
<1>2. FreshOK(d, r)'
  BY DEF RunOK, FreshOK
<1>3. HoldOK(d, r)'
  <2> SUFFICES ASSUME r.pc \in HoldingPc
               PROVE  HoldOK(d, r)'
    BY DEF HoldOK
  <2>1. PICK q \in releases : HeldBy(d, r, q)
    BY DEF RunOK, HoldOK
  <2>2. q \in releases'
    BY <2>1
  <2>3. HeldBy(d, r, q)'
    BY <2>1 DEF HeldBy
  <2> QED
    BY <2>2, <2>3 DEF HoldOK
<1> QED
  BY <1>1, <1>2, <1>3 DEF RunOK, RunCore

\* What is said of a published record stays true of it.
LEMMA PublishedStaysOK ==
    ASSUME Inv, Evolves, MainInv', NEW q \in releases, ~q.draft, q.version # 1
    PROVE  PublishedOK(q)' /\ ExecutorOK(q)'
<1> DEFINE v == q.version
           source == tags[v].source
           base == tags[v - 1].source
<1>1. /\ Len(main) \in Nat /\ Len(main') \in Nat /\ Len(main) <= Len(main')
      /\ \A i \in 1..Len(main) : main'[i] = main[i]
  BY InvLedger DEF Evolves, MainGrows, MainInv
<1>2. PublishedOK(q) /\ ExecutorOK(q)
  BY DEF Inv, PublishedInv
<1>3. v \in Version /\ v - 1 \in Version /\ v \in Nat /\ v - 1 \in Nat /\ tags[v] # NoTag
  BY <1>2, VersionFacts DEF PublishedOK, Inv, ReleaseInv, ReleaseSet
<1>4. PICK n \in Version : LedgerUpTo(main, tags, n)
  BY InvLedger
<1>5. v <= n /\ v - 1 <= n /\ v \in 1..n /\ v - 1 \in 1..n
  BY <1>3, <1>4, VersionFacts DEF LedgerUpTo
<1>6. tags[v - 1] # NoTag /\ source \in 1..Len(main) /\ base \in 1..Len(main)
  BY <1>1, <1>3, <1>4, <1>5 DEF LedgerUpTo
<1>7. tags'[v] = tags[v] /\ tags'[v - 1] = tags[v - 1]
  BY <1>3, <1>6 DEF Evolves, TagsStay
<1>8. EdgeNotes(main', base, source, v) = EdgeNotes(main, base, source, v)
  BY <1>1, <1>6, NotesOfTrees
<1>9. \A w \in Version : w < v => ReleasedVersion(w)'
  BY <1>2, ReleasedStays DEF PublishedOK, Inv
<1>10. PublishedOK(q)'
  BY <1>2, <1>7, <1>8, <1>9 DEF PublishedOK
<1>11. ExecutorOK(q)'
  <2> DEFINE e == q.identity
  <2> SUFFICES ASSUME IsHistorical(v)
               PROVE  ExecutorOK(q)'
    BY DEF ExecutorOK
  <2>1. /\ e.execution \in 1..Len(main) /\ prove_ci(e.execution)
        /\ e.publisher.run \in Dispatch /\ Len(records[e.publisher.run]) > 0
        /\ records[e.publisher.run][1].head = e.execution
    BY <1>2 DEF ExecutorOK
  <2>2. e.execution \in Commit /\ e.execution \in 1..Len(main')
    BY <1>1, <2>1, InvLedger, BoundsAssumption DEF Commit
  <2>3. prove_ci(e.execution)'
    BY <2>1, <2>2, CIStays
  <2>4. /\ Len(records[e.publisher.run]) \in Nat
        /\ 1 \in 1..Len(records[e.publisher.run])
        /\ e.publisher.run \in Run
    BY <2>1, RunKinds DEF Inv, RecordInv
  <2>5. /\ records'[e.publisher.run][1].head = e.execution
        /\ Len(records[e.publisher.run]) <= Len(records'[e.publisher.run])
    BY <2>1, <2>4 DEF Evolves, RecordsGrow
  <2>6. Len(records'[e.publisher.run]) > 0
    <3> DEFINE a == Len(records[e.publisher.run])
               b == Len(records'[e.publisher.run])
    <3>1. a > 0 /\ a <= b /\ a \in Nat
      BY <2>1, <2>4, <2>5
    <3>2. b \in Int
      OBVIOUS
    <3> QED
      BY <3>1
  <2> QED
    BY <2>1, <2>2, <2>3, <2>5, <2>6 DEF ExecutorOK
<1> QED
  BY <1>10, <1>11
-----------------------------------------------------------------------------
(***************************************************************************)
(* The release records, when a step leaves them alone or adds to them.     *)
(***************************************************************************)

\* Records that stay are still owed what they name.
LEMMA OldIdentitiesOwed ==
    ASSUME Inv, Evolves, NEW q \in releases, q.identity # NoAsset
    PROVE  IdentityIsOwed(q.identity)'
<1>1. q.identity \in IdentitySet /\ IdentityIsOwed(q.identity)
  BY DEF Inv, ReleaseInv, ReleaseSet
<1> QED
  BY <1>1, OwedStays DEF Inv

\* Release records that are left alone stay what they are.
LEMMA SameReleases ==
    ASSUME Inv, Evolves, MainInv', UNCHANGED releases
    PROVE  ReleaseInv' /\ OneRecordPerSource' /\ PublishedInv' /\ OnePublished' /\ ExecutorsInv'
<1>1. ReleaseInv'
  <2>1. \A q \in releases : q.identity # NoAsset => IdentityIsOwed(q.identity)'
    BY OldIdentitiesOwed
  <2> QED
    BY <2>1 DEF Inv, ReleaseInv
<1>2. PublishedInv'
  BY PublishedStaysOK DEF PublishedInv
<1> QED
  BY <1>1, <1>2 DEF Inv, OneRecordPerSource, OnePublished, ExecutorsInv

\* The floor's release is exact and its runs are proven.
LEMMA FloorReleased ==
    ASSUME Inv, Evolves
    PROVE  ReleasedVersion(1)'
<1>1. PICK n \in Version : ReleasedUpTo(n)
  BY DEF Inv, PrefixInv
<1>2. 1 \in Version /\ 1 <= n
  BY VersionFacts, BoundsAssumption DEF Version
<1>3. ReleasedVersion(1)
  BY <1>1, <1>2 DEF ReleasedUpTo
<1> QED
  BY <1>2, <1>3, ReleasedStays DEF Inv

\* A set of versions that holds the first one, and all before each of its own,
\* is a prefix.
LEMMA PrefixOfVersions ==
    ASSUME NEW S \in SUBSET Version, 1 \in S, \A v \in S : \A w \in Version : w < v => w \in S
    PROVE  \E n \in Version : \A w \in Version : w \in S <=> w <= n
<1> DEFINE T == Version \ S
<1>1. MaxVersion \in Nat /\ MaxVersion >= 1 /\ Version = 1..MaxVersion
  BY BoundsAssumption DEF Version
<1>2. CASE T = {}
  BY <1>1, <1>2
<1>3. CASE T # {}
  <2>1. T \subseteq Nat
    BY <1>1
  <2>2. \E m \in T : \A k \in T : <<k, m>> \notin OpToRel(<, Nat)
    BY <1>3, <2>1, NatLessThanWellFounded, WFMin
  <2>3. PICK m \in T : \A k \in T : ~(k < m)
    <3>1. \A j \in Nat, k \in Nat : <<k, j>> \in OpToRel(<, Nat) <=> k < j
      BY DEF OpToRel
    <3> QED
      BY <2>1, <2>2, <3>1
  <2>4. m \in Version /\ m \notin S /\ m # 1
    OBVIOUS
  <2>5. m - 1 \in Version /\ m \in Nat
    BY <1>1, <2>4
  <2>6. \A w \in Version : w \in S <=> w <= m - 1
    <3>1. ASSUME NEW w \in Version, w \in S
          PROVE  w <= m - 1
      <4>1. ~(m < w) /\ m # w
        BY <2>4, <3>1
      <4> QED
        BY <1>1, <2>4, <4>1
    <3>2. ASSUME NEW w \in Version, w <= m - 1
          PROVE  w \in S
      <4>1. w < m
        BY <1>1, <2>5, <3>2
      <4> QED
        BY <2>3, <4>1
    <3> QED
      BY <3>1, <3>2
  <2> QED
    BY <2>5, <2>6
<1> QED
  BY <1>2, <1>3

\* Every published record stands on released ones, so the released versions
\* are a prefix.
LEMMA PrefixFollows ==
    ASSUME Inv, Evolves, PublishedInv'
    PROVE  PrefixInv'
<1> DEFINE S == {v \in Version : ReleasedVersion(v)'}
<1>1. 1 \in S
  BY FloorReleased, BoundsAssumption DEF Version
<1>2. ASSUME NEW v \in S, NEW w \in Version, w < v
      PROVE  w \in S
  <2>1. PICK q \in Published(v)' : TRUE
    BY DEF ReleasedVersion
  <2>2. q \in releases' /\ q.version = v /\ ~q.draft
    BY <2>1 DEF Published
  <2>3. v # 1
    BY <1>2, VersionFacts
  <2>4. PublishedOK(q)'
    BY <2>2, <2>3 DEF PublishedInv
  <2> QED
    BY <1>2, <2>2, <2>4 DEF PublishedOK
<1>3. PICK n \in Version : \A w \in Version : w \in S <=> w <= n
  <2>1. S \in SUBSET Version
    OBVIOUS
  <2> HIDE DEF S
  <2> QED
    BY <1>1, <1>2, <2>1, PrefixOfVersions
<1>4. \A w \in Version : ReleasedVersion(w)' <=> w <= n
  BY <1>3
<1> QED
  BY <1>4 DEF PrefixInv, ReleasedUpTo

\* Attempts that succeeded before still left their source released.
LEMMA SuccessStaysReleased ==
    ASSUME Inv, Evolves, NEW c \in Commit, NEW i \in DOMAIN records[c],
           records[c][i].conclusion = "success"
    PROVE  \E v \in Version : tags'[v].source = c /\ ReleasedVersion(v)'
<1>1. PICK v \in Version : tags[v].source = c /\ ReleasedVersion(v)
  BY DEF Inv, SuccessIsReleased
<1>2. ReleasedVersion(v)'
  BY <1>1, ReleasedStays DEF Inv
<1>3. tags[v] # NoTag
  <2>1. PICK q \in Published(v) : TRUE
    BY <1>1 DEF ReleasedVersion
  <2> QED
    BY <2>1, PublishedTag DEF Inv, Published
<1> QED
  BY <1>1, <1>2, <1>3 DEF Evolves, TagsStay

\* Attempts that are left alone leave what they released.
LEMMA SameRecordsSucceed ==
    ASSUME Inv, Evolves, UNCHANGED records
    PROVE  SuccessIsReleased'
BY SuccessStaysReleased DEF SuccessIsReleased

\* Tags that are left alone stay one ledger of a longer main.
LEMMA SameTags ==
    ASSUME Inv, MainGrows, MainInv', UNCHANGED tags
    PROVE  TagInv' /\ TagsStay
<1>1. PICK n \in Version : LedgerUpTo(main, tags, n)
  BY InvLedger
<1>2. LedgerUpTo(main', tags, n)
  BY <1>1, LedgerGrows
<1>3. tags \in [Version -> TagSet]
  BY InvLedger
<1> QED
  BY <1>2, <1>3 DEF TagInv, TagsStay

\* The attempt records, when a step leaves them alone.
LEMMA SameRecords ==
    ASSUME Inv, MainGrows, MainInv', SuccessStays, UNCHANGED records
    PROVE  RecordInv'
<1>1. Len(main) \in Nat /\ Len(main') \in Nat /\ Len(main) <= Len(main')
  BY InvLedger DEF MainGrows, MainInv
<1>2. \A c \in Commit : Len(records[c]) > 0 => ci[c] = "success" /\ c <= Len(main) /\ c \in Nat
  BY RunKinds DEF Inv, RecordInv
<1>3. \A c \in Commit : Len(records[c]) > 0 => ci'[c] = "success" /\ c <= Len(main')
  BY <1>1, <1>2 DEF SuccessStays
<1>4. records' \in [Run -> Seq(AttemptSet)] /\ \A c \in Run : AttemptsOK(c, records'[c])
  BY DEF Inv, RecordInv
<1> QED
  BY <1>3, <1>4 DEF RecordInv

\* Runs, when a step changes at most one of them and nothing of the others.
LEMMA OneRunMoves ==
    ASSUME Inv, NEW c \in Run, NEW f \in RunSet, run' = [run EXCEPT ![c] = f],
           RunOK(c, f)', \A d \in Run \ {c} : RunOK(d, run[d])',
           f.pc \notin {"idle", "queued"} => c \notin Dispatch \/ AtWork(c) \/ \A e \in Dispatch : ~AtWork(e)
    PROVE  RunInv' /\ GroupInv'
<1>1. run \in [Run -> RunSet]
  BY DEF Inv, RunInv
<1>2. run' \in [Run -> RunSet] /\ run'[c] = f /\ \A d \in Run \ {c} : run'[d] = run[d]
  BY <1>1
<1>3. \A d \in Run : RunOK(d, run[d])'
  <2>2. RunOK(c, run[c])'
    BY <1>2
  <2> QED
    BY <2>2
<1>4. GroupInv'
  <2> SUFFICES ASSUME NEW d \in Dispatch, NEW e \in Dispatch, AtWork(d)', AtWork(e)'
               PROVE  d = e
    BY DEF GroupInv
  <2>1. d \in Run /\ e \in Run
    BY RunKinds
  <2>2. \A g \in Dispatch : g # c => (AtWork(g)' <=> AtWork(g))
    BY <1>2, RunKinds DEF AtWork
  <2>3. AtWork(c)' => f.pc \notin {"idle", "queued"}
    BY <1>2 DEF AtWork
  <2> QED
    BY <2>1, <2>2, <2>3 DEF Inv, GroupInv
<1> QED
  BY <1>2, <1>3, <1>4 DEF RunInv
-----------------------------------------------------------------------------
(***************************************************************************)
(* The steps that publish nothing.                                         *)
(***************************************************************************)

\* Evolves, for a step that writes no release.
LEMMA QuietEvolves ==
    ASSUME MainGrows, TagsStay, SuccessStays, RecordsGrow, UNCHANGED releases
    PROVE  Evolves
BY DEF Evolves, PublishedStays

\* A run that a step leaves alone, with releases as they are.
LEMMA QuietRun ==
    ASSUME Inv, Evolves, MainInv', UNCHANGED releases, NEW d \in Run,
           NEW r \in RunSet, RunOK(d, r), records'[d] = records[d]
    PROVE  RunOK(d, r)'
BY RunStays

\* A run whose record and attempts are left alone stays sound.
LEMMA QuietRunStands ==
    ASSUME Inv, Evolves, MainInv', UNCHANGED releases, NEW d \in Run,
           run'[d] = run[d], records'[d] = records[d]
    PROVE  RunOK(d, run[d])'
<1>1. ASSUME NEW r, r = run[d] PROVE RunOK(d, r)'
  <2>1. r \in RunSet /\ RunOK(d, r)
    BY <1>1, RunFacts
  <2> QED
    BY <2>1, QuietRun
<1>2. ASSUME NEW r, r = run'[d] PROVE RunOK(d, run[d])'
  <2>1. RunOK(d, r)'
    BY <1>1, <1>2
  <2> QED
    BY <1>2, <2>1
<1> QED
  BY <1>2

\* What every step that writes neither tags, releases nor attempts keeps.
LEMMA Unwritten ==
    ASSUME Inv, MainInv', MainGrows, CIInv', SuccessStays,
           UNCHANGED <<tags, releases, records>>
    PROVE  /\ Evolves
           /\ MainInv' /\ CIInv' /\ TagInv' /\ RecordInv'
           /\ ReleaseInv' /\ OneRecordPerSource' /\ PublishedInv' /\ OnePublished' /\ ExecutorsInv'
           /\ PrefixInv' /\ SuccessIsReleased'
<1>1. TagInv' /\ TagsStay
  BY SameTags
<1>2. RecordsGrow
  BY SameRecordsGrow
<1>3. Evolves
  BY <1>1, <1>2, QuietEvolves
<1>4. ReleaseInv' /\ OneRecordPerSource' /\ PublishedInv' /\ OnePublished' /\ ExecutorsInv'
  BY <1>3, SameReleases
<1>5. PrefixInv'
  BY <1>3, <1>4, PrefixFollows
<1>6. SuccessIsReleased' /\ RecordInv'
  BY <1>3, SameRecordsSucceed, SameRecords
<1> QED
  BY <1>1, <1>3, <1>4, <1>5, <1>6

\* A step aside keeps the invariant.
LEMMA AsideInv ==
    ASSUME Inv, Aside
    PROVE  Inv' /\ Evolves
<1>1. /\ UNCHANGED <<ci, tags, releases, run, records>>
      /\ MainInv' /\ MainGrows /\ CIInv' /\ SuccessStays
  BY AsideKeeps
<1>2. /\ Evolves
      /\ TagInv' /\ RecordInv'
      /\ ReleaseInv' /\ OneRecordPerSource' /\ PublishedInv' /\ OnePublished' /\ ExecutorsInv'
      /\ PrefixInv' /\ SuccessIsReleased'
  BY <1>1, Unwritten
<1>3. \A d \in Run : RunOK(d, run[d])'
  BY <1>1, <1>2, QuietRunStands
<1>4. RunInv'
  BY <1>1, <1>3 DEF RunInv, Inv
<1>5. GroupInv'
  BY <1>1 DEF Inv, GroupInv, AtWork
<1> QED
  BY <1>1, <1>2, <1>4, <1>5 DEF Inv

\* main, ci and codeql when they are not touched.
LEMMA SameMain ==
    ASSUME Inv, UNCHANGED <<main, pr>>
    PROVE  MainInv' /\ MainGrows
<1>1. MainInv'
  BY DEF Inv, MainInv
<1> QED
  BY <1>1, SameMainGrows

\* Conclusions that are left alone stay.
LEMMA SameCI ==
    ASSUME Inv, UNCHANGED <<ci, codeql>>
    PROVE  CIInv' /\ SuccessStays
BY DEF Inv, CIInv, SuccessStays

\* A step of a run that only reads keeps the invariant.
LEMMA ReadStepInv ==
    ASSUME Inv, NEW c \in Run, ReadStep(c)
    PROVE  Inv' /\ Evolves
<1>1. PICK f \in RunSet :
        /\ Move(c, f) /\ UNCHANGED <<tags, releases>>
        /\ RunOK(c, f)
        /\ f.pc \notin {"idle", "queued"}
        /\ AtWork(c) \/ \A e \in Dispatch : ~AtWork(e)
  BY DEF ReadStep
<1>2. /\ run' = [run EXCEPT ![c] = f]
      /\ UNCHANGED <<main, pr, ci, codeql, setting, records, disturbances>>
  BY <1>1 DEF Move
<1>3. MainInv' /\ MainGrows /\ CIInv' /\ SuccessStays
  BY <1>2, SameMain, SameCI
<1>4. /\ Evolves
      /\ TagInv' /\ RecordInv'
      /\ ReleaseInv' /\ OneRecordPerSource' /\ PublishedInv' /\ OnePublished' /\ ExecutorsInv'
      /\ PrefixInv' /\ SuccessIsReleased'
  BY <1>1, <1>2, <1>3, Unwritten
<1>5. RunOK(c, f)'
  BY <1>1, <1>2, <1>3, <1>4, QuietRun
<1>6. \A d \in Run \ {c} : RunOK(d, run[d])'
  <2>1. \A d \in Run \ {c} : run'[d] = run[d]
    BY <1>2 DEF Inv, RunInv
  <2> QED
    BY <1>1, <1>2, <1>3, <1>4, <2>1, QuietRunStands
<1>7. RunInv' /\ GroupInv'
  BY <1>1, <1>2, <1>5, <1>6, OneRunMoves
<1> QED
  BY <1>3, <1>4, <1>7 DEF Inv

\* A tag that is added next in the ledger.
LEMMA NextTag ==
    ASSUME Inv, MainInv', UNCHANGED main, NEW v \in Version, v - 1 \in Version, NEW s \in 1..Len(main),
           tags[v] = NoTag, tags[v - 1] # NoTag, BindsOneFragment(main, tags[v - 1].source, s),
           IsHistorical(v) => s = historical_release(v).source,
           tags' = [tags EXCEPT ![v] = [source |-> s, exact |-> TRUE]]
    PROVE  TagInv' /\ TagsStay
<1> DEFINE t == [source |-> s, exact |-> TRUE]
<1>1. PICK n \in Version : LedgerUpTo(main, tags, n)
  BY InvLedger
<1>2. tags \in [Version -> TagSet] /\ Len(main) \in Nat /\ Len(main) <= MaxMain /\ MaxMain \in Nat
  BY InvLedger, BoundsAssumption
<1>3. v = n + 1 /\ n \in Nat /\ n >= 1 /\ v \in Nat
  BY <1>1, VersionFacts DEF LedgerUpTo
<1>4. t \in TagSet /\ t.exact /\ t.source = s /\ t # NoTag
  <2>1. s \in 0..MaxMain /\ s # 0
    BY <1>2
  <2> QED
    BY <2>1 DEF TagSet, NoTag
<1> HIDE DEF t
<1>5. tags' \in [Version -> TagSet] /\ \A w \in Version : tags'[w] = IF w = v THEN t ELSE tags[w]
  BY <1>2, <1>4 DEF t
<1>6. n \in Version /\ \A w \in 1..v : w \in Version
  BY <1>3, VersionFacts, BoundsAssumption DEF Version
<1>7. \A w \in Version : tags'[w] # NoTag <=> w <= v
  <2>1. \A w \in Version : tags[w] # NoTag <=> w <= n
    BY <1>1 DEF LedgerUpTo
  <2>2. ASSUME NEW w \in Version, w # v
        PROVE  tags'[w] # NoTag <=> w <= v
    <3>1. tags'[w] = tags[w] /\ w \in Nat
      BY <1>5, <2>2, VersionFacts
    <3>2. w <= n <=> w <= v
      BY <1>3, <2>2, <3>1
    <3> QED
      BY <2>1, <3>1, <3>2
  <2>3. tags'[v] # NoTag /\ v <= v
    <3>1. tags'[v] = t
      BY <1>5
    <3>2. tags'[v] # NoTag
      BY <1>4, <3>1
    <3>3. v <= v
      BY <1>3
    <3> QED
      BY <3>2, <3>3
  <2> QED
    BY <2>2, <2>3
<1>8. tags[n].source \in n..Len(main) /\ n < s
  <2>1. tags[n].source \in n..Len(main)
    BY <1>1, <1>3 DEF LedgerUpTo
  <2>2. tags[n].source \in Nat /\ tags[n].source < s
    <3>1. tags[n].source \in Nat /\ BindsOneFragment(main, tags[n].source, s) /\ s \in Nat
      BY <1>2, <1>3, <2>1
    <3> QED
      BY <3>1, EdgeAscends
  <2> QED
    BY <1>2, <1>3, <2>1, <2>2
<1>9. \A w \in 1..v : /\ tags'[w].exact /\ tags'[w].source \in w..Len(main)
                      /\ IsHistorical(w) => tags'[w].source = historical_release(w).source
  <2>1. ASSUME NEW w \in 1..v, w # v
        PROVE  /\ tags'[w].exact /\ tags'[w].source \in w..Len(main)
               /\ IsHistorical(w) => tags'[w].source = historical_release(w).source
    <3>1. w \in 1..n /\ tags'[w] = tags[w]
      BY <1>3, <1>5, <1>6, <2>1
    <3> QED
      BY <1>1, <3>1 DEF LedgerUpTo
  <2>2. /\ tags'[v].exact /\ tags'[v].source \in v..Len(main)
        /\ IsHistorical(v) => tags'[v].source = historical_release(v).source
    BY <1>2, <1>3, <1>4, <1>5, <1>8
  <2> QED
    BY <2>1, <2>2
<1>10. tags'[1].source = Floor
  <2>1. 1 \in Version /\ 1 # v
    BY <1>3, <1>6
  <2> QED
    BY <1>1, <1>5, <2>1 DEF LedgerUpTo
<1>11. \A w \in 2..v : BindsOneFragment(main, tags'[w - 1].source, tags'[w].source)
  <2>1. ASSUME NEW w \in 2..v, w # v
        PROVE  BindsOneFragment(main, tags'[w - 1].source, tags'[w].source)
    <3>1. w \in 2..n /\ w - 1 # v /\ w \in Version /\ w - 1 \in Version
      BY <1>3, <1>6, <2>1
    <3> QED
      BY <1>1, <1>5, <2>1, <3>1 DEF LedgerUpTo
  <2>2. BindsOneFragment(main, tags'[v - 1].source, tags'[v].source)
    BY <1>3, <1>4, <1>5
  <2> QED
    BY <2>1, <2>2
<1>12. LedgerUpTo(main, tags', v)
  BY <1>7, <1>9, <1>10, <1>11 DEF LedgerUpTo
<1>13. TagsStay
  BY <1>5 DEF TagsStay
<1> QED
  BY <1>5, <1>12, <1>13 DEF TagInv

\* A step that may add a tag and moves at most one run.
LEMMA TagStepInv ==
    ASSUME Inv, UNCHANGED <<main, pr, ci, codeql, releases, records>>, TagInv', TagsStay
    PROVE  /\ Evolves
           /\ MainInv' /\ CIInv' /\ TagInv' /\ RecordInv'
           /\ ReleaseInv' /\ OneRecordPerSource' /\ PublishedInv' /\ OnePublished' /\ ExecutorsInv'
           /\ PrefixInv' /\ SuccessIsReleased'
<1>1. MainInv' /\ MainGrows /\ CIInv' /\ SuccessStays
  BY SameMain, SameCI
<1>2. RecordsGrow
  BY SameRecordsGrow
<1>3. Evolves
  BY <1>1, <1>2, QuietEvolves
<1>4. ReleaseInv' /\ OneRecordPerSource' /\ PublishedInv' /\ OnePublished' /\ ExecutorsInv'
  BY <1>1, <1>3, SameReleases
<1>5. PrefixInv'
  BY <1>3, <1>4, PrefixFollows
<1>6. SuccessIsReleased' /\ RecordInv'
  BY <1>1, <1>3, SameRecordsSucceed, SameRecords
<1> QED
  BY <1>1, <1>3, <1>4, <1>5, <1>6

\* The tag that the owner prepares for the next edge of the backlog keeps it.
LEMMA PrepareTagInv ==
    ASSUME Inv, PrepareTag
    PROVE  Inv' /\ Evolves
<1>1. /\ UNCHANGED <<main, pr, ci, codeql, releases, setting, run, records, disturbances>>
      /\ \E v \in Backlog :
            /\ tags[v] = NoTag /\ tags[v - 1] # NoTag
            /\ tags' = [tags EXCEPT ![v] = [source |-> EdgeSource(v), exact |-> TRUE]]
  BY DEF PrepareTag
<1>2. PICK v \in Backlog :
            /\ tags[v] = NoTag /\ tags[v - 1] # NoTag
            /\ tags' = [tags EXCEPT ![v] = [source |-> EdgeSource(v), exact |-> TRUE]]
  BY <1>1
<1>3. v \in Version /\ IsHistorical(v) /\ v \in Nat
  BY VersionFacts DEF Backlog
<1> DEFINE s == historical_release(v).source
           p == historical_release(v).parent
<1>4. /\ v >= 2 /\ s \in 2..Len(Landed) /\ p \in 1..Len(Landed)
      /\ p = IF v = 2 THEN Floor ELSE historical_release(v - 1).source
      /\ BindsOneFragment(Landed, p, s)
      /\ v > 2 => IsHistorical(v - 1)
  BY <1>3, HistoricalVersions
<1>5. /\ Len(Landed) <= Len(main) /\ Len(Landed) \in Nat /\ Len(main) \in Nat
      /\ \A i \in 1..Len(Landed) : main[i] = Landed[i]
  BY InvLedger, BoundsAssumption DEF Inv, MainInv
<1>6. s \in 1..Len(main) /\ BindsOneFragment(main, p, s)
  <2>1. s \in 1..Len(Landed)
    BY <1>4
  <2>2. main[s] = Landed[s] /\ main[p] = Landed[p]
    BY <1>4, <1>5, <2>1
  <2>3. s \in 1..Len(main)
    BY <1>5, <2>1
  <2>4. BindsOneFragment(Landed, p, s)
    BY <1>4
  <2> HIDE DEF s, p
  <2>5. BindsOneFragment(main, p, s)
    BY <2>2, <2>4, EdgeOfTrees
  <2> QED
    BY <2>3, <2>5
<1>7. v - 1 \in Version
  BY <1>3, <1>4, VersionFacts, BoundsAssumption DEF Version
<1>8. tags[v - 1].source = p
  <2>1. PICK n \in Version : LedgerUpTo(main, tags, n)
    BY InvLedger
  <2>2. v - 1 \in 1..n
    <3>1. v - 1 <= n
      BY <1>2, <1>7, <2>1 DEF LedgerUpTo
    <3>2. v - 1 \in Nat /\ v - 1 >= 1 /\ n \in Nat
      BY <1>7, VersionFacts
    <3> QED
      BY <3>1, <3>2
  <2>3. CASE v = 2
    BY <1>4, <2>1, <2>3 DEF LedgerUpTo
  <2>4. CASE v # 2
    <3>1. v > 2
      BY <1>3, <1>4, <2>4
    <3> QED
      BY <1>4, <2>1, <2>2, <2>4, <3>1 DEF LedgerUpTo
  <2> QED
    BY <2>3, <2>4
<1>9. EdgeSource(v) = s
  BY <1>3 DEF EdgeSource
<1> HIDE DEF s, p
<1>10. MainInv'
  BY <1>1, SameMain
<1>11. TagInv' /\ TagsStay
  BY <1>1, <1>2, <1>3, <1>6, <1>7, <1>8, <1>9, <1>10, NextTag DEF s
<1>12. /\ Evolves
       /\ MainInv' /\ CIInv' /\ TagInv' /\ RecordInv'
       /\ ReleaseInv' /\ OneRecordPerSource' /\ PublishedInv' /\ OnePublished' /\ ExecutorsInv'
       /\ PrefixInv' /\ SuccessIsReleased'
  BY <1>1, <1>11, TagStepInv
<1>13. \A d \in Run : RunOK(d, run[d])'
  BY <1>1, <1>12, QuietRunStands
<1>14. RunInv'
  BY <1>1, <1>13 DEF RunInv, Inv
<1>15. GroupInv'
  BY <1>1 DEF Inv, GroupInv, AtWork
<1> QED
  BY <1>12, <1>14, <1>15 DEF Inv
-----------------------------------------------------------------------------
(***************************************************************************)
(* The tag of a run, its attempts, and its end.                            *)
(***************************************************************************)

\* What is common to the runs beside the one that moves.
LEMMA OthersStand ==
    ASSUME Inv, Evolves, MainInv', UNCHANGED releases, NEW c \in Run, NEW f,
           run' = [run EXCEPT ![c] = f], \A d \in Run \ {c} : records'[d] = records[d]
    PROVE  \A d \in Run \ {c} : RunOK(d, run[d])'
<1>1. \A d \in Run \ {c} : run'[d] = run[d]
  BY DEF Inv, RunInv
<1> QED
  BY <1>1, QuietRunStands

\* The tag that a publisher creates, if it is not there yet, keeps it.
LEMMA TagRefInv ==
    ASSUME Inv, NEW c \in Run, TagRef(c)
    PROVE  Inv' /\ Evolves
<1> DEFINE r == run[c]
           v == r.version
<1>0. PICK f : f = [run[c] EXCEPT !.pc = "tagpoll"]
  OBVIOUS
<1>1. /\ r.pc = "tagref" /\ Move(c, f) /\ UNCHANGED releases
      /\ tags' = IF tags[v] = NoTag
                 THEN [tags EXCEPT ![v] = [source |-> Source(c), exact |-> TRUE]] ELSE tags
  BY <1>0 DEF TagRef, Goto
<1>2. /\ run' = [run EXCEPT ![c] = f]
      /\ UNCHANGED <<main, pr, ci, codeql, setting, records, disturbances>>
  BY <1>1 DEF Move
<1>3. r \in RunSet /\ RunOK(c, r) /\ r.pc \in EdgePc /\ c \in Commit /\ c \notin Dispatch
  BY <1>1, RunFacts, PcKind DEF EdgePc
<1>4. /\ "tagpoll" \in EdgePc /\ "tagpoll" \notin HoldingPc
  BY DEF EdgePc, HoldingPc
<1>5. f \in RunSet /\ f.pc = "tagpoll" /\ RunCore(c, f)
  BY <1>0, <1>3, <1>4, EdgeMove
<1>6. RunOK(c, f)
  BY <1>4, <1>5 DEF RunCore, RunOK, FreshOK, HoldOK
<1>7. /\ v - 1 \in Version /\ r.source \in 1..Len(main) /\ r.base \in 1..Len(main)
      /\ BindsOneFragment(main, r.base, r.source)
      /\ tags[v - 1] # NoTag /\ tags[v - 1].source = r.base
      /\ ~IsHistorical(v) /\ v \in Version
  BY <1>3 DEF RunOK, EdgeOK, OnEdge, RunSet
<1>8. MainInv'
  BY <1>2, SameMain
<1>9. TagInv' /\ TagsStay
  <2>1. CASE tags[v] = NoTag
    <3>1. tags' = [tags EXCEPT ![v] = [source |-> r.source, exact |-> TRUE]]
      BY <1>1, <2>1 DEF Source
    <3> HIDE DEF r, v
    <3> QED
      BY <1>2, <1>7, <1>8, <2>1, <3>1, NextTag
  <2>2. CASE tags[v] # NoTag
    <3>1. tags' = tags
      BY <1>1, <2>2
    <3> QED
      BY <1>2, <1>8, <3>1, SameMain, SameTags
  <2> QED
    BY <2>1, <2>2
<1>10. /\ Evolves
       /\ MainInv' /\ CIInv' /\ TagInv' /\ RecordInv'
       /\ ReleaseInv' /\ OneRecordPerSource' /\ PublishedInv' /\ OnePublished' /\ ExecutorsInv'
       /\ PrefixInv' /\ SuccessIsReleased'
  BY <1>1, <1>2, <1>9, TagStepInv
<1>11. RunOK(c, f)'
  BY <1>1, <1>2, <1>5, <1>6, <1>10, QuietRun
<1>12. \A d \in Run \ {c} : RunOK(d, run[d])'
  BY <1>1, <1>2, <1>10, OthersStand
<1>13. RunInv' /\ GroupInv'
  BY <1>2, <1>3, <1>5, <1>11, <1>12, OneRunMoves
<1> QED
  BY <1>10, <1>13 DEF Inv

\* The attempts of one run change, nothing else but runs and ci.
LEMMA AttemptStep ==
    ASSUME Inv, UNCHANGED <<main, pr, tags, releases>>, CIInv', SuccessStays, NEW c \in Run,
           NEW s \in Seq(AttemptSet), records' = [records EXCEPT ![c] = s], AttemptsOK(c, s),
           c \in Commit /\ Len(s) > 0 => ci'[c] = "success" /\ c <= Len(main),
           Len(records[c]) <= Len(s),
           \A i \in 1..Len(records[c]) :
             /\ s[i].head = records[c][i].head
             /\ s[i].event = records[c][i].event
             /\ s[i].workflow = records[c][i].workflow
             /\ records[c][i].status = "completed" => s[i] = records[c][i]
    PROVE  /\ Evolves
           /\ MainInv' /\ TagInv' /\ RecordInv'
           /\ ReleaseInv' /\ OneRecordPerSource' /\ PublishedInv' /\ OnePublished' /\ ExecutorsInv'
           /\ PrefixInv'
           /\ \A d \in Run \ {c} : records'[d] = records[d]
<1>1. MainInv' /\ MainGrows
  BY SameMain
<1>2. TagInv' /\ TagsStay
  BY <1>1, SameTags
<1>3. RecordsGrow
  BY OneRecordGrows
<1>4. Evolves
  BY <1>1, <1>2, <1>3, QuietEvolves
<1>5. ReleaseInv' /\ OneRecordPerSource' /\ PublishedInv' /\ OnePublished' /\ ExecutorsInv'
  BY <1>1, <1>4, SameReleases
<1>6. PrefixInv'
  BY <1>4, <1>5, PrefixFollows
<1>7. /\ records \in [Run -> Seq(AttemptSet)]
      /\ \A d \in Run : AttemptsOK(d, records[d])
      /\ \A d \in Commit : Len(records[d]) > 0 => ci[d] = "success" /\ d <= Len(main)
  BY DEF Inv, RecordInv
<1>8. /\ records' \in [Run -> Seq(AttemptSet)] /\ records'[c] = s
      /\ \A d \in Run \ {c} : records'[d] = records[d]
  BY <1>7
<1>9. \A d \in Run : AttemptsOK(d, records'[d])
  <2>1. ASSUME NEW d \in Run, d # c PROVE AttemptsOK(d, records'[d])
    <3>1. records'[d] = records[d]
      BY <1>8, <2>1
    <3> QED
      BY <1>7, <3>1
  <2>2. AttemptsOK(c, records'[c])
    BY <1>8
  <2> QED
    BY <2>1, <2>2
<1>10. ASSUME NEW d \in Commit, Len(records'[d]) > 0
       PROVE  ci'[d] = "success" /\ d <= Len(main')
  <2>1. CASE d = c
    BY <1>8, <1>10, <2>1
  <2>2. CASE d # c
    <3>1. d \in Run \ {c}
      BY <2>2, RunKinds
    <3>2. records'[d] = records[d]
      BY <1>8, <3>1
    <3> QED
      BY <1>7, <1>10, <3>2 DEF SuccessStays
  <2> QED
    BY <2>1, <2>2
<1>11. RecordInv'
  BY <1>8, <1>9, <1>10 DEF RecordInv
<1> QED
  BY <1>1, <1>2, <1>4, <1>5, <1>6, <1>8, <1>11

\* Attempts added to a run's, or completed without success, release nothing
\* and owe nothing.
LEMMA AttemptsSucceed ==
    ASSUME Inv, Evolves, NEW c \in Run, \A d \in Run \ {c} : records'[d] = records[d],
           c \in Commit => \A i \in DOMAIN records'[c] :
              records'[c][i].conclusion = "success" =>
                 \/ i \in DOMAIN records[c] /\ records[c][i].conclusion = "success"
                 \/ \E v \in Version : tags'[v].source = c /\ ReleasedVersion(v)'
    PROVE  SuccessIsReleased'
<1> SUFFICES ASSUME NEW d \in Commit, NEW i \in DOMAIN records'[d],
                    records'[d][i].conclusion = "success"
             PROVE  \E v \in Version : tags'[v].source = d /\ ReleasedVersion(v)'
  BY DEF SuccessIsReleased
<1>1. CASE d = c
  BY <1>1, SuccessStaysReleased
<1>2. CASE d # c
  <2>1. records'[d] = records[d]
    BY <1>2, RunKinds
  <2> QED
    BY <2>1, SuccessStaysReleased
<1> QED
  BY <1>1, <1>2

\* A run that is not bound to anything is sound if it stands where its kind
\* may and its last attempt is at work just when it is.
LEMMA LooseOK ==
    ASSUME NEW c \in Run, NEW r \in RunSet, r.pc \notin SelectedPc, PcOK(c, r), AttemptOK(c, r)'
    PROVE  RunOK(c, r)'
<1>1. r.pc \notin EdgePc /\ r.pc \notin HoldingPc /\ r.pc # "create"
  BY DEF EdgePc, SelectedPc, HoldingPc
<1>2. PcOK(c, r)'
  BY DEF PcOK
<1>3. EdgeOK(c, r)' /\ NotesOK(c, r)' /\ CIOK(c, r)' /\ SelectedOK(c, r)'
  BY <1>1 DEF EdgeOK, OnEdge, NotesOK, CIOK, SelectedOK
<1>4. FreshOK(c, r)' /\ HoldOK(c, r)'
  BY <1>1 DEF FreshOK, HoldOK
<1> QED
  BY <1>2, <1>3, <1>4 DEF RunOK

\* An idle record, or one that waits, is a record.
LEMMA IdleType ==
    ASSUME NEW x \in 0..MaxMain, NEW pc \in Step \cup {"idle"}
    PROVE  /\ [Idle EXCEPT !.pc = pc, !.ctx = x] \in RunSet
           /\ [Idle EXCEPT !.pc = pc, !.ctx = x].pc = pc
           /\ [Idle EXCEPT !.pc = pc, !.ctx = x].ctx = x
           /\ [Idle EXCEPT !.pc = pc, !.ctx = x].source = 0
           /\ [Idle EXCEPT !.pc = pc, !.ctx = x].at = "start"
<1>1. 0 \in 0..MaxMain /\ 1 \in Version
  BY BoundsAssumption DEF Version
<1>2. Idle \in RunSet
  BY <1>1 DEF Idle, RunSet, Site, Verdicts
<1> QED
  BY <1>2 DEF Idle, RunSet

\* A run that has ended is idle and bound to nothing.
LEMMA IdleStands ==
    ASSUME NEW x \in 0..MaxMain
    PROVE  /\ [Idle EXCEPT !.ctx = x] \in RunSet
           /\ [Idle EXCEPT !.ctx = x].pc = "idle"
           /\ [Idle EXCEPT !.ctx = x].ctx = x
           /\ [Idle EXCEPT !.ctx = x].source = 0
           /\ [Idle EXCEPT !.ctx = x].at = "start"
<1>1. 0 \in 0..MaxMain /\ 1 \in Version
  BY BoundsAssumption DEF Version
<1>2. Idle \in RunSet
  BY <1>1 DEF Idle, RunSet, Site, Verdicts
<1> QED
  BY <1>2 DEF Idle, RunSet
-----------------------------------------------------------------------------
(***************************************************************************)
(* Attempts that begin and end.                                            *)
(***************************************************************************)
\* The record of an ordinary attempt as it starts.
LEMMA OrdinaryAttempt ==
    ASSUME NEW c \in Commit
    PROVE  /\ Ordinary(c) \in AttemptSet
           /\ Ordinary(c).head = c /\ Ordinary(c).event = "workflow_run"
           /\ Ordinary(c).workflow = "platform-release"
           /\ Ordinary(c).status = PendingStatus /\ Ordinary(c).conclusion = "none"
<1>1. c \in 0..MaxMain
  BY BoundsAssumption DEF Commit
<1> QED
  BY <1>1 DEF Ordinary, Started, AttemptSet, EventSet, WorkflowSet

\* The push CI that ends, and starts the run of its source, keeps the invariant.
LEMMA PushCIInv ==
    ASSUME Inv, NEW c \in Commit, PushCI(c)
    PROVE  Inv' /\ Evolves
<1> USE DEF PendingStatus
<1>1. /\ c \in 2..Len(main) /\ ci[c] = "none"
      /\ UNCHANGED <<main, pr, codeql, tags, releases, setting, disturbances>>
  BY DEF PushCI, Tip
<1>2. /\ ci \in [Commit -> {"none", "success", "failure"}]
      /\ codeql \in [Commit -> {"pending", "run", "success", "failure"}]
      /\ \A d \in FrozenSources : ci[d] = "success"
  BY DEF Inv, CIInv
<1>3. c \notin FrozenSources /\ c \notin Dispatch /\ c \in Run /\ c \in Nat
  BY <1>1, <1>2, RunKinds
<1>4. records \in [Run -> Seq(AttemptSet)] /\ Len(records[c]) \in Nat /\ ~(Len(records[c]) > 0)
  BY <1>1, <1>3 DEF Inv, RecordInv
<1>5. Len(main) \in Nat /\ Len(main) <= MaxMain
  BY InvLedger
<1>6. ASSUME NEW x \in {"success", "failure"}, ci' = [ci EXCEPT ![c] = x]
      PROVE  CIInv' /\ SuccessStays
  <2>1. ci' \in [Commit -> {"none", "success", "failure"}]
    BY <1>2, <1>6
  <2>2. \A d \in Commit : ci[d] = "success" => ci'[d] = "success"
    BY <1>1, <1>2, <1>6
  <2>3. \A d \in FrozenSources : ci'[d] = "success"
    BY <1>2, <2>2, FrozenFacts
  <2>4. CIInv'
    BY <1>1, <1>2, <2>1, <2>3 DEF CIInv
  <2> QED
    BY <1>1, <2>2, <2>4 DEF SuccessStays
<1>7. CASE TransitionIsValid(main, tags, c - 1, c)
  <2> DEFINE s == <<Ordinary(c)>>
  <2>0. PICK f : f = [Idle EXCEPT !.pc = "ci", !.ctx = Tip]
    OBVIOUS
  <2>1. /\ ci' = [ci EXCEPT ![c] = "success"]
        /\ run' = [run EXCEPT ![c] = f]
        /\ records' = [records EXCEPT ![c] = s]
    BY <1>7, <2>0 DEF PushCI
  <2>2. CIInv' /\ SuccessStays
    BY <1>6, <2>1
  <2>3. s \in Seq(AttemptSet) /\ Len(s) = 1 /\ s[1] = Ordinary(c)
    BY OrdinaryAttempt
  <2> HIDE DEF s
  <2>4. AttemptsOK(c, s)
    <3>1. MaxAttempts \in Nat /\ 1 <= MaxAttempts
      BY BoundsAssumption
    <3>2. \A i \in 1..Len(s) : i = 1 /\ s[i] = Ordinary(c)
      BY <2>3
    <3> QED
      BY <1>3, <2>3, <3>1, <3>2, OrdinaryAttempt DEF AttemptsOK
  <2>5. ci'[c] = "success" /\ c <= Len(main)
    BY <1>1, <1>2, <1>5, <2>1
  <2>6. /\ Evolves
        /\ MainInv' /\ TagInv' /\ RecordInv'
        /\ ReleaseInv' /\ OneRecordPerSource' /\ PublishedInv' /\ OnePublished' /\ ExecutorsInv'
        /\ PrefixInv'
        /\ \A d \in Run \ {c} : records'[d] = records[d]
    <3>1. Len(records[c]) <= Len(s) /\ \A i \in 1..Len(records[c]) : FALSE
      BY <1>4, <2>3
    <3> QED
      BY <1>1, <1>3, <2>1, <2>2, <2>3, <2>4, <2>5, <3>1, AttemptStep
  <2>7. records'[c] = s
    BY <1>3, <1>4, <2>1
  <2>8. SuccessIsReleased'
    <3>1. \A i \in DOMAIN records'[c] : records'[c][i].conclusion # "success"
      BY <2>3, <2>7, OrdinaryAttempt
    <3> QED
      BY <1>3, <2>6, <3>1, AttemptsSucceed
  <2>9. f \in RunSet /\ f.pc = "ci"
    <3>1. Tip \in 0..MaxMain
      BY <1>5, BoundsAssumption DEF Tip
    <3> QED
      BY <2>0, <3>1, IdleType DEF Step
  <2>10. RunOK(c, f)'
    <3>1. PcOK(c, f) /\ f.pc \notin SelectedPc
      BY <1>3, <2>9 DEF PcOK, CommitPc, Step, SelectedPc, EdgePc
    <3>2. AttemptOK(c, f)'
      <4>1. Len(s) > 0 /\ s[Len(s)].status = PendingStatus
        BY <2>3, OrdinaryAttempt
      <4> QED
        BY <1>3, <2>7, <2>9, <4>1 DEF AttemptOK
    <3> QED
      BY <1>3, <2>9, <3>1, <3>2, LooseOK
  <2>11. \A d \in Run \ {c} : RunOK(d, run[d])'
    BY <1>1, <1>3, <2>1, <2>6, OthersStand
  <2>12. RunInv' /\ GroupInv'
    BY <1>3, <2>1, <2>9, <2>10, <2>11, OneRunMoves
  <2> QED
    BY <2>2, <2>6, <2>8, <2>12 DEF Inv
<1>8. CASE ~TransitionIsValid(main, tags, c - 1, c)
  <2>1. ci' = [ci EXCEPT ![c] = "failure"] /\ UNCHANGED <<run, records>>
    BY <1>8 DEF PushCI
  <2>2. CIInv' /\ SuccessStays /\ MainInv' /\ MainGrows
    BY <1>1, <1>6, <2>1, SameMain
  <2>3. /\ Evolves
        /\ TagInv' /\ RecordInv'
        /\ ReleaseInv' /\ OneRecordPerSource' /\ PublishedInv' /\ OnePublished' /\ ExecutorsInv'
        /\ PrefixInv' /\ SuccessIsReleased'
    BY <1>1, <2>1, <2>2, Unwritten
  <2>4. \A d \in Run : RunOK(d, run[d])'
    BY <1>1, <2>1, <2>2, <2>3, QuietRunStands
  <2>5. RunInv'
    BY <2>1, <2>4 DEF RunInv, Inv
  <2>6. GroupInv'
    BY <2>1 DEF Inv, GroupInv, AtWork
  <2> QED
    BY <2>2, <2>3, <2>5, <2>6 DEF Inv
<1> QED
  BY <1>7, <1>8

\* The owner's rerun of a failed attempt keeps it.
LEMMA RerunInv ==
    ASSUME Inv, NEW c \in Commit, Rerun(c)
    PROVE  Inv' /\ Evolves
<1> USE DEF PendingStatus
<1> DEFINE k == Len(records[c])
           s == Append(records[c], Ordinary(c))
<1>0. PICK f : f = [run[c] EXCEPT !.pc = "ci"]
  OBVIOUS
<1>1. c \in Run /\ c \notin Dispatch
  BY RunKinds
<1>2. /\ run[c].pc = "idle" /\ c \notin FrozenSources /\ records[c] # <<>> /\ k < MaxAttempts
      /\ records' = [records EXCEPT ![c] = s]
      /\ UNCHANGED <<main, pr, ci, codeql, tags, releases, setting, disturbances>>
  BY <1>1 DEF Rerun, Running, Attempt, Inv, RecordInv
<1>3. run' = [run EXCEPT ![c] = f]
  BY <1>0, <1>1 DEF Rerun, Inv, RunInv
<1>4. /\ records \in [Run -> Seq(AttemptSet)] /\ records[c] \in Seq(AttemptSet) /\ k \in Nat
      /\ AttemptsOK(c, records[c])
  BY <1>1 DEF Inv, RecordInv
<1>5. k > 0
  BY <1>2, <1>4, EmptySeq
<1>6. run[c] \in RunSet /\ RunOK(c, run[c])
  BY <1>1, RunFacts
<1>7. \A i \in 1..k : records[c][i].status = "completed"
  BY <1>2, <1>6 DEF RunOK, AttemptOK
<1>8. s \in Seq(AttemptSet) /\ Len(s) = k + 1 /\ s[k + 1] = Ordinary(c)
      /\ \A i \in 1..k : s[i] = records[c][i]
  BY <1>4, OrdinaryAttempt
<1> HIDE DEF s
<1>9. AttemptsOK(c, s)
  <2>1. Len(s) <= MaxAttempts
    BY <1>2, <1>4, <1>8, BoundsAssumption
  <2>2. ASSUME NEW i \in 1..Len(s)
        PROVE  /\ s[i].event = "workflow_run"
               /\ s[i].workflow = "platform-release"
               /\ s[i].head = c
               /\ i < Len(s) => s[i].status = "completed"
               /\ s[i].status = "completed" <=> s[i].conclusion # "none"
    <3>1. CASE i = k + 1
      <4>1. s[i] = Ordinary(c) /\ ~(i < Len(s))
        BY <1>4, <1>8, <3>1
      <4> QED
        BY <4>1, OrdinaryAttempt
    <3>2. CASE i # k + 1
      <4>1. i \in 1..k
        BY <1>4, <1>8, <3>2
      <4> QED
        BY <1>1, <1>4, <1>7, <1>8, <4>1 DEF AttemptsOK
    <3> QED
      BY <3>1, <3>2
  <2> QED
    BY <1>1, <2>1, <2>2 DEF AttemptsOK
<1>10. CIInv' /\ SuccessStays
  BY <1>2, SameCI
<1>11. ci'[c] = "success" /\ c <= Len(main)
  BY <1>2, <1>5 DEF Inv, RecordInv
<1>12. /\ Evolves
       /\ MainInv' /\ TagInv' /\ RecordInv'
       /\ ReleaseInv' /\ OneRecordPerSource' /\ PublishedInv' /\ OnePublished' /\ ExecutorsInv'
       /\ PrefixInv'
       /\ \A d \in Run \ {c} : records'[d] = records[d]
  <2>1. k <= Len(s) /\ \A i \in 1..k : /\ s[i].head = records[c][i].head
                                       /\ s[i].event = records[c][i].event
                                       /\ s[i].workflow = records[c][i].workflow
                                       /\ records[c][i].status = "completed" => s[i] = records[c][i]
    BY <1>4, <1>8
  <2> QED
    BY <1>1, <1>2, <1>8, <1>9, <1>10, <1>11, <2>1, AttemptStep
<1>13. records'[c] = s
  BY <1>1, <1>2, <1>4
<1>14. SuccessIsReleased'
  <2>1. ASSUME NEW i \in DOMAIN records'[c], records'[c][i].conclusion = "success"
        PROVE  i \in DOMAIN records[c] /\ records[c][i].conclusion = "success"
    <3>1. i \in 1..k + 1
      BY <1>8, <1>13, LenProperties
    <3>2. i # k + 1
      BY <1>8, <1>13, <2>1, OrdinaryAttempt
    <3>3. i \in 1..k
      BY <1>4, <3>1, <3>2
    <3> QED
      BY <1>4, <1>8, <1>13, <2>1, <3>3
  <2> QED
    BY <1>1, <1>12, <2>1, AttemptsSucceed
<1>15. f \in RunSet /\ f.pc = "ci"
  BY <1>0, <1>6 DEF RunSet, Step
<1>16. RunOK(c, f)'
  <2>1. PcOK(c, f) /\ f.pc \notin SelectedPc
    BY <1>1, <1>2, <1>15 DEF PcOK, CommitPc, Step, SelectedPc, EdgePc
  <2>2. AttemptOK(c, f)'
    <3>1. Len(s) > 0 /\ s[Len(s)].status = PendingStatus
      BY <1>4, <1>8, OrdinaryAttempt
    <3> QED
      BY <1>1, <1>13, <1>15, <3>1 DEF AttemptOK
  <2> QED
    BY <1>1, <1>15, <2>1, <2>2, LooseOK
<1>17. \A d \in Run \ {c} : RunOK(d, run[d])'
  BY <1>1, <1>2, <1>3, <1>12, OthersStand
<1>18. RunInv' /\ GroupInv'
  BY <1>1, <1>3, <1>15, <1>16, <1>17, OneRunMoves
<1> QED
  BY <1>10, <1>12, <1>14, <1>18 DEF Inv
\* An attempt that ends leaves its run idle and its attempt complete.
LEMMA FinishesKeeps ==
    ASSUME Inv, NEW c \in Run, NEW conclusion \in {"success", "failure"}, Finishes(c, conclusion)
    PROVE  /\ Evolves
           /\ MainInv' /\ CIInv' /\ TagInv' /\ RecordInv'
           /\ ReleaseInv' /\ OneRecordPerSource' /\ PublishedInv' /\ OnePublished' /\ ExecutorsInv'
           /\ PrefixInv' /\ RunInv' /\ GroupInv'
           /\ \A d \in Run \ {c} : records'[d] = records[d]
           /\ Len(records'[c]) = Len(records[c]) /\ Len(records[c]) \in Nat
           /\ \A i \in 1..Len(records[c]) : i # Len(records[c]) => records'[c][i] = records[c][i]
           /\ records'[c][Len(records[c])].status = "completed"
           /\ records'[c][Len(records[c])].conclusion = conclusion
<1>0. PICK f : f = [Idle EXCEPT !.ctx = run[c].ctx]
  OBVIOUS
<1> DEFINE k == Len(records[c])
<1>1. PICK s : s = [records[c] EXCEPT ![k] = Completed(conclusion, records[c][k])]
  OBVIOUS
<1>2. /\ records' = [records EXCEPT ![c] = s]
      /\ k \in Nat /\ k > 0
      /\ records[c][k] \in AttemptSet /\ records[c][k].status = PendingStatus
      /\ s \in Seq(AttemptSet) /\ Len(s) = k
      /\ s[k].status = "completed" /\ s[k].conclusion = conclusion
      /\ s[k].head = records[c][k].head
      /\ s[k].event = records[c][k].event
      /\ s[k].workflow = records[c][k].workflow
      /\ \A i \in 1..k : i # k => s[i] = records[c][i]
  BY <1>1, FinishedRecord
<1>3. /\ run' = [run EXCEPT ![c] = f]
      /\ UNCHANGED <<main, pr, ci, codeql, tags, releases, setting>>
      /\ run[c].pc # "idle"
  BY <1>0 DEF Finishes, End, Running
<1>4. /\ records \in [Run -> Seq(AttemptSet)] /\ AttemptsOK(c, records[c])
      /\ c \in Commit => ci[c] = "success" /\ c <= Len(main)
  BY <1>2 DEF Inv, RecordInv
<1>5. k \in 1..k
  BY <1>2
<1> HIDE DEF k
<1>6. AttemptsOK(c, s)
  <2>1. Len(s) <= MaxAttempts /\ (c \in Dispatch => Len(s) <= 1)
    BY <1>2, <1>4 DEF AttemptsOK, k
  <2>2. ASSUME NEW i \in 1..Len(s)
        PROVE  /\ s[i].event = (IF c \in Dispatch THEN "workflow_dispatch" ELSE "workflow_run")
               /\ s[i].workflow =
                     (IF c \in Dispatch THEN "platform-release-recovery" ELSE "platform-release")
               /\ c \in Commit => s[i].head = c
               /\ i < Len(s) => s[i].status = "completed"
               /\ s[i].status = "completed" <=> s[i].conclusion # "none"
    <3>1. CASE i = k
      <4>1. ~(i < Len(s))
        BY <1>2, <3>1
      <4> QED
        BY <1>2, <1>4, <1>5, <3>1, <4>1 DEF AttemptsOK, k
    <3>2. CASE i # k
      <4>1. i \in 1..k /\ s[i] = records[c][i]
        BY <1>2, <3>2
      <4> QED
        BY <1>2, <1>4, <4>1 DEF AttemptsOK, k
    <3> QED
      BY <3>1, <3>2
  <2> QED
    BY <2>1, <2>2 DEF AttemptsOK
<1>7. CIInv' /\ SuccessStays
  BY <1>3, SameCI
<1>8. ASSUME NEW i \in 1..k
      PROVE  /\ s[i].head = records[c][i].head
             /\ s[i].event = records[c][i].event
             /\ s[i].workflow = records[c][i].workflow
             /\ records[c][i].status = "completed" => s[i] = records[c][i]
  <2>1. CASE i = k
    BY <1>2, <2>1 DEF PendingStatus
  <2>2. CASE i # k
    BY <1>2, <2>2
  <2> QED
    BY <2>1, <2>2
<1>9. /\ Evolves
      /\ MainInv' /\ TagInv' /\ RecordInv'
      /\ ReleaseInv' /\ OneRecordPerSource' /\ PublishedInv' /\ OnePublished' /\ ExecutorsInv'
      /\ PrefixInv'
      /\ \A d \in Run \ {c} : records'[d] = records[d]
  <2>1. k <= Len(s)
    BY <1>2
  <2>2. c \in Commit /\ Len(s) > 0 => ci'[c] = "success" /\ c <= Len(main)
    BY <1>3, <1>4
  <2> QED
    BY <1>2, <1>3, <1>6, <1>7, <1>8, <2>1, <2>2, AttemptStep DEF k
<1>10. records'[c] = s
  BY <1>2, <1>4
<1>11. run[c] \in RunSet /\ RunOK(c, run[c])
  BY RunFacts
<1>12. /\ f \in RunSet /\ f.pc = "idle" /\ f.source = 0 /\ f.at = "start"
  <2>1. run[c].ctx \in 0..MaxMain
    BY <1>11 DEF RunSet
  <2> QED
    BY <1>0, <2>1, IdleStands
<1>13. RunOK(c, f)'
  <2>1. PcOK(c, f) /\ f.pc \notin SelectedPc
    BY <1>12 DEF PcOK, CommitPc, DispatchPc, SelectedPc, EdgePc
  <2>2. \A i \in 1..Len(s) : s[i].status = "completed"
    <3>1. ASSUME NEW i \in 1..k PROVE s[i].status = "completed"
      <4>1. CASE i = k
        BY <1>2, <4>1
      <4>2. CASE i # k
        <5>1. i < k /\ s[i] = records[c][i]
          BY <1>2, <4>2
        <5>2. i \in 1..Len(s) /\ i < Len(s)
          BY <1>2, <5>1
        <5> QED
          BY <1>6, <5>2 DEF AttemptsOK
      <4> QED
        BY <4>1, <4>2
    <3> QED
      BY <1>2, <3>1
  <2>3. AttemptOK(c, f)'
    BY <1>10, <1>12, <2>2 DEF AttemptOK
  <2> QED
    BY <1>12, <2>1, <2>3, LooseOK
<1>14. \A d \in Run \ {c} : RunOK(d, run[d])'
  BY <1>3, <1>9, OthersStand
<1>15. RunInv' /\ GroupInv'
  BY <1>3, <1>12, <1>13, <1>14, OneRunMoves
<1> QED
  BY <1>2, <1>7, <1>9, <1>10, <1>15 DEF k

\* The settled run of a source left it released.
LEMMA SettledIsReleased ==
    ASSUME Inv, NEW c \in Commit, Finishes(c, "success"), run[c].pc = "settle",
           CurrentRelease(c) = "exact", CurrentTag(c) = "exact"
    PROVE  \E v \in Version : tags'[v].source = c /\ ReleasedVersion(v)'
<1>0. PICK v : v = run[c].version
  OBVIOUS
<1> DEFINE k == Len(records[c])
<1>1. c \in Run /\ c \notin Dispatch
  BY RunKinds
<1>2. /\ Evolves
      /\ Len(records'[c]) = k /\ k \in Nat
      /\ records'[c][k].status = "completed"
      /\ records'[c][k].conclusion = "success"
  BY <1>1, FinishesKeeps
<1>3. UNCHANGED <<tags, releases, ci>>
  BY DEF Finishes
<1>4. run[c] \in RunSet /\ RunOK(c, run[c]) /\ run[c].pc \in EdgePc
  BY <1>1, RunFacts DEF EdgePc
<1>5. Source(c) = c /\ v \in Version
  BY <1>0, <1>1, <1>4 DEF RunOK, EdgeOK, OnEdge, Source, RunSet
<1>6. tags[v].source = c
  <2>1. TagIsExact(tags[v], c)
    BY <1>0, <1>5, VerdictSays, Zenon DEF CurrentTag, TagState, TagIsExact
  <2> QED
    BY <2>1 DEF TagIsExact
<1>7. PICK q \in Published(v) :
        /\ IdentityReleaseIsExact(q, v, c, FALSE)
        /\ OwnIdentity(c, q.identity) \/ RunsAreProven(q.identity, records, ci)
  <2> DEFINE shown == Published(run[c].version)
             X == \E q \in shown :
                     /\ IdentityReleaseIsExact(q, run[c].version, Source(c), FALSE)
                     /\ OwnIdentity(c, q.identity) \/ RunsAreProven(q.identity, records, ci)
             here == shown # {}
  <2>1. Verdict(here, X) = "exact"
    BY DEF CurrentRelease
  <2>2. here \in BOOLEAN /\ X \in BOOLEAN
    OBVIOUS
  <2> HIDE DEF here, X
  <2>3. X
    BY <2>1, <2>2, VerdictSays
  <2> QED
    BY <1>0, <1>5, <2>3 DEF X
<1> DEFINE e == q.identity
<1>8. q \in releases /\ q.version = v /\ ~q.draft
  BY DEF Published
<1>9. e \in IdentitySet /\ IdentityIsOwed(e)
  BY <1>7, <1>8, ExactIsOwed DEF Inv
<1>10. RunsAreProven(e, records', ci')
  <2>1. CASE RunsAreProven(e, records, ci)
    BY <1>2, <1>9, <2>1, ProvenStays DEF Inv
  <2>2. CASE OwnIdentity(c, e)
    <3>1. e.publisher.run = c /\ e.publisher.attempt = k
      BY <2>2 DEF OwnIdentity, Attempt
    <3>2. IdentityIsOwed(e)'
      BY <1>2, <1>9, OwedStays DEF Inv
    <3>3. PublisherRecord(e, records') = records'[c][k]
      BY <3>1 DEF PublisherRecord
    <3>4. EpochOf(e.version) = 4 => validate_execution(e)
      BY <1>7 DEF IdentityReleaseIsExact, validate_identity
    <3>5. PublisherRecordAgrees(e, PublisherRecord(e, records')) /\ MainRecordsAgree(e, ci')
      BY <3>2 DEF IdentityIsOwed
    <3> QED
      BY <1>2, <3>3, <3>4, <3>5 DEF RunsAreProven
  <2> QED
    BY <1>7, <2>1, <2>2
<1>11. ReleasedVersion(v)'
  BY <1>3, <1>6, <1>7, <1>8, <1>10 DEF ReleasedVersion, Published
<1> QED
  BY <1>3, <1>5, <1>6, <1>11

\* An attempt that ends keeps it; one that succeeds leaves its source released.
LEMMA FinishesInv ==
    ASSUME Inv, NEW c \in Run, NEW conclusion \in {"success", "failure"}, Finishes(c, conclusion),
           conclusion = "success" =>
              run[c].pc = "settle" /\ CurrentRelease(c) = "exact" /\ CurrentTag(c) = "exact"
    PROVE  Inv' /\ Evolves
<1> DEFINE k == Len(records[c])
<1>1. /\ Evolves
      /\ MainInv' /\ CIInv' /\ TagInv' /\ RecordInv'
      /\ ReleaseInv' /\ OneRecordPerSource' /\ PublishedInv' /\ OnePublished' /\ ExecutorsInv'
      /\ PrefixInv' /\ RunInv' /\ GroupInv'
      /\ \A d \in Run \ {c} : records'[d] = records[d]
      /\ Len(records'[c]) = k /\ k \in Nat
      /\ \A i \in 1..k : i # k => records'[c][i] = records[c][i]
      /\ records'[c][k].conclusion = conclusion
  BY FinishesKeeps
<1>2. DOMAIN records[c] = 1..k
  BY LenProperties DEF Inv, RecordInv
<1>3. DOMAIN records'[c] = 1..k
  BY <1>1, LenProperties DEF RecordInv
<1> HIDE DEF k
<1>4. SuccessIsReleased'
  <2>1. ASSUME c \in Commit, NEW i \in DOMAIN records'[c], records'[c][i].conclusion = "success"
        PROVE  \/ i \in DOMAIN records[c] /\ records[c][i].conclusion = "success"
               \/ \E v \in Version : tags'[v].source = c /\ ReleasedVersion(v)'
    <3>1. CASE i = k
      <4>1. conclusion = "success"
        BY <1>1, <2>1, <3>1
      <4> QED
        BY <2>1, <4>1, SettledIsReleased
    <3>2. CASE i # k
      BY <1>1, <1>2, <1>3, <2>1, <3>2
    <3> QED
      BY <3>1, <3>2
  <2> QED
    BY <1>1, <2>1, AttemptsSucceed
<1> QED
  BY <1>1, <1>4 DEF Inv
\* StartDispatch, run by run.
LEMMA StartedDispatch ==
    ASSUME Inv, NEW d \in Dispatch, StartDispatch(d), NEW e \in Run
    PROVE  /\ e = d => /\ run'[e] = [Idle EXCEPT !.pc = "queued", !.ctx = Tip]
                       /\ records'[e] = <<Started(Tip, "workflow_dispatch", "platform-release-recovery")>>
           /\ e # d /\ run[e].pc = "queued" =>
                 /\ run'[e] = Idle /\ records'[e] = <<Completed("cancelled", records[e][1])>>
           /\ e # d /\ run[e].pc # "queued" =>
                 run'[e] = run[e] /\ records'[e] = records[e]
<1>1. /\ run' = [g \in Run |-> CASE g = d     -> [Idle EXCEPT !.pc = "queued", !.ctx = Tip]
                                 [] Queued(g) -> Idle
                                 [] OTHER     -> run[g]]
      /\ records' = [g \in Run |->
            CASE g = d     -> <<Started(Tip, "workflow_dispatch", "platform-release-recovery")>>
              [] Queued(g) -> <<Completed("cancelled", records[g][1])>>
              [] OTHER     -> records[g]]
      /\ records[d] = <<>>
  BY DEF StartDispatch
<1>2. Len(records[d]) = 0
  BY <1>1, EmptySeq
<1>3. run[d].pc = "idle"
  <2>1. AttemptOK(d, run[d])
    BY RunFacts, RunKinds DEF RunOK
  <2> QED
    BY <1>2, <2>1 DEF AttemptOK
<1> DEFINE q == Queued(e)
<1>4. /\ run'[e] = CASE e = d -> [Idle EXCEPT !.pc = "queued", !.ctx = Tip]
                     [] q     -> Idle
                     [] OTHER -> run[e]
      /\ records'[e] = CASE e = d -> <<Started(Tip, "workflow_dispatch", "platform-release-recovery")>>
                         [] q     -> <<Completed("cancelled", records[e][1])>>
                         [] OTHER -> records[e]
  BY <1>1, Zenon
<1>5. q <=> run[e].pc = "queued"
  BY DEF Queued
<1> HIDE DEF q
<1>6. CASE e = d
  <2>1. ~q
    BY <1>3, <1>5, <1>6
  <2> QED
    BY <1>4, <1>6, <2>1, Zenon
<1>7. CASE e # d /\ q
  BY <1>4, <1>5, <1>7, Zenon
<1>8. CASE e # d /\ ~q
  BY <1>4, <1>5, <1>8, Zenon
<1> QED
  BY <1>6, <1>7, <1>8

\* A dispatch that takes its place in the group keeps it.
LEMMA StartDispatchInv ==
    ASSUME Inv, NEW d \in Dispatch, StartDispatch(d)
    PROVE  Inv' /\ Evolves
<1> USE DEF PendingStatus
<1> DEFINE new == Started(Tip, "workflow_dispatch", "platform-release-recovery")
<1>1. /\ records[d] = <<>>
      /\ UNCHANGED <<main, pr, ci, codeql, tags, releases, setting, disturbances>>
  BY DEF StartDispatch
<1>2. MainInv' /\ MainGrows /\ CIInv' /\ SuccessStays
  BY <1>1, SameMain, SameCI
<1>3. TagInv' /\ TagsStay
  BY <1>1, <1>2, SameTags
<1>4. /\ records \in [Run -> Seq(AttemptSet)]
      /\ \A e \in Run : AttemptsOK(e, records[e])
      /\ \A e \in Commit : Len(records[e]) > 0 => ci[e] = "success" /\ e <= Len(main)
  BY DEF Inv, RecordInv
<1>5. /\ Tip \in 0..MaxMain
      /\ new \in AttemptSet /\ new.head = Tip /\ new.event = "workflow_dispatch"
      /\ new.workflow = "platform-release-recovery"
      /\ new.status = PendingStatus /\ new.conclusion = "none"
  <2>1. Tip \in 0..MaxMain
    BY InvLedger, BoundsAssumption DEF Tip
  <2> QED
    BY <2>1 DEF Started, AttemptSet, EventSet, WorkflowSet
<1> HIDE DEF new
\* What becomes of the dispatches that were waiting.
<1>6. ASSUME NEW e \in Run, e # d, run[e].pc = "queued"
      PROVE  LET x == records[e][1]
                 y == Completed("cancelled", x)
             IN  /\ e \in Dispatch /\ Len(records[e]) = 1
                 /\ x \in AttemptSet /\ x.status = PendingStatus
                 /\ run'[e] = Idle /\ records'[e] = <<y>>
                 /\ y \in AttemptSet /\ y.status = "completed" /\ y.conclusion = "cancelled"
                 /\ y.head = x.head /\ y.event = x.event /\ y.workflow = x.workflow
  <2> DEFINE x == records[e][1]
             y == Completed("cancelled", x)
             k == Len(records[e])
  <2>1. e \in Dispatch
    BY <1>6, PcKind
  <2>2. AttemptOK(e, run[e]) /\ AttemptsOK(e, records[e]) /\ records[e] \in Seq(AttemptSet)
    BY <1>4, RunFacts DEF RunOK
  <2>3. k \in Nat /\ k > 0 /\ k <= 1
    BY <1>6, <2>1, <2>2 DEF AttemptOK, AttemptsOK
  <2>4. records[e][k].status = PendingStatus
    BY <1>6, <2>2 DEF AttemptOK
  <2> HIDE DEF k
  <2>5. k = 1
    BY <2>3
  <2>6. x \in AttemptSet /\ x.status = PendingStatus
    <3>1. 1 \in 1..Len(records[e])
      BY <2>5 DEF k
    <3> QED
      BY <2>2, <2>4, <2>5, <3>1, ElementOfSeq
  <2>7. /\ y \in AttemptSet /\ y.status = "completed" /\ y.conclusion = "cancelled"
        /\ y.head = x.head /\ y.event = x.event /\ y.workflow = x.workflow
    BY <2>6 DEF Completed, AttemptSet
  <2>8. run'[e] = Idle /\ records'[e] = <<y>>
    BY <1>6, StartedDispatch
  <2> HIDE DEF x, y
  <2> QED
    BY <2>1, <2>5, <2>6, <2>7, <2>8 DEF x, y, k
<1>7. ASSUME NEW e \in Run, e # d, run[e].pc # "queued"
      PROVE  run'[e] = run[e] /\ records'[e] = records[e]
  BY <1>7, StartedDispatch
<1>8. /\ d \in Run /\ d \notin Commit
      /\ run'[d] = [Idle EXCEPT !.pc = "queued", !.ctx = Tip] /\ records'[d] = <<new>>
  BY StartedDispatch, RunKinds DEF new
<1>81. PICK g : g = [Idle EXCEPT !.pc = "queued", !.ctx = Tip]
  OBVIOUS
<1>82. g \in RunSet /\ g.pc = "queued" /\ g.ctx = Tip /\ g.source = 0 /\ g.at = "start"
  <2>1. "queued" \in Step \cup {"idle"}
    BY DEF Step
  <2> QED
    BY <1>5, <1>81, <2>1, IdleType
<1>9. Len(records[d]) = 0
  BY <1>1, EmptySeq
<1>10. RecordsGrow
  <2>1. ASSUME NEW e \in Run
        PROVE  /\ Len(records[e]) <= Len(records'[e])
               /\ \A i \in 1..Len(records[e]) :
                     /\ records'[e][i].head = records[e][i].head
                     /\ records'[e][i].event = records[e][i].event
                     /\ records'[e][i].workflow = records[e][i].workflow
                     /\ records[e][i].status = "completed" => records'[e][i] = records[e][i]
    <3>1. CASE e = d
      BY <1>8, <1>9, <3>1
    <3>2. CASE e # d /\ run[e].pc = "queued"
      <4>1. PICK x : x = records[e][1]
        OBVIOUS
      <4>2. PICK y : y = Completed("cancelled", x)
        OBVIOUS
      <4>3. /\ Len(records[e]) = 1 /\ x.status = PendingStatus /\ records'[e] = <<y>>
            /\ y.head = x.head /\ y.event = x.event /\ y.workflow = x.workflow
        BY <1>6, <3>2, <4>1, <4>2
      <4>4. Len(records'[e]) = 1 /\ records'[e][1] = y
        BY <4>3
      <4>5. \A i \in 1..Len(records[e]) : i = 1
        BY <4>3
      <4> QED
        BY <4>1, <4>3, <4>4, <4>5
    <3>3. CASE e # d /\ run[e].pc # "queued"
      <4>1. records'[e] = records[e] /\ Len(records[e]) \in Nat
        BY <1>4, <1>7, <3>3
      <4> QED
        BY <4>1
    <3> QED
      BY <3>1, <3>2, <3>3
  <2> QED
    BY <2>1 DEF RecordsGrow
<1>11. Evolves
  BY <1>1, <1>2, <1>3, <1>10, QuietEvolves
<1>12. ReleaseInv' /\ OneRecordPerSource' /\ PublishedInv' /\ OnePublished' /\ ExecutorsInv'
  BY <1>1, <1>2, <1>11, SameReleases
<1>13. PrefixInv'
  BY <1>11, <1>12, PrefixFollows
<1>14. \A c \in Commit : c \in Run /\ c # d /\ run[c].pc # "queued" /\ records'[c] = records[c]
  <2>1. ASSUME NEW c \in Commit
        PROVE  c \in Run /\ c # d /\ run[c].pc # "queued"
    BY <1>8, RunKinds, PcKind
  <2> QED
    BY <1>7, <2>1
<1>15. SuccessIsReleased'
  BY <1>11, <1>14, SuccessStaysReleased DEF SuccessIsReleased
<1>16. MaxAttempts \in Nat /\ 1 <= MaxAttempts
  BY BoundsAssumption
<1>17. RecordInv'
  <2>1. ASSUME NEW e \in Run
        PROVE  records'[e] \in Seq(AttemptSet) /\ AttemptsOK(e, records'[e])
    <3>1. CASE e = d
      <4>1. records'[e] \in Seq(AttemptSet) /\ Len(records'[e]) = 1 /\ records'[e][1] = new
        <5>1. records'[e] = <<new>> /\ new \in AttemptSet
          BY <1>5, <1>8, <3>1
        <5> QED
          BY <5>1
      <4>2. \A i \in 1..Len(records'[e]) : i = 1 /\ records'[e][i] = new
        BY <4>1
      <4> QED
        BY <1>5, <1>8, <1>16, <3>1, <4>1, <4>2 DEF AttemptsOK
    <3>2. CASE e # d /\ run[e].pc = "queued"
      <4>1. PICK x : x = records[e][1]
        OBVIOUS
      <4>2. PICK y : y = Completed("cancelled", x)
        OBVIOUS
      <4>3. /\ e \in Dispatch /\ Len(records[e]) = 1 /\ records'[e] = <<y>> /\ y \in AttemptSet
            /\ y.status = "completed" /\ y.conclusion = "cancelled"
            /\ y.head = x.head /\ y.event = x.event /\ y.workflow = x.workflow
        BY <1>6, <3>2, <4>1, <4>2
      <4>4. x.event = "workflow_dispatch" /\ x.workflow = "platform-release-recovery"
        <5>1. AttemptsOK(e, records[e]) /\ 1 \in 1..Len(records[e])
          BY <1>4, <4>3
        <5> QED
          BY <4>1, <4>3, <5>1 DEF AttemptsOK
      <4>5. records'[e] \in Seq(AttemptSet) /\ Len(records'[e]) = 1 /\ records'[e][1] = y
        BY <4>3
      <4>6. \A i \in 1..Len(records'[e]) : i = 1 /\ records'[e][i] = y
        BY <4>5
      <4>7. e \notin Commit
        BY <4>3, RunKinds
      <4> QED
        BY <1>16, <4>3, <4>4, <4>5, <4>6, <4>7 DEF AttemptsOK
    <3>3. CASE e # d /\ run[e].pc # "queued"
      <4>1. records'[e] = records[e]
        BY <1>7, <3>3
      <4> QED
        BY <1>4, <4>1
    <3> QED
      BY <3>1, <3>2, <3>3
  <2>2. records' \in [Run -> Seq(AttemptSet)]
    <3>1. records' = [e \in Run |-> records'[e]]
      BY DEF StartDispatch
    <3> QED
      BY <2>1, <3>1
  <2>3. \A c \in Commit : Len(records'[c]) > 0 => ci'[c] = "success" /\ c <= Len(main')
    BY <1>1, <1>4, <1>14
  <2> QED
    BY <2>1, <2>2, <2>3 DEF RecordInv
<1>18. ASSUME NEW e \in Run
       PROVE  run'[e] \in RunSet /\ RunOK(e, run[e])'
  <2>1. CASE e = d
    <3>1. PICK r : r = run'[e]
      OBVIOUS
    <3>2. r \in RunSet /\ r.pc = "queued" /\ r.ctx = Tip /\ r.source = 0 /\ r.at = "start"
      BY <1>8, <1>81, <1>82, <2>1, <3>1
    <3>3. PcOK(e, r) /\ r.pc \notin SelectedPc
      <4>1. e \notin FrozenSources
        BY <1>8, <2>1, FrozenFacts
      <4> QED
        BY <1>8, <2>1, <3>2, <4>1 DEF PcOK, DispatchPc, Step, SelectedPc, EdgePc
    <3>4. AttemptOK(e, r)'
      <4>1. Len(records'[e]) = 1 /\ records'[e][1] = new
        BY <1>8, <2>1
      <4>2. records'[e][Len(records'[e])] = new
        BY <4>1
      <4> QED
        BY <1>5, <3>2, <4>1, <4>2 DEF AttemptOK
    <3>5. RunOK(e, r)'
      BY <3>2, <3>3, <3>4, LooseOK
    <3> QED
      BY <3>1, <3>2, <3>5
  <2>2. CASE e # d /\ run[e].pc = "queued"
    <3>1. PICK r : r = run'[e]
      OBVIOUS
    <3>2. PICK y : y = Completed("cancelled", records[e][1])
      OBVIOUS
    <3>3. e \in Dispatch /\ records'[e] = <<y>> /\ y.status = "completed" /\ r = Idle
      BY <1>6, <2>2, <3>1, <3>2
    <3>4. r \in RunSet /\ r.pc = "idle" /\ r.source = 0 /\ r.at = "start"
      <4>1. 0 \in 0..MaxMain /\ 1 \in Version
        BY BoundsAssumption DEF Version
      <4> QED
        BY <3>3, <4>1 DEF Idle, RunSet, Site, Verdicts
    <3>5. PcOK(e, r) /\ r.pc \notin SelectedPc
      BY <3>4 DEF PcOK, CommitPc, DispatchPc, SelectedPc, EdgePc
    <3>6. AttemptOK(e, r)'
      <4>1. \A i \in 1..Len(records'[e]) : records'[e][i] = y
        BY <3>3
      <4> QED
        BY <3>3, <3>4, <4>1 DEF AttemptOK
    <3>7. RunOK(e, r)'
      BY <3>4, <3>5, <3>6, LooseOK
    <3> QED
      BY <3>1, <3>4, <3>7
  <2>3. CASE e # d /\ run[e].pc # "queued"
    <3>1. run'[e] = run[e] /\ records'[e] = records[e]
      BY <1>7, <2>3
    <3> QED
      BY <1>1, <1>2, <1>11, <3>1, QuietRunStands, RunFacts
  <2> QED
    BY <2>1, <2>2, <2>3
<1>19. RunInv'
  <2>1. run' = [e \in Run |-> run'[e]]
    BY DEF StartDispatch
  <2> QED
    BY <1>18, <2>1 DEF RunInv
<1>20. GroupInv'
  <2>1. ASSUME NEW e \in Dispatch, AtWork(e)' PROVE AtWork(e)
    <3>1. run'[e].pc \notin {"idle", "queued"} /\ e \in Run
      BY <2>1, RunKinds DEF AtWork
    <3>2. e # d
      BY <1>8, <1>81, <1>82, <3>1
    <3>3. run[e].pc # "queued"
      BY <1>6, <3>1, <3>2 DEF Idle
    <3> QED
      BY <1>7, <3>1, <3>2, <3>3 DEF AtWork
  <2> QED
    BY <2>1 DEF Inv, GroupInv
<1> QED
  BY <1>2, <1>3, <1>11, <1>12, <1>13, <1>15, <1>17, <1>19, <1>20 DEF Inv
-----------------------------------------------------------------------------
(***************************************************************************)
(* Steps that write a release record.                                      *)
(***************************************************************************)
\* A step that writes release records alone, no published one, keeps the rest.
LEMMA WriteKeeps ==
    ASSUME Inv, UNCHANGED <<main, pr, ci, codeql, tags, records>>, PublishedStays
    PROVE  Evolves /\ MainInv' /\ CIInv' /\ TagInv' /\ RecordInv' /\ SuccessIsReleased'
<1>1. MainInv' /\ MainGrows /\ CIInv' /\ SuccessStays
  BY SameMain, SameCI
<1>2. TagInv' /\ TagsStay
  BY <1>1, SameTags
<1>3. RecordsGrow
  BY SameRecordsGrow
<1>4. Evolves
  BY <1>1, <1>2, <1>3 DEF Evolves
<1>5. SuccessIsReleased' /\ RecordInv'
  BY <1>1, <1>4, SameRecordsSucceed, SameRecords
<1> QED
  BY <1>1, <1>2, <1>4, <1>5

\* A step that publishes nothing.
LEMMA DraftsOnly ==
    ASSUME Inv, Evolves, MainInv', \A q \in releases' : ~q.draft => q \in releases
    PROVE  PublishedInv' /\ OnePublished' /\ ExecutorsInv' /\ PrefixInv'
<1>1. PublishedInv'
  BY PublishedStaysOK DEF PublishedInv
<1>2. OnePublished' /\ ExecutorsInv'
  BY DEF Inv, OnePublished, ExecutorsInv
<1> QED
  BY <1>1, <1>2, PrefixFollows

\* A new draft.
LEMMA AddDraft ==
    ASSUME Inv, Evolves, NEW x \in ReleaseSet, x.draft, x.id = NextId, x.version # 1,
           x.identity = NoAsset, releases' = releases \cup {x}
    PROVE  ReleaseInv'
<1> DEFINE k == Cardinality(releases)
<1>1. /\ releases \subseteq ReleaseSet /\ IsFiniteSet(releases)
      /\ \A q, r \in releases : q.id = r.id => q = r
      /\ \A q \in releases : q.id \in 1..k
      /\ FloorRelease \in releases
      /\ \A q \in releases : q.version = 1 => q = FloorRelease
  BY DEF Inv, ReleaseInv
<1>2. k \in Nat /\ x.id = 1 + k
  BY <1>1, FS_CardinalityType DEF NextId
<1>3. \A q \in releases : q.id # x.id
  BY <1>1, <1>2
<1>4. x \notin releases
  BY <1>3
<1>5. IsFiniteSet(releases') /\ Cardinality(releases') = k + 1
  BY <1>1, <1>4, FS_AddElement
<1> HIDE DEF k
<1>6. \A q \in releases' : q.id \in 1..k + 1
  BY <1>1, <1>2
<1>7. \A q, r \in releases' : q.id = r.id => q = r
  BY <1>1, <1>3
<1>8. \A q \in releases' : q.identity # NoAsset => IdentityIsOwed(q.identity)'
  BY OldIdentitiesOwed
<1>9. \A q \in releases' : q.version = 1 => q = FloorRelease
  BY <1>1
<1> QED
  BY <1>1, <1>5, <1>6, <1>7, <1>8, <1>9 DEF ReleaseInv

\* A record of a later version that is rewritten under its own id.
LEMMA PatchRelease ==
    ASSUME Inv, Evolves, NEW q \in releases, q.draft, NEW x \in ReleaseSet,
           x.id = q.id, x.version = q.version, x.target = q.target, x.bot = q.bot,
           x.identity # NoAsset => IdentityIsOwed(x.identity)',
           releases' = (releases \ {q}) \cup {x}
    PROVE  ReleaseInv' /\ OneRecordPerSource' /\ q.version # 1
<1> DEFINE k == Cardinality(releases)
<1>1. /\ releases \subseteq ReleaseSet /\ IsFiniteSet(releases)
      /\ \A p, r \in releases : p.id = r.id => p = r
      /\ \A p \in releases : p.id \in 1..k
      /\ FloorRelease \in releases
      /\ \A p \in releases : p.version = 1 => p = FloorRelease
  BY DEF Inv, ReleaseInv
<1>2. k \in Nat
  BY <1>1, FS_CardinalityType
<1>3. q # FloorRelease /\ q.version # 1
  <2>1. FloorRelease.draft = FALSE
    BY DEF FloorRelease
  <2> QED
    BY <1>1, <2>1
<1>4. IsFiniteSet(releases \ {q}) /\ Cardinality(releases \ {q}) = k - 1
  BY <1>1, FS_RemoveElement
<1>5. x \notin releases \ {q}
  BY <1>1
<1>6. IsFiniteSet(releases') /\ Cardinality(releases') = k - 1 + 1
  <2> DEFINE rest == releases \ {q}
  <2>1. IsFiniteSet(rest) /\ x \notin rest /\ Cardinality(rest) = k - 1 /\ releases' = rest \cup {x}
    BY <1>4, <1>5
  <2> HIDE DEF rest, k
  <2>2. IsFiniteSet(rest \cup {x}) /\ Cardinality(rest \cup {x}) = Cardinality(rest) + 1
    BY <2>1, FS_AddElement
  <2> QED
    BY <2>1, <2>2
<1> HIDE DEF k
<1>7. Cardinality(releases') = k
  BY <1>2, <1>6
<1>8. \A p \in releases' : p.id \in 1..k
  BY <1>1
<1>9. \A p, r \in releases' : p.id = r.id => p = r
  BY <1>1
<1>10. \A p \in releases' : p.identity # NoAsset => IdentityIsOwed(p.identity)'
  BY OldIdentitiesOwed
<1>11. FloorRelease \in releases' /\ \A p \in releases' : p.version = 1 => p = FloorRelease
  BY <1>1, <1>3
<1>12. ReleaseInv'
  BY <1>1, <1>6, <1>7, <1>8, <1>9, <1>10, <1>11 DEF ReleaseInv
<1>13. OneRecordPerSource'
  BY DEF Inv, OneRecordPerSource
<1> QED
  BY <1>3, <1>12, <1>13

\* No two runs are bound to one version and target.
LEMMA OneOwner ==
    ASSUME Inv, NEW c \in Run, NEW d \in Run, run[c].pc \in EdgePc, OnEdge(d, run[d]),
           run[c].version = run[d].version,
           \/ d \in Dispatch
           \/ release_target(run[c].version, run[c].source)
                 = release_target(run[d].version, run[d].source)
    PROVE  c = d
<1>1. EdgeOK(c, run[c]) /\ EdgeOK(d, run[d]) /\ OnEdge(c, run[c])
  BY RunFacts DEF RunOK, OnEdge
<1>2. CASE IsHistorical(run[c].version)
  <2>1. c \in Dispatch /\ d \in Dispatch
    BY <1>1, <1>2 DEF EdgeOK
  <2>2. AtWork(c) /\ AtWork(d)
    BY <2>1 DEF AtWork, OnEdge, EdgePc, SelectedPc
  <2> QED
    BY <2>1, <2>2 DEF Inv, GroupInv
<1>3. CASE ~IsHistorical(run[c].version)
  BY <1>1, <1>3 DEF EdgeOK, release_target
<1> QED
  BY <1>2, <1>3

\* The holding and creating pcs are bound ones.
LEMMA PcSets ==
    /\ HoldingPc \subseteq EdgePc /\ "create" \in EdgePc /\ "create" \notin HoldingPc
    /\ EdgePc \subseteq SelectedPc
    /\ "idle" \notin SelectedPc /\ "queued" \notin SelectedPc
BY DEF HoldingPc, EdgePc, SelectedPc

\* The draft that the owner opens by hand keeps the invariant.
LEMMA OwnerDraftInv ==
    ASSUME Inv, OwnerDraft
    PROVE  Inv' /\ Evolves
<1>1. /\ UNCHANGED <<main, pr, ci, codeql, tags, setting, run, records>>
      /\ \E v \in 2..MaxVersion :
            releases' = releases \cup
            {[id |-> NextId, version |-> v, target |-> MainTarget, body |-> ForeignBody,
              draft |-> TRUE, immutable |-> FALSE, bot |-> FALSE,
              identity |-> NoAsset, bundle |-> NoAsset]}
  BY DEF OwnerDraft
<1>2. PICK v \in 2..MaxVersion :
         releases' = releases \cup
            {[id |-> NextId, version |-> v, target |-> MainTarget, body |-> ForeignBody,
              draft |-> TRUE, immutable |-> FALSE, bot |-> FALSE,
              identity |-> NoAsset, bundle |-> NoAsset]}
  BY <1>1
<1>3. PICK x : x = [id |-> NextId, version |-> v, target |-> MainTarget, body |-> ForeignBody,
                    draft |-> TRUE, immutable |-> FALSE, bot |-> FALSE,
                    identity |-> NoAsset, bundle |-> NoAsset]
  OBVIOUS
<1>4. NextId \in Nat
  BY FS_CardinalityType DEF NextId, Inv, ReleaseInv
<1>5. v \in Version /\ v # 1 /\ MainTarget \in 0..MaxMain /\ ForeignBody \in BodySet
  BY BoundsAssumption DEF Version, MainTarget, BodySet
<1>6. /\ x \in ReleaseSet /\ x.draft /\ x.id = NextId /\ x.version # 1 /\ x.bot = FALSE
      /\ x.identity = NoAsset
  BY <1>3, <1>4, <1>5 DEF ReleaseSet
<1>7. releases' = releases \cup {x}
  BY <1>2, <1>3
<1>8. PublishedStays
  BY <1>7 DEF PublishedStays
<1>9. Evolves /\ MainInv' /\ CIInv' /\ TagInv' /\ RecordInv' /\ SuccessIsReleased'
  BY <1>1, <1>8, WriteKeeps
<1>10. PublishedInv' /\ OnePublished' /\ ExecutorsInv' /\ PrefixInv'
  BY <1>6, <1>7, <1>9, DraftsOnly
<1>11. ReleaseInv'
  BY <1>6, <1>7, <1>9, AddDraft
<1>12. OneRecordPerSource'
  BY <1>6, <1>7 DEF Inv, OneRecordPerSource
<1>13. ASSUME NEW d \in Run PROVE RunOK(d, run[d])'
  <2>1. PICK r : r = run[d]
    OBVIOUS
  <2>2. r \in RunSet /\ RunOK(d, r)
    BY <2>1, RunFacts
  <2>3. \A q \in releases' : q.bot \/ ~q.draft => q \in releases
    BY <1>6, <1>7
  <2>4. \A q \in releases : q \in releases'
    BY <1>7
  <2>5. RunOK(d, r)'
    BY <1>1, <1>9, <2>2, <2>3, <2>4, RunStays
  <2> QED
    BY <1>1, <2>1, <2>5
<1>14. RunInv'
  BY <1>1, <1>13 DEF RunInv, Inv
<1>15. GroupInv'
  BY <1>1 DEF Inv, GroupInv, AtWork
<1> QED
  BY <1>9, <1>10, <1>11, <1>12, <1>14, <1>15 DEF Inv
\* The runs beside one that writes the record of its own source: a record x
\* replaces or joins the others, and it carries that run's version and target.
LEMMA OthersKeepTheirs ==
    ASSUME Inv, Evolves, MainInv', UNCHANGED records, NEW c \in Run, run[c].pc \in EdgePc,
           NEW x, x.version = run[c].version,
           x.target = release_target(run[c].version, run[c].source),
           \A p \in releases' : p \in releases \/ p = x,
           \A p \in releases :
              p \in releases' \/ (/\ p.version = x.version /\ p.target = x.target),
           NEW d \in Run \ {c}, NEW r, r = run[d]
    PROVE  RunOK(d, r)'
<1>1. r \in RunSet /\ RunOK(d, r)
  BY RunFacts
<1>2. /\ r.version = x.version
      /\ d \in Dispatch \/ release_target(r.version, r.source) = x.target
      => ~OnEdge(d, r)
  <2> SUFFICES ASSUME r.version = x.version, OnEdge(d, r),
                      d \in Dispatch \/ release_target(r.version, r.source) = x.target
               PROVE  FALSE
    OBVIOUS
  <2>1. c = d
    BY OneOwner
  <2> QED
    BY <2>1
<1>3. r.pc = "create" =>
        \A q \in releases' :
           q.bot /\ q.version = r.version /\ q.target = release_target(r.version, r.source)
              => q \in releases
  BY <1>2, PcSets DEF OnEdge
<1>4. r.pc \in HoldingPc => \A q \in releases : HeldBy(d, r, q) => q \in releases'
  BY <1>2, PcSets DEF OnEdge, HeldBy
<1>5. d \in Dispatch /\ r.pc \in SelectedPc =>
        \A q \in releases' : q.version = r.version /\ ~q.draft =>
                                q \in releases \/ q.identity.publisher.run = d
  BY <1>2 DEF OnEdge
<1>6. records'[d] = records[d]
  OBVIOUS
<1> QED
  BY <1>1, <1>3, <1>4, <1>5, <1>6, RunStays

\* The edge of a bound run.
LEMMA BoundEdge ==
    ASSUME Inv, NEW c \in Run, run[c].pc \in EdgePc
    PROVE  /\ run[c] \in RunSet
           /\ run[c].version \in Version /\ run[c].version - 1 \in Version
           /\ run[c].version # 1 /\ run[c].version \in Nat
           /\ run[c].source \in Commit /\ run[c].source \in 1..Len(main)
           /\ release_target(run[c].version, run[c].source) \in 0..MaxMain
           /\ run[c].pc # "idle" /\ AtWork(c)
<1>1. run[c] \in RunSet /\ EdgeOK(c, run[c]) /\ OnEdge(c, run[c])
  BY RunFacts DEF RunOK, OnEdge
<1>2. run[c].source \in 1..Len(main) /\ run[c].version - 1 \in Version
  BY <1>1 DEF EdgeOK
<1>3. run[c].version \in Version
  BY <1>1 DEF RunSet
<1>4. run[c].version \in Nat /\ run[c].version # 1
  <2>1. run[c].version \in Nat
    BY <1>3, VersionFacts
  <2>2. run[c].version - 1 >= 1
    BY <1>2, VersionFacts
  <2> QED
    BY <2>1, <2>2
<1>5. run[c].source \in Commit /\ release_target(run[c].version, run[c].source) \in 0..MaxMain
  BY <1>2, InvLedger, BoundsAssumption DEF Commit, release_target, MainTarget
<1> QED
  BY <1>1, <1>2, <1>3, <1>4, <1>5, PcSets DEF AtWork

\* The draft that a publisher creates keeps it.
LEMMA CreateInv ==
    ASSUME Inv, NEW c \in Run, Create(c)
    PROVE  Inv' /\ Evolves
<1>0. PICK f : f = [run[c] EXCEPT !.pc = "body", !.draft = NextId]
  OBVIOUS
<1>1. PICK x :
        x = [id |-> NextId, version |-> run[c].version,
             target |-> release_target(run[c].version, Source(c)),
             body |-> DraftMarker(Source(c), run[c].version), draft |-> TRUE, immutable |-> FALSE,
             bot |-> TRUE, identity |-> NoAsset, bundle |-> NoAsset]
  OBVIOUS
<1>2. /\ run[c].pc = "create" /\ Move(c, f) /\ releases' = releases \cup {x} /\ UNCHANGED tags
  BY <1>0, <1>1 DEF Create
<1>3. /\ run' = [run EXCEPT ![c] = f]
      /\ UNCHANGED <<main, pr, ci, codeql, setting, records, disturbances>>
  BY <1>2 DEF Move
<1>4. run[c].pc \in EdgePc
  BY <1>2, PcSets
<1>5. /\ run[c] \in RunSet
      /\ run[c].version \in Version /\ run[c].version # 1 /\ run[c].source \in Commit
      /\ release_target(run[c].version, run[c].source) \in 0..MaxMain
      /\ AtWork(c)
  BY <1>4, BoundEdge
<1>6. NextId \in Nat
  BY FS_CardinalityType DEF NextId, Inv, ReleaseInv
<1>7. DraftMarker(Source(c), run[c].version) \in BodySet
  BY <1>5 DEF DraftMarker, Source, BodySet
<1>8. /\ x \in ReleaseSet /\ x.draft /\ x.id = NextId /\ x.bot /\ x.identity = NoAsset
      /\ x.version = run[c].version
      /\ x.target = release_target(run[c].version, run[c].source)
  BY <1>1, <1>5, <1>6, <1>7 DEF ReleaseSet, Source
<1>9. PublishedStays
  BY <1>2 DEF PublishedStays
<1>10. Evolves /\ MainInv' /\ CIInv' /\ TagInv' /\ RecordInv' /\ SuccessIsReleased'
  BY <1>2, <1>3, <1>9, WriteKeeps
<1>11. PublishedInv' /\ OnePublished' /\ ExecutorsInv' /\ PrefixInv'
  BY <1>2, <1>8, <1>10, DraftsOnly
<1>12. ReleaseInv'
  BY <1>2, <1>5, <1>8, <1>10, AddDraft
<1>13. \A q \in releases : q.bot /\ q.version = x.version => q.target # x.target
  BY <1>2, <1>8, RunFacts DEF RunOK, FreshOK
<1>14. OneRecordPerSource'
  BY <1>2, <1>13 DEF Inv, OneRecordPerSource
<1>15. \A d \in Run \ {c} : RunOK(d, run[d])'
  <2>1. ASSUME NEW d \in Run \ {c} PROVE RunOK(d, run[d])'
    <3>1. PICK r : r = run[d]
      OBVIOUS
    <3>2. (\A p \in releases' : p \in releases \/ p = x) /\ (\A p \in releases : p \in releases')
      BY <1>2
    <3>3. RunOK(d, r)'
      BY <1>3, <1>4, <1>8, <1>10, <3>1, <3>2, OthersKeepTheirs
    <3>4. run'[d] = r
      BY <1>3, <3>1 DEF Inv, RunInv
    <3> QED
      BY <3>3, <3>4
  <2> QED
    BY <2>1
<1>16. /\ f \in RunSet /\ f.pc = "body" /\ f.draft = NextId
       /\ f.version = run[c].version /\ f.source = run[c].source
       /\ RunCore(c, f)
  <2>1. PICK g : g = [run[c] EXCEPT !.pc = "body"]
    OBVIOUS
  <2>2. "body" \in EdgePc /\ "body" \in DispatchPc
    BY DEF EdgePc, DispatchPc, Step
  <2>3. g \in RunSet /\ g.pc = "body" /\ RunCore(c, g)
        /\ g.version = run[c].version /\ g.source = run[c].source
    BY <1>4, <2>1, <2>2, EdgeMove
  <2>4. f = [g EXCEPT !.draft = NextId]
    BY <1>0, <1>5, <2>1 DEF RunSet
  <2>5. /\ f \in RunSet /\ f.draft = NextId
        /\ f.pc = g.pc /\ f.at = g.at /\ f.ctx = g.ctx /\ f.source = g.source
        /\ f.base = g.base /\ f.version = g.version /\ f.notes = g.notes
    BY <1>6, <2>3, <2>4 DEF RunSet
  <2>6. RunCore(c, f)
    BY <2>3, <2>5 DEF RunCore, PcOK, AttemptOK, EdgeOK, OnEdge, NotesOK, CIOK, SelectedOK
  <2> QED
    BY <2>3, <2>5, <2>6
<1>17. RunOK(c, f)'
  <2>1. RunCore(c, f)'
    <3>1. \A q \in releases' : ~q.draft => q \in releases
      BY <1>2, <1>8
    <3> QED
      BY <1>3, <1>10, <1>16, <3>1, CoreStays
  <2>2. HeldBy(c, f, x)'
    BY <1>8, <1>16 DEF HeldBy
  <2>3. HoldOK(c, f)' /\ FreshOK(c, f)'
    BY <1>2, <1>16, <2>2 DEF HoldOK, FreshOK
  <2> QED
    BY <2>1, <2>3 DEF RunCore, RunOK
<1>18. RunInv' /\ GroupInv'
  BY <1>3, <1>5, <1>15, <1>16, <1>17, OneRunMoves
<1> QED
  BY <1>10, <1>11, <1>12, <1>14, <1>18 DEF Inv

\* A draft rewritten by the run that holds it keeps it.
LEMMA DraftPatchInv ==
    ASSUME Inv, NEW c \in Run, DraftPatch(c)
    PROVE  Inv' /\ Evolves
<1>1. PICK q \in releases, x \in ReleaseSet :
        \E f \in RunSet :
           /\ HeldBy(c, run[c], q) /\ run[c].pc \in HoldingPc
           /\ x.id = q.id /\ x.version = q.version /\ x.target = q.target /\ x.bot = q.bot
           /\ x.draft
           /\ x.identity # NoAsset => IdentityIsOwed(x.identity)
           /\ releases' = (releases \ {q}) \cup {x} /\ UNCHANGED tags
           /\ Move(c, f) /\ f.pc \in HoldingPc /\ HeldBy(c, f, x) /\ RunCore(c, f)
  BY DEF DraftPatch
<1>2. PICK f \in RunSet :
           /\ HeldBy(c, run[c], q) /\ run[c].pc \in HoldingPc
           /\ x.id = q.id /\ x.version = q.version /\ x.target = q.target /\ x.bot = q.bot
           /\ x.draft
           /\ x.identity # NoAsset => IdentityIsOwed(x.identity)
           /\ releases' = (releases \ {q}) \cup {x} /\ UNCHANGED tags
           /\ Move(c, f) /\ f.pc \in HoldingPc /\ HeldBy(c, f, x) /\ RunCore(c, f)
  BY <1>1
<1>3. /\ run' = [run EXCEPT ![c] = f]
      /\ UNCHANGED <<main, pr, ci, codeql, setting, records, disturbances>>
  BY <1>2 DEF Move
<1>4. /\ q.draft /\ q.version = run[c].version
      /\ q.target = release_target(run[c].version, run[c].source)
  BY <1>2 DEF HeldBy
<1>5. run[c].pc \in EdgePc /\ f.pc # "create" /\ AtWork(c)
  BY <1>2, PcSets, BoundEdge
<1>6. PublishedStays
  BY <1>2, <1>4 DEF PublishedStays
<1>7. Evolves /\ MainInv' /\ CIInv' /\ TagInv' /\ RecordInv' /\ SuccessIsReleased'
  BY <1>2, <1>3, <1>6, WriteKeeps
<1>8. PublishedInv' /\ OnePublished' /\ ExecutorsInv' /\ PrefixInv'
  BY <1>2, <1>7, DraftsOnly
<1>9. ReleaseInv' /\ OneRecordPerSource'
  <2>1. x.identity # NoAsset => IdentityIsOwed(x.identity)'
    BY <1>2, <1>7, OwedStays DEF Inv, ReleaseSet
  <2> QED
    BY <1>2, <1>4, <1>7, <2>1, PatchRelease
<1>10. \A d \in Run \ {c} : RunOK(d, run[d])'
  <2>1. ASSUME NEW d \in Run \ {c} PROVE RunOK(d, run[d])'
    <3>1. PICK r : r = run[d]
      OBVIOUS
    <3>2. /\ \A p \in releases' : p \in releases \/ p = x
          /\ \A p \in releases : p \in releases' \/ (p.version = x.version /\ p.target = x.target)
      BY <1>2
    <3>3. /\ x.version = run[c].version
          /\ x.target = release_target(run[c].version, run[c].source)
      BY <1>2, <1>4
    <3>4. RunOK(d, r)'
      BY <1>3, <1>5, <1>7, <3>1, <3>2, <3>3, OthersKeepTheirs
    <3>5. run'[d] = r
      BY <1>3, <3>1 DEF Inv, RunInv
    <3> QED
      BY <3>4, <3>5
  <2> QED
    BY <2>1
<1>11. RunOK(c, f)'
  <2>1. RunCore(c, f)'
    <3>1. \A p \in releases' : ~p.draft => p \in releases
      BY <1>2
    <3> QED
      BY <1>2, <1>3, <1>7, <3>1, CoreStays
  <2>2. HeldBy(c, f, x)'
    BY <1>2, <1>3 DEF HeldBy
  <2>3. HoldOK(c, f)' /\ FreshOK(c, f)'
    BY <1>2, <1>5, <2>2 DEF HoldOK, FreshOK
  <2> QED
    BY <2>1, <2>3 DEF RunCore, RunOK
<1>12. RunInv' /\ GroupInv'
  BY <1>3, <1>5, <1>10, <1>11, OneRunMoves
<1> QED
  BY <1>7, <1>8, <1>9, <1>12 DEF Inv
\* What the boundary before the publication proves: its tag, and that every
\* version before it is released.
LEMMA BoundaryProves ==
    ASSUME Inv, NEW c \in Run, run[c].pc \in EdgePc, Boundary(c)
    PROVE  /\ tags[run[c].version] # NoTag /\ tags[run[c].version].source = run[c].source
           /\ tags[run[c].version - 1].source = run[c].base
           /\ \A w \in Version : w < run[c].version => ReleasedVersion(w)
           /\ c \in Dispatch => run[c].ctx = Len(main)
<1> DEFINE v == run[c].version
           b == run[c].version - 1
<1>1. /\ CurrentTag(c) = "exact" /\ PredecessorIsProven(c)
      /\ c \in Dispatch => run[c].ctx = Len(main)
  BY DEF Boundary, Tip
<1>2. EdgeOK(c, run[c]) /\ OnEdge(c, run[c])
  BY RunFacts DEF RunOK, OnEdge
<1>3. tags[b].source = run[c].base /\ b \in Version /\ v \in Version /\ v \in Nat
  BY <1>2, BoundEdge DEF EdgeOK
<1>4. tags[v] # NoTag /\ TagIsExact(tags[v], run[c].source)
  BY <1>1, VerdictSays, Zenon DEF CurrentTag, TagState, TagIsExact, Source
<1>5. ReleasedVersion(b)
  BY <1>1, <1>3 DEF PredecessorIsProven, ReleasedVersion
<1>6. PICK n \in Version : ReleasedUpTo(n)
  BY DEF Inv, PrefixInv
<1>7. ASSUME NEW w \in Version, w < v PROVE ReleasedVersion(w)
  <2>1. b <= n
    BY <1>3, <1>5, <1>6 DEF ReleasedUpTo
  <2>2. w <= n
    BY <1>3, <1>7, <2>1, VersionFacts
  <2> QED
    BY <1>6, <2>2 DEF ReleasedUpTo
<1> QED
  BY <1>1, <1>3, <1>4, <1>7 DEF TagIsExact

\* A staged record that is exact stays so as it is published under the setting.
LEMMA StagedIsExact ==
    ASSUME NEW q \in ReleaseSet, NEW v, NEW s, IdentityReleaseIsExact(q, v, s, TRUE),
           NEW x \in ReleaseSet,
           x.id = q.id, x.version = q.version, x.target = q.target, x.bot = q.bot,
           x.body = q.body, x.identity = q.identity, x.bundle = q.bundle,
           x.draft = FALSE, x.immutable = TRUE
    PROVE  IdentityReleaseIsExact(x, v, s, FALSE)
<1>1. {g \in {"identity", "bundle"} : x[g] # NoAsset} = {g \in {"identity", "bundle"} : q[g] # NoAsset}
  OBVIOUS
<1>2. AssetCount(x) = AssetCount(q)
  BY <1>1 DEF AssetCount
<1>3. AssetsAreExact(x)
  BY <1>2 DEF IdentityReleaseIsExact, AssetsAreExact
<1>4. EvidenceOfRelease(x, v, s, FALSE)
  BY DEF IdentityReleaseIsExact, EvidenceOfRelease
<1> QED
  BY <1>3, <1>4 DEF IdentityReleaseIsExact

\* What the run signed into the record that it now publishes.
LEMMA SignedParts ==
    ASSUME NEW c, NEW r, NEW k, NEW e, e = IdentityOf(c, r, k)
    PROVE  /\ e.version = r.version /\ e.notes = r.notes
           /\ e.base = [version |-> r.version - 1, source |-> r.base]
           /\ e.publisher.run = c
           /\ e.execution = ExecutionOf(c, r)
BY DEF IdentityOf, Identity, Publisher

\* The publication of a staged draft keeps it.
LEMMA PublishPatchInv ==
    ASSUME Inv, NEW c \in Run, PublishPatch(c)
    PROVE  Inv' /\ Evolves
<1>1. PICK q \in releases, x \in ReleaseSet :
        \E f \in RunSet :
           /\ HeldBy(c, run[c], q) /\ run[c].pc = "publish"
           /\ IdentityReleaseIsExact(q, run[c].version, Source(c), TRUE)
           /\ Boundary(c) /\ Published(run[c].version) = {}
           /\ x = [q EXCEPT !.draft = FALSE, !.immutable = (setting = "on")]
           /\ releases' = (releases \ {q}) \cup {x} /\ UNCHANGED tags
           /\ Move(c, f) /\ f.pc = "published" /\ RunCore(c, f)
  BY DEF PublishPatch
<1>2. PICK f \in RunSet :
           /\ HeldBy(c, run[c], q) /\ run[c].pc = "publish"
           /\ IdentityReleaseIsExact(q, run[c].version, Source(c), TRUE)
           /\ Boundary(c) /\ Published(run[c].version) = {}
           /\ x = [q EXCEPT !.draft = FALSE, !.immutable = (setting = "on")]
           /\ releases' = (releases \ {q}) \cup {x} /\ UNCHANGED tags
           /\ Move(c, f) /\ f.pc = "published" /\ RunCore(c, f)
  BY <1>1
<1>3. PICK r : r = run[c]
  OBVIOUS
<1>4. PICK k : k = Len(records[c])
  OBVIOUS
<1> DEFINE v == r.version
           e == x.identity
<1>5. /\ run' = [run EXCEPT ![c] = f]
      /\ UNCHANGED <<main, pr, ci, codeql, setting, records, disturbances>>
  BY <1>2 DEF Move
<1>6. q \in ReleaseSet /\ q.draft
  BY <1>2 DEF Inv, ReleaseInv, HeldBy
<1>7. /\ x.id = q.id /\ x.version = q.version /\ x.target = q.target /\ x.bot = q.bot
      /\ x.body = q.body /\ x.identity = q.identity /\ x.bundle = q.bundle
      /\ x.draft = FALSE
  BY <1>2, <1>6 DEF ReleaseSet
<1>8. /\ r.pc = "publish" /\ r.pc \in EdgePc /\ r \in RunSet
      /\ RunOK(c, r) /\ OnEdge(c, r)
  BY <1>2, <1>3, RunFacts DEF EdgePc, OnEdge
<1>9. /\ x.version = v /\ x.target = release_target(v, r.source) /\ x.body = NotesBody(r.notes)
      /\ e = IdentityOf(c, r, k)
  BY <1>2, <1>3, <1>4, <1>7, <1>8 DEF HeldBy
<1>10. e \in IdentitySet /\ IdentityIsOwed(e)
  BY <1>4, <1>8, <1>9, IdentityOfSound
<1>11. PublishedStays
  BY <1>2, <1>6 DEF PublishedStays
<1>12. Evolves /\ MainInv' /\ CIInv' /\ TagInv' /\ RecordInv' /\ SuccessIsReleased'
  BY <1>2, <1>5, <1>11, WriteKeeps
<1>13. ReleaseInv' /\ OneRecordPerSource' /\ x.version # 1
  <2>1. IdentityIsOwed(e)'
    BY <1>10, <1>12, OwedStays DEF Inv
  <2> QED
    BY <1>2, <1>6, <1>7, <1>12, <2>1, PatchRelease
<1>14. /\ tags[v] # NoTag /\ tags[v].source = r.source /\ tags[v - 1].source = r.base
       /\ \A w \in Version : w < v => ReleasedVersion(w)
       /\ c \in Dispatch => r.ctx = Len(main)
  BY <1>2, <1>3, <1>8, BoundaryProves
<1>15. /\ v \in Version /\ v - 1 \in Version /\ v \in Nat
       /\ Source(c) = r.source
  BY <1>3, <1>8, BoundEdge DEF Source
<1>16. /\ e.version = v /\ e.notes = r.notes
       /\ e.base = [version |-> v - 1, source |-> r.base]
       /\ e.publisher.run = c
       /\ e.execution = ExecutionOf(c, r)
  BY <1>9, SignedParts
<1>17. r.notes = EdgeNotes(main, r.base, r.source, v)
  BY <1>8 DEF RunOK, NotesOK
<1>18. x.immutable => IdentityReleaseIsExact(x, v, r.source, FALSE)
  <2>1. IdentityReleaseIsExact(q, v, r.source, TRUE)
    BY <1>2, <1>3, <1>15
  <2>2. x.immutable => x.immutable = TRUE
    BY DEF ReleaseSet
  <2> QED
    BY <1>6, <1>7, <2>1, <2>2, StagedIsExact
<1>19. \A w \in Version : w < v => ReleasedVersion(w)'
  BY <1>12, <1>14, ReleasedStays DEF Inv
<1>20. e # NoAsset
  BY <1>10, IdentityIsNotNull
<1>21. PublishedOK(x)'
  <2>1. /\ main' = main /\ tags' = tags
    BY <1>2, <1>5
  <2> HIDE DEF v, e
  <2>2. /\ x.version = v /\ x.identity = e
    BY <1>9 DEF e
  <2> QED
    BY <1>9, <1>14, <1>15, <1>16, <1>17, <1>18, <1>19, <1>20, <2>1, <2>2 DEF PublishedOK
<1>22. IsHistorical(v) => /\ c \in Dispatch /\ e.execution = r.ctx
                          /\ r.ctx \in 1..Len(main) /\ prove_ci(r.ctx)
                          /\ Len(records[c]) > 0 /\ records[c][1].head = r.ctx
  <2> SUFFICES ASSUME IsHistorical(v)
               PROVE  /\ c \in Dispatch /\ e.execution = r.ctx
                      /\ r.ctx \in 1..Len(main) /\ prove_ci(r.ctx)
                      /\ Len(records[c]) > 0 /\ records[c][1].head = r.ctx
    OBVIOUS
  <2>1. c \in Dispatch
    BY <1>8 DEF RunOK, EdgeOK
  <2>2. r.ctx \in 1..Len(main) /\ prove_ci(r.ctx)
    BY <1>8, <2>1, PcSets DEF RunOK, CIOK
  <2>3. Len(records[c]) > 0 /\ records[c][1].head = r.ctx
    BY <1>8, <2>1 DEF RunOK, AttemptOK
  <2> QED
    BY <1>16, <2>1, <2>2, <2>3 DEF ExecutionOf
<1>23. ExecutorOK(x)'
  <2> SUFFICES ASSUME IsHistorical(v)
               PROVE  ExecutorOK(x)'
    BY <1>9 DEF ExecutorOK
  <2>1. r.ctx \in Commit
    BY <1>22, InvLedger, BoundsAssumption DEF Commit
  <2>2. prove_ci(r.ctx)'
    BY <1>12, <1>22, <2>1, CIStays
  <2> QED
    BY <1>5, <1>16, <1>22, <2>2 DEF ExecutorOK
<1>24. PublishedInv'
  <2>1. ASSUME NEW p \in releases', ~p.draft, p.version # 1
        PROVE  PublishedOK(p)' /\ ExecutorOK(p)'
    <3>1. p \in releases \/ p = x
      BY <1>2
    <3> QED
      BY <1>12, <1>21, <1>23, <2>1, <3>1, PublishedStaysOK
  <2> QED
    BY <2>1 DEF PublishedInv
<1>25. PrefixInv'
  BY <1>12, <1>24, PrefixFollows
<1>26. \A p \in releases : ~p.draft => p.version # v
  BY <1>2, <1>3 DEF Published
<1>27. OnePublished'
  <2> SUFFICES ASSUME NEW p \in releases', NEW s \in releases', ~p.draft, ~s.draft,
                      p.version = s.version
               PROVE  p = s
    BY DEF OnePublished
  <2>1. (p \in releases \/ p = x) /\ (s \in releases \/ s = x) /\ x.version = v
    BY <1>2, <1>9
  <2>2. CASE p \in releases /\ s \in releases
    BY <2>2 DEF Inv, OnePublished
  <2>3. CASE ~(p \in releases /\ s \in releases)
    BY <1>26, <2>1, <2>3
  <2> QED
    BY <2>2, <2>3
\* Nothing later is published yet, and nobody executed later than this main.
<1>28. \A p \in releases : ~p.draft /\ p.version # 1 => p.version < v
  <2> SUFFICES ASSUME NEW p \in releases, ~p.draft, p.version # 1, ~(p.version < v)
               PROVE  FALSE
    OBVIOUS
  <2>1. PublishedOK(p) /\ p.version \in Nat
    BY VersionFacts DEF Inv, PublishedInv, ReleaseInv, ReleaseSet
  <2>2. v < p.version
    BY <1>15, <1>26, <2>1
  <2>3. ReleasedVersion(v)
    BY <1>15, <2>1, <2>2 DEF PublishedOK
  <2> QED
    BY <1>2, <1>3, <2>3 DEF ReleasedVersion
<1>29. ExecutorsInv'
  <2> SUFFICES ASSUME NEW p \in releases', NEW s \in releases', ~p.draft, ~s.draft,
                      p.version <= s.version, IsHistorical(p.version), IsHistorical(s.version)
               PROVE  p.identity.execution <= s.identity.execution
    BY DEF ExecutorsInv
  <2>1. (p \in releases \/ p = x) /\ (s \in releases \/ s = x)
    BY <1>2
  <2>2. CASE p \in releases /\ s \in releases
    BY <2>2 DEF Inv, ExecutorsInv
  <2>3. CASE s = x /\ p \in releases
    <3>1. p.version # 1
      BY FloorIsOrdinary
    <3>2. p.identity.execution \in 1..Len(main)
      BY <2>3, <3>1 DEF Inv, PublishedInv, ExecutorOK
    <3>3. s.identity.execution = Len(main) /\ Len(main) \in Nat
      BY <1>9, <1>14, <1>22, <2>3, InvLedger
    <3> QED
      BY <3>2, <3>3
  <2>4. CASE p = x /\ s \in releases
    <3>1. s.version # 1
      BY FloorIsOrdinary
    <3>2. s.version < v /\ v <= s.version
      BY <1>9, <1>28, <2>4, <3>1
    <3>3. s.version \in Nat
      BY <2>4, VersionFacts DEF Inv, ReleaseInv, ReleaseSet
    <3> QED
      BY <1>15, <3>2, <3>3
  <2>5. CASE p = x /\ s = x
    <3>1. x.identity.execution \in Nat
      BY <1>9, <1>22, <2>5, InvLedger
    <3> QED
      BY <2>5, <3>1
  <2> QED
    BY <2>1, <2>2, <2>3, <2>4, <2>5
<1>30. \A d \in Run \ {c} : RunOK(d, run[d])'
  <2>1. ASSUME NEW d \in Run \ {c} PROVE RunOK(d, run[d])'
    <3>1. PICK s : s = run[d]
      OBVIOUS
    <3>2. /\ \A p \in releases' : p \in releases \/ p = x
          /\ \A p \in releases : p \in releases' \/ (p.version = x.version /\ p.target = x.target)
      BY <1>2, <1>7
    <3>3. /\ run[c].pc \in EdgePc /\ x.version = run[c].version
          /\ x.target = release_target(run[c].version, run[c].source)
      BY <1>3, <1>8, <1>9
    <3>4. RunOK(d, s)'
      BY <1>5, <1>12, <3>1, <3>2, <3>3, OthersKeepTheirs
    <3>5. run'[d] = s
      BY <1>5, <3>1 DEF Inv, RunInv
    <3> QED
      BY <3>4, <3>5
  <2> QED
    BY <2>1
<1>31. RunOK(c, f)'
  <2>1. RunCore(c, f)'
    <3>1. \A p \in releases' : ~p.draft => p \in releases \/ p.identity.publisher.run = c
      BY <1>2, <1>16
    <3> QED
      BY <1>2, <1>5, <1>12, <3>1, CoreStays
  <2>2. HoldOK(c, f)' /\ FreshOK(c, f)'
    BY <1>2 DEF HoldOK, FreshOK, HoldingPc
  <2> QED
    BY <2>1, <2>2 DEF RunCore, RunOK
<1>32. AtWork(c)
  BY <1>3, <1>8, BoundEdge
<1>33. RunInv' /\ GroupInv'
  BY <1>5, <1>30, <1>31, <1>32, OneRunMoves
<1> QED
  BY <1>12, <1>13, <1>24, <1>25, <1>27, <1>29, <1>33 DEF Inv

-----------------------------------------------------------------------------
(***************************************************************************)
(* The inductive invariant holds.                                          *)
(***************************************************************************)
\* A step of the publishers, of the recovery or of people keeps the invariant,
\* and only adds.
LEMMA InvNext ==
    ASSUME Inv, [RecoveryNext]_vars
    PROVE  Inv' /\ Evolves
<1>1. ASSUME NEW c \in Run, RunStep(c) PROVE Inv' /\ Evolves
  BY <1>1, FinishesInv, ReadStepInv, TagRefInv, CreateInv, DraftPatchInv, PublishPatchInv DEF RunStep
<1>2. StepKind
  BY StepKinds
<1> QED
  BY <1>1, <1>2, AsideInv, OwnerDraftInv, PrepareTagInv, PushCIInv, RerunInv, StartDispatchInv
  DEF StepKind
-----------------------------------------------------------------------------
(***************************************************************************)
(* The initial state: the floor is released, the backlog's own runs have   *)
(* failed, and nothing else has begun.                                     *)
(***************************************************************************)

\* The parts of the floor's identity.
LEMMA FloorParts ==
    /\ FloorIdentity.epoch = EpochOf(1) /\ FloorIdentity.repository = RepositoryOf(1)
    /\ FloorIdentity.version = 1 /\ FloorIdentity.source = Floor
    /\ FloorIdentity.base = [version |-> 0, source |-> 0]
    /\ FloorIdentity.main = [source |-> Floor, attempt |-> 1]
    /\ FloorIdentity.publisher =
          [run |-> Floor, attempt |-> 1, head |-> Floor, event |-> PublisherEvent(1),
           workflow |-> PublisherWorkflow(1)]
    /\ FloorIdentity.execution = Floor
BY DEF FloorIdentity, Identity, Publisher

\* The floor's identity and release are what their kinds say.
LEMMA FloorType ==
    /\ FloorIdentity \in IdentitySet
    /\ FloorRelease \in ReleaseSet
    /\ Floor \in Commit /\ Floor \in Run /\ Floor \notin Dispatch
<1>1. /\ Floor \in Commit /\ Floor \in Run /\ Floor \in 0..MaxMain /\ 0 \in 0..MaxMain /\ 1 \in Version
      /\ Floor \notin Dispatch
  BY BoundsAssumption DEF Floor, Commit, Run, Version, Dispatch
<1>2. EpochOf(1) \in 1..4
  BY EpochType
<1>3. PublisherEvent(1) \in EventSet /\ PublisherWorkflow(1) \in WorkflowSet
      /\ RepositoryOf(1) \in {OldName, NewName}
  BY PublisherTypes
<1>4. Publisher(Floor, 1, 1, Floor) \in PublisherSet
  BY <1>1, <1>3 DEF Publisher, PublisherSet
<1>5. FloorIdentity \in IdentitySet
  BY <1>1, <1>2, <1>3, <1>4 DEF FloorIdentity, Identity, IdentitySet
<1>6. FloorIdentity.epoch = EpochOf(1)
  BY FloorParts
<1>7. Signed(FloorIdentity) \in BundleSet
  BY <1>2, <1>5, <1>6 DEF Signed, BundleSet
<1>8. FloorRelease \in ReleaseSet
  BY <1>1, <1>5, <1>7 DEF FloorRelease, ReleaseSet, BodySet, ForeignBody
<1> QED
  BY <1>1, <1>5, <1>8

\* The floor's release is exact.
LEMMA FloorIsExact == IdentityReleaseIsExact(FloorRelease, 1, Floor, FALSE)
<1> DEFINE q == FloorRelease
           e == FloorIdentity
<1>1. /\ q.id = 1 /\ q.version = 1 /\ q.target = Floor /\ q.draft = FALSE /\ q.immutable = TRUE
      /\ q.bot = TRUE /\ q.identity = e /\ q.bundle = Signed(e)
  BY DEF FloorRelease
<1>2. q["identity"] = q.identity /\ q["bundle"] = q.bundle
  OBVIOUS
<1>3. /\ e.version = 1 /\ e.source = Floor /\ e.epoch = EpochOf(1) /\ e.repository = RepositoryOf(1)
      /\ e.base = [version |-> 0, source |-> 0]
      /\ e.main = [source |-> Floor, attempt |-> 1]
      /\ e.publisher = [run |-> Floor, attempt |-> 1, head |-> Floor, event |-> PublisherEvent(1),
                        workflow |-> PublisherWorkflow(1)]
      /\ e.execution = Floor
  BY FloorParts
<1>4. e.release = 1
  BY DEF FloorIdentity, Identity
<1>5. EpochOf(1) \in 1..4
  BY EpochType
<1>6. e # NoAsset
  BY FloorType, IdentityIsNotNull
<1>7. Signed(e) # NoAsset /\ Signed(e).payload = e
  BY <1>3, <1>5 DEF Signed, NoAsset
<1> HIDE DEF q, e
<1>8. AssetCount(q) = 2
  <2>1. {g \in {"identity", "bundle"} : q[g] # NoAsset} = {"identity", "bundle"}
    BY <1>1, <1>2, <1>6, <1>7
  <2>2. Cardinality({"identity", "bundle"}) = 2
    <3>1. Cardinality({"identity"}) = 1 /\ IsFiniteSet({"identity"})
      BY FS_Singleton
    <3>2. "bundle" \notin {"identity"} /\ {"identity"} \cup {"bundle"} = {"identity", "bundle"}
      OBVIOUS
    <3>3. Cardinality({"identity"} \cup {"bundle"}) = Cardinality({"identity"}) + 1
      BY <3>1, <3>2, FS_AddElement
    <3> QED
      BY <3>1, <3>2, <3>3
  <2> QED
    BY <2>1, <2>2 DEF AssetCount
<1>9. AssetsAreExact(q)
  BY <1>1, <1>3, <1>7, <1>8 DEF AssetsAreExact, BundleSigns, metadata_repository, NewName, NoName, OldName
<1>10. EvidenceOfRelease(q, 1, Floor, FALSE)
  BY <1>1, <1>4, FloorIsOrdinary DEF EvidenceOfRelease, TargetIsKnown, release_target
<1>11. EvidenceOfEdge(e, 1, Floor)
  BY <1>3 DEF EvidenceOfEdge, Floor
<1>12. EvidenceOfRuns(e, 1, Floor)
  BY <1>3 DEF EvidenceOfRuns
<1>13. validate_identity(e)
  BY <1>3, FloorIsOrdinary DEF validate_identity, next_tag, validate_execution, OrdinaryExecution
<1> QED
  BY <1>1, <1>9, <1>10, <1>11, <1>12, <1>13 DEF IdentityReleaseIsExact, q

\* The attempts at the start.
LEMMA FirstAttempts ==
    ASSUME Init, NEW c \in Run
    PROVE  /\ c = Floor => records[c] = <<Completed("success", Ordinary(c))>>
           /\ c # Floor /\ c \in FrozenSources => records[c] = <<Completed("failure", Ordinary(c))>>
           /\ c # Floor /\ c \notin FrozenSources => records[c] = <<>>
<1> DEFINE a == c = Floor
           b == c \in FrozenSources
<1>1. records[c] = CASE a -> <<Completed("success", Ordinary(c))>>
                     [] b -> <<Completed("failure", Ordinary(c))>>
                     [] OTHER -> <<>>
  BY Zenon DEF Init
<1>2. a => ~b
  BY FrozenFacts
<1> HIDE DEF a, b
<1>3. /\ a => records[c] = <<Completed("success", Ordinary(c))>>
      /\ ~a /\ b => records[c] = <<Completed("failure", Ordinary(c))>>
      /\ ~a /\ ~b => records[c] = <<>>
  BY <1>1, <1>2, Zenon
<1> QED
  BY <1>3 DEF a, b

\* At the start only the floor's attempt has succeeded, and all have ended.
LEMMA InitRecords ==
    ASSUME Init
    PROVE  /\ RecordInv
           /\ \A c \in Run : \A i \in 1..Len(records[c]) :
                 /\ records[c][i].status = "completed"
                 /\ records[c][i].conclusion = "success" => c = Floor
           /\ Len(records[Floor]) = 1 /\ records[Floor][1] = Completed("success", Ordinary(Floor))
<1>1. /\ main = Landed /\ Len(Landed) \in Nat /\ Len(Landed) >= 1
      /\ MaxAttempts \in Nat /\ MaxAttempts >= 1
      /\ \A c \in Commit : c \in FrozenSources \cup {Floor} => ci[c] = "success"
  BY BoundsAssumption DEF Init
<1>2. FrozenSources \subseteq 2..Len(Landed)
  BY FrozenType DEF FrozenSources
<1>3. ASSUME NEW c \in Run
      PROVE  /\ records[c] \in Seq(AttemptSet) /\ AttemptsOK(c, records[c])
             /\ \A i \in 1..Len(records[c]) :
                   /\ records[c][i].status = "completed"
                   /\ records[c][i].conclusion = "success" => c = Floor
             /\ Len(records[c]) > 0 => c \in FrozenSources \cup {Floor}
             /\ c = Floor => Len(records[c]) = 1 /\ records[c][1] = Completed("success", Ordinary(c))
  <2>1. CASE records[c] = <<>> /\ c # Floor
    BY <1>1, <2>1 DEF AttemptsOK
  <2>2. ASSUME c \in FrozenSources \cup {Floor}, NEW conclusion \in {"success", "failure"},
               conclusion = "success" => c = Floor,
               conclusion = "failure" => c # Floor,
               records[c] = <<Completed(conclusion, Ordinary(c))>>
        PROVE  /\ records[c] \in Seq(AttemptSet) /\ AttemptsOK(c, records[c])
               /\ \A i \in 1..Len(records[c]) :
                     /\ records[c][i].status = "completed"
                     /\ records[c][i].conclusion = "success" => c = Floor
               /\ c = Floor => Len(records[c]) = 1 /\ records[c][1] = Completed("success", Ordinary(c))
    <3> DEFINE y == Ordinary(c)
               x == Completed(conclusion, y)
    <3>1. c \in Commit /\ c \notin Dispatch
      BY <2>2, FrozenFacts, FloorType, RunKinds
    <3>2. /\ x \in AttemptSet /\ x.status = "completed" /\ x.conclusion = conclusion
          /\ x.head = c /\ x.event = "workflow_run" /\ x.workflow = "platform-release"
      <4>1. /\ y \in AttemptSet /\ y.head = c /\ y.event = "workflow_run"
            /\ y.workflow = "platform-release"
        BY <3>1, OrdinaryAttempt
      <4>2. conclusion \in {"none", "success", "failure", "cancelled"}
        OBVIOUS
      <4> HIDE DEF y
      <4>3. x = [y EXCEPT !.status = "completed", !.conclusion = conclusion]
        BY DEF Completed
      <4> HIDE DEF x
      <4> QED
        BY <4>1, <4>2, <4>3 DEF AttemptSet
    <3>3. records[c] = <<x>>
      BY <2>2
    <3> HIDE DEF x
    <3>4. records[c] \in Seq(AttemptSet) /\ Len(records[c]) = 1 /\ records[c][1] = x
      BY <3>2, <3>3
    <3>5. \A i \in 1..Len(records[c]) : i = 1 /\ records[c][i] = x
      BY <3>4
    <3>6. AttemptsOK(c, records[c])
      BY <1>1, <3>1, <3>2, <3>4, <3>5 DEF AttemptsOK
    <3>7. c = Floor => x = Completed("success", Ordinary(c))
      BY <2>2 DEF x
    <3> QED
      BY <2>2, <3>2, <3>4, <3>5, <3>6, <3>7
  <2>3. \/ records[c] = <<>> /\ c # Floor
        \/ c = Floor /\ records[c] = <<Completed("success", Ordinary(c))>>
        \/ c # Floor /\ c \in FrozenSources /\ records[c] = <<Completed("failure", Ordinary(c))>>
    BY FirstAttempts
  <2>4. CASE c = Floor /\ records[c] = <<Completed("success", Ordinary(c))>>
    BY <2>2, <2>4
  <2>5. CASE c # Floor /\ c \in FrozenSources /\ records[c] = <<Completed("failure", Ordinary(c))>>
    BY <2>2, <2>5
  <2>6. Len(records[c]) > 0 => c \in FrozenSources \cup {Floor}
    BY <2>3, EmptySeq
  <2> QED
    BY <2>1, <2>3, <2>4, <2>5, <2>6
<1>4. records \in [Run -> Seq(AttemptSet)]
  <2>1. records = [c \in Run |-> records[c]]
    BY DEF Init
  <2> QED
    BY <1>3, <2>1
<1>5. \A c \in Commit : Len(records[c]) > 0 => ci[c] = "success" /\ c <= Len(main)
  <2>1. ASSUME NEW c \in Commit, Len(records[c]) > 0
        PROVE  ci[c] = "success" /\ c <= Len(main)
    <3>1. c \in FrozenSources \cup {Floor}
      BY <1>3, <2>1, RunKinds
    <3>2. c <= Len(Landed)
      BY <1>1, <1>2, <3>1 DEF Floor
    <3> QED
      BY <1>1, <3>1, <3>2
  <2> QED
    BY <2>1
<1> QED
  BY <1>3, <1>4, <1>5, FloorType DEF RecordInv

\* The invariant holds at the start.
LEMMA InitInv ==
    ASSUME Init
    PROVE  Inv
<1>1. /\ main = Landed /\ pr = NoPR /\ releases = {FloorRelease}
      /\ ci = [c \in Commit |-> IF c \in FrozenSources \cup {Floor} THEN "success" ELSE "none"]
      /\ codeql = [c \in Commit |->
                     IF c \in FrozenSources \cup {Floor} THEN "success" ELSE "pending"]
      /\ tags = [v \in Version |->
                   IF v = 1 THEN [source |-> Floor, exact |-> TRUE] ELSE NoTag]
      /\ run = [c \in Run |-> Idle]
  BY DEF Init
<1>2. /\ Landed \in Seq(Tree) /\ Len(Landed) \in 1..MaxMain /\ MaxMain \in Nat /\ MaxMain >= 1
      /\ Len(Landed) \in Nat
      /\ MaxVersion \in Nat /\ MaxVersion >= 1
  BY BoundsAssumption
<1>3. MainInv
  BY <1>1, <1>2 DEF MainInv
<1>4. CIInv
  BY <1>1, FrozenFacts DEF CIInv
<1>5. TagInv
  <2>1. 1 \in Version /\ Version \in SUBSET Nat
    BY <1>2, VersionFacts DEF Version
  <2>2. [source |-> Floor, exact |-> TRUE] \in TagSet /\ NoTag \in TagSet
        /\ [source |-> Floor, exact |-> TRUE] # NoTag
    BY <1>2 DEF TagSet, NoTag, Floor
  <2>3. tags \in [Version -> TagSet]
    BY <1>1, <2>2
  <2>4. tags[1].source = Floor /\ tags[1].exact /\ tags[1] # NoTag
    BY <1>1, <2>1, <2>2
  <2>5. \A v \in Version : tags[v] # NoTag <=> v <= 1
    <3>1. ASSUME NEW v \in Version, v # 1
          PROVE  tags[v] = NoTag /\ ~(v <= 1)
      BY <1>1, <3>1, VersionFacts
    <3> QED
      BY <2>4, <3>1
  <2>6. \A v \in 1..1 : v = 1
    OBVIOUS
  <2>7. Floor \in 1..Len(main)
    BY <1>1, <1>2 DEF Floor
  <2>8. LedgerUpTo(main, tags, 1)
    BY <2>4, <2>5, <2>6, <2>7, FloorIsOrdinary DEF LedgerUpTo
  <2> QED
    BY <2>1, <2>3, <2>8 DEF TagInv
<1>6. RecordInv
  BY InitRecords
<1>7. RunInv
  <2>1. Idle \in RunSet /\ Idle.pc = "idle" /\ Idle.source = 0 /\ Idle.at = "start"
    <3>1. 0 \in 0..MaxMain /\ 1 \in Version
      BY <1>2 DEF Version
    <3> QED
      BY <3>1 DEF Idle, RunSet, Site, Verdicts
  <2>2. ASSUME NEW c \in Run PROVE RunOK(c, run[c])
    <3>1. PICK r : r = run[c]
      OBVIOUS
    <3>2. r \in RunSet /\ r.pc = "idle" /\ r.source = 0 /\ r.at = "start"
      BY <1>1, <2>1, <3>1
    <3>3. r.pc \notin EdgePc /\ r.pc \notin SelectedPc /\ r.pc \notin HoldingPc /\ r.pc # "create"
      BY <3>2 DEF EdgePc, SelectedPc, HoldingPc
    <3>4. PcOK(c, r)
      BY <3>2 DEF PcOK, CommitPc, DispatchPc
    <3>5. AttemptOK(c, r)
      BY <3>2, InitRecords DEF AttemptOK
    <3>6. EdgeOK(c, r) /\ NotesOK(c, r) /\ CIOK(c, r) /\ FreshOK(c, r) /\ HoldOK(c, r) /\ SelectedOK(c, r)
      BY <3>3 DEF EdgeOK, OnEdge, NotesOK, CIOK, FreshOK, HoldOK, SelectedOK
    <3> QED
      BY <3>1, <3>4, <3>5, <3>6 DEF RunOK
  <2> QED
    BY <1>1, <2>1, <2>2 DEF RunInv
<1>8. GroupInv
  <2>1. \A d \in Dispatch : ~AtWork(d)
    BY <1>1, RunKinds DEF AtWork, Idle
  <2> QED
    BY <2>1 DEF GroupInv
<1>9. /\ FloorRelease.id = 1 /\ FloorRelease.version = 1 /\ FloorRelease.draft = FALSE
      /\ FloorRelease.identity = FloorIdentity
  BY DEF FloorRelease
<1>10. PublisherRecordAgrees(FloorIdentity, Completed("success", Ordinary(Floor)))
  <2>1. /\ Ordinary(Floor) \in AttemptSet
        /\ Ordinary(Floor).head = Floor /\ Ordinary(Floor).event = "workflow_run"
        /\ Ordinary(Floor).workflow = "platform-release"
    BY FloorType, OrdinaryAttempt
  <2>2. /\ Completed("success", Ordinary(Floor)).head = Floor
        /\ Completed("success", Ordinary(Floor)).event = "workflow_run"
        /\ Completed("success", Ordinary(Floor)).workflow = "platform-release"
    BY <2>1 DEF Completed, AttemptSet
  <2>3. run_repository(1, NewName, TRUE)
    BY DEF run_repository, metadata_repository, NewName, NoName, OldName
  <2> QED
    BY <2>2, <2>3, FloorParts, FloorIsOrdinary DEF PublisherRecordAgrees, PublisherEvent, PublisherWorkflow
<1>11. MainRecordsAgree(FloorIdentity, ci)
  BY <1>1, FloorParts, FloorType DEF MainRecordsAgree
<1>12. PublisherRecord(FloorIdentity, records) = Completed("success", Ordinary(Floor))
       /\ FloorIdentity.publisher.attempt = 1 /\ FloorIdentity.publisher.run = Floor
  BY InitRecords, FloorParts DEF PublisherRecord
<1>13. IdentityIsOwed(FloorIdentity)
  <2>1. FloorIdentity.publisher.attempt \in 1..Len(records[FloorIdentity.publisher.run])
    BY <1>12, InitRecords
  <2> QED
    BY <1>10, <1>11, <1>12, <2>1, FloorParts, FloorType DEF IdentityIsOwed
<1>14. ReleaseInv
  <2>1. IsFiniteSet(releases) /\ Cardinality(releases) = 1
    BY <1>1, FS_Singleton
  <2> QED
    BY <1>1, <1>9, <1>13, <2>1, FloorType DEF ReleaseInv
<1>15. OneRecordPerSource /\ OnePublished
  BY <1>1 DEF OneRecordPerSource, OnePublished
<1>16. PublishedInv /\ ExecutorsInv
  BY <1>1, <1>9, FloorIsOrdinary DEF PublishedInv, ExecutorsInv
<1>17. ReleasedVersion(1)
  <2>1. tags[1].source = Floor
    BY <1>5 DEF TagInv, LedgerUpTo
  <2>2. FloorRelease \in Published(1)
    BY <1>1, <1>9 DEF Published
  <2>3. /\ Completed("success", Ordinary(Floor)).status = "completed"
        /\ Completed("success", Ordinary(Floor)).conclusion = "success"
    BY FloorType, OrdinaryAttempt DEF Completed, AttemptSet
  <2>4. RunsAreProven(FloorIdentity, records, ci)
    <3>1. EpochOf(FloorIdentity.version) = 4 => validate_execution(FloorIdentity)
      BY <1>9, FloorIsExact DEF IdentityReleaseIsExact, validate_identity
    <3> QED
      BY <1>10, <1>11, <1>12, <2>3, <3>1 DEF RunsAreProven
  <2> QED
    BY <1>9, <2>1, <2>2, <2>4, FloorIsExact DEF ReleasedVersion
<1>18. PrefixInv
  <2>1. \A w \in Version : w # 1 => ~ReleasedVersion(w)
    BY <1>1, <1>9 DEF ReleasedVersion, Published
  <2>2. 1 \in Version /\ \A w \in Version : w <= 1 <=> w = 1
    <3>1. \A w \in Version : w \in Nat /\ w >= 1
      BY VersionFacts
    <3> QED
      BY <1>2, <3>1 DEF Version
  <2>3. ReleasedUpTo(1)
    BY <1>17, <2>1, <2>2 DEF ReleasedUpTo
  <2> QED
    BY <2>2, <2>3 DEF PrefixInv
<1>19. SuccessIsReleased
  <2> SUFFICES ASSUME NEW c \in Commit, NEW i \in DOMAIN records[c], records[c][i].conclusion = "success"
               PROVE  \E v \in Version : tags[v].source = c /\ ReleasedVersion(v)
    BY DEF SuccessIsReleased
  <2>1. c \in Run /\ i \in 1..Len(records[c])
    BY <1>6, RunKinds, LenProperties DEF RecordInv
  <2>2. c = Floor
    BY <2>1, InitRecords
  <2>3. 1 \in Version /\ tags[1].source = Floor
    BY <1>2, <1>5 DEF TagInv, LedgerUpTo, Version
  <2> QED
    BY <1>17, <2>2, <2>3
<1> QED
  BY <1>3, <1>4, <1>5, <1>6, <1>7, <1>8, <1>14, <1>15, <1>16, <1>18, <1>19 DEF Inv
-----------------------------------------------------------------------------
(***************************************************************************)
(* The invariant of the publishers, and of the publishers with the         *)
(* recovery beside them.                                                   *)
(***************************************************************************)

\* Inv in every reachable state: what the publisher script, its wait job and
\* the recovery scripts have done together never leaves it.
THEOREM RecoveryInvariant == RecoverySpec => []Inv
<1>1. Init => Inv
  BY InitInv
<1>2. Inv /\ [RecoveryNext]_vars => Inv'
  BY InvNext
<1> QED
  BY <1>1, <1>2, PTL DEF RecoverySpec

\* The publishers alone do nothing that they do not do beside the recovery.
LEMMA PublishersRecover == ASSUME [Next]_vars PROVE [RecoveryNext]_vars
<1>1. CASE UNCHANGED vars
  BY <1>1
<1>2. CASE Next
  BY <1>2 DEF Next, RecoveryNext, RecoveryPlatform
<1> QED
  BY <1>1, <1>2

\* So the same invariant holds of the publishers of ordinary sources alone.
THEOREM PublicationInvariant == Spec => []Inv
<1>1. Init => Inv
  BY InitInv
<1>2. Inv /\ [Next]_vars => Inv'
  BY InvNext, PublishersRecover
<1> QED
  BY <1>1, <1>2, PTL DEF Spec

\* Every step adds only: main, the tags, the CI conclusions, the completed
\* attempts and the published releases of before are there after it, unchanged.
THEOREM NothingIsTakenBack == RecoverySpec => [][Evolves]_vars
<1>1. Inv /\ [RecoveryNext]_vars => Evolves
  BY InvNext
<1> QED
  BY <1>1, RecoveryInvariant, PTL DEF RecoverySpec

-----------------------------------------------------------------------------
(***************************************************************************)
(* Type correctness.  The setting and the disturbances bear on no other    *)
(* part, so they have an invariant of their own.                           *)
(***************************************************************************)
SettingInv ==
    /\ setting \in {"on", "off"}
    /\ disturbances \in Seq(Disturbance) /\ Len(disturbances) <= MaxDisturbances

\* A step leaves the setting and the disturbances, adds one disturbance, or
\* toggles the setting as one.
LEMMA SettingNext ==
    ASSUME Inv, SettingInv, [RecoveryNext]_vars
    PROVE  SettingInv'
<1>1. StepKind
  BY StepKinds
<1>2. ASSUME UNCHANGED <<setting, disturbances>> PROVE SettingInv'
  BY <1>2 DEF SettingInv
<1>3. ASSUME NEW kind \in Disturbance, Disturb(kind), UNCHANGED setting PROVE SettingInv'
  BY <1>3, BoundsAssumption DEF SettingInv, Disturb
<1>4. CASE Aside
  <2>1. CASE ToggleSetting
    BY <2>1, BoundsAssumption DEF ToggleSetting, SettingInv, Disturb
  <2>2. ASSUME NEW c \in Commit, CodeQLFails(c) PROVE SettingInv'
    BY <1>3, <2>2 DEF CodeQLFails, Disturb
  <2>3. CASE OpenPR \/ MergePR \/ (\E c \in Commit : CodeQL(c)) \/ UNCHANGED vars
    BY <1>2, <2>3 DEF OpenPR, MergePR, CodeQL, vars
  <2> QED
    BY <1>4, <2>1, <2>2, <2>3 DEF Aside
<1>5. CASE OwnerDraft
  BY <1>3, <1>5 DEF OwnerDraft, Disturb
<1>6. CASE PrepareTag
  BY <1>2, <1>6 DEF PrepareTag
<1>7. ASSUME NEW c \in Commit, PushCI(c) \/ Rerun(c) PROVE SettingInv'
  BY <1>2, <1>7 DEF PushCI, Rerun
<1>8. ASSUME NEW d \in Dispatch, StartDispatch(d) PROVE SettingInv'
  BY <1>2, <1>8 DEF StartDispatch
<1>9. ASSUME NEW c \in Run, RunStep(c) PROVE SettingInv'
  <2>1. ASSUME NEW conclusion, Finishes(c, conclusion) PROVE SettingInv'
    <3>1. UNCHANGED setting
      BY <2>1 DEF Finishes
    <3> QED
      BY <1>2, <1>3, <2>1, <3>1 DEF Finishes
  <2>2. ASSUME NEW f, Move(c, f) PROVE SettingInv'
    BY <1>2, <2>2 DEF Move
  <2>3. CASE TagRef(c) \/ Create(c)
    BY <2>2, <2>3 DEF TagRef, Create, Goto
  <2>4. CASE ReadStep(c) \/ DraftPatch(c) \/ PublishPatch(c)
    BY <2>2, <2>4 DEF ReadStep, DraftPatch, PublishPatch
  <2> QED
    BY <1>9, <2>1, <2>3, <2>4 DEF RunStep
<1> QED
  BY <1>1, <1>4, <1>5, <1>6, <1>7, <1>8, <1>9 DEF StepKind

\* The parts of the invariant that give every variable its type.
LEMMA TypesFollow == ASSUME Inv, SettingInv PROVE TypeOK
<1>1. main \in Seq(Tree) /\ Tip \in 1..MaxMain /\ pr \in Proposal \cup {NoPR}
  BY DEF Inv, MainInv, Tip
<1>2. /\ ci \in [Commit -> {"none", "success", "failure"}]
      /\ codeql \in [Commit -> {"pending", "run", "success", "failure"}]
  BY DEF Inv, CIInv
<1>3. tags \in [Version -> [source : 0..MaxMain, exact : BOOLEAN]]
  BY DEF Inv, TagInv, TagSet
<1>4. \A r \in releases : /\ r.id \in 1..Cardinality(releases)
                          /\ r.version \in Version /\ r.target \in 0..MaxMain
                          /\ {r.draft, r.immutable, r.bot} \subseteq BOOLEAN
  BY DEF Inv, ReleaseInv, ReleaseSet
<1>5. \A c \in Run : /\ run[c].pc \in Step \cup {"idle"}
                     /\ {run[c].ctx, run[c].source} \subseteq 0..MaxMain
                     /\ run[c].version \in Version
                     /\ Attempt(c) <= MaxAttempts
  <2> SUFFICES ASSUME NEW c \in Run
               PROVE  /\ run[c].pc \in Step \cup {"idle"}
                      /\ {run[c].ctx, run[c].source} \subseteq 0..MaxMain
                      /\ run[c].version \in Version
                      /\ Attempt(c) <= MaxAttempts
    OBVIOUS
  <2>1. run[c] \in RunSet
    BY RunFacts
  <2>2. Attempt(c) <= MaxAttempts
    BY DEF Inv, RecordInv, AttemptsOK, Attempt
  <2> QED
    BY <2>1, <2>2 DEF RunSet
<1> QED
  BY <1>1, <1>2, <1>3, <1>4, <1>5 DEF TypeOK, SettingInv

\* Type correctness of the publishers with the recovery beside them.
THEOREM RecoveryTypes == RecoverySpec => []TypeOK
<1>1. Init => SettingInv
  BY BoundsAssumption DEF Init, SettingInv
<1>2. Inv /\ SettingInv /\ [RecoveryNext]_vars => SettingInv'
  BY SettingNext
<1>3. Inv /\ SettingInv => TypeOK
  BY TypesFollow
<1> QED
  BY <1>1, <1>2, <1>3, RecoveryInvariant, PTL DEF RecoverySpec

\* Type correctness of the publishers alone.
THEOREM PublicationTypes == Spec => []TypeOK
<1>1. Init => SettingInv
  BY BoundsAssumption DEF Init, SettingInv
<1>2. Inv /\ SettingInv /\ [Next]_vars => SettingInv'
  BY SettingNext, PublishersRecover
<1>3. Inv /\ SettingInv => TypeOK
  BY TypesFollow
<1> QED
  BY <1>1, <1>2, <1>3, PublicationInvariant, PTL DEF Spec

-----------------------------------------------------------------------------
(***************************************************************************)
(* The safety of the publishers.                                           *)
(***************************************************************************)

\* The parts of the invariant that make tags and releases one proven ledger.
LEMMA LedgerFollows == ASSUME Inv PROVE LedgerIsProven
<1>1. TagsAreOneLedger
  <2>1. PICK n \in Version : LedgerUpTo(main, tags, n)
    BY InvLedger
  <2> QED
    BY <2>1, InvLedger, LedgerFacts DEF TagsAreOneLedger
<1>2. PublishedIsProven
  <2> SUFFICES ASSUME NEW v \in Version \ {1}, NEW r \in Published(v), r.immutable
               PROVE  LET source == tags[v].source
                          base   == tags[v - 1].source
                          path   == CHOOSE p \in Path : p \in Added(main, base, source)
                          notes  == [source |-> source, version |-> v, path |-> path,
                                     text |-> main[source][path]]
                      IN  /\ IdentityReleaseIsExact(r, v, source, FALSE)
                          /\ r.body = NotesBody(notes) /\ r.identity.notes = notes
                          /\ r.identity.base = [version |-> v - 1, source |-> base]
                          /\ ReleasedVersion(v - 1)
    BY DEF PublishedIsProven
  <2>1. r \in releases /\ r.version = v /\ ~r.draft
    BY DEF Published
  <2>2. PublishedOK(r)
    BY <2>1 DEF Inv, PublishedInv
  <2>3. ReleasedVersion(v - 1)
    BY <2>1, <2>2, VersionFacts DEF PublishedOK
  <2>4. /\ IdentityReleaseIsExact(r, v, tags[v].source, FALSE)
        /\ r.body = NotesBody(EdgeNotes(main, tags[v - 1].source, tags[v].source, v))
        /\ r.identity.notes = EdgeNotes(main, tags[v - 1].source, tags[v].source, v)
        /\ r.identity.base = [version |-> v - 1, source |-> tags[v - 1].source]
    BY <2>1, <2>2 DEF PublishedOK
  <2> QED
    BY <2>3, <2>4 DEF EdgeNotes, EdgePath
<1> QED
  BY <1>1, <1>2 DEF LedgerIsProven

\* The ledger of version tags stays gapless and ascending with one changelog
\* fragment on each edge, and every immutable release carries that edge, over a
\* released predecessor: whatever the publishers of several sources, their
\* reruns and the owner's dispatches interleave.
THEOREM PublishersKeepLedger == Spec => []LedgerIsProven
BY PublicationInvariant, LedgerFollows, PTL

\* The same with the recovery's dispatches publishing beside them.
THEOREM RecoveryKeepsLedger == RecoverySpec => []LedgerIsProven
BY RecoveryInvariant, LedgerFollows, PTL

\* A source has one release record of the publisher's bot: a rerun finds the
\* draft of a killed attempt and resumes it, however often it is killed.
THEOREM PublishersKeepOneRecord == Spec => []OneRecordPerSource
<1>1. Inv => OneRecordPerSource
  BY DEF Inv
<1> QED
  BY <1>1, PublicationInvariant, PTL

\* A dispatch that takes over what another one left does not open a second
\* record either.
THEOREM RecoveryKeepsOneRecord == RecoverySpec => []OneRecordPerSource
<1>1. Inv => OneRecordPerSource
  BY DEF Inv
<1> QED
  BY <1>1, RecoveryInvariant, PTL

\* A run that GitHub shows as successful left its source tagged and released,
\* by attempts that succeeded.
THEOREM PublishersSucceedReleased == Spec => []SuccessIsReleased
<1>1. Inv => SuccessIsReleased
  BY DEF Inv
<1> QED
  BY <1>1, PublicationInvariant, PTL

\* The same of ordinary runs while the backlog is recovered.
THEOREM RecoverySucceedsReleased == RecoverySpec => []SuccessIsReleased
<1>1. Inv => SuccessIsReleased
  BY DEF Inv
<1> QED
  BY <1>1, RecoveryInvariant, PTL

-----------------------------------------------------------------------------
(***************************************************************************)
(* The safety of the recovery.                                             *)
(***************************************************************************)

\* From its selection to its end a dispatch works on the oldest edge that is
\* not complete: all before it are released, and only itself has published it.
THEOREM SelectionIsOldest == RecoverySpec => []SelectionStaysOldest
<1>1. Inv => SelectionStaysOldest
  <2> SUFFICES ASSUME Inv, NEW d \in Dispatch, Selected(d)
               PROVE  /\ \A w \in Version : w < run[d].version => ReleasedVersion(w)
                      /\ \A r \in Published(run[d].version) : r.identity.publisher.run = d
    BY DEF SelectionStaysOldest
  <2>1. d \in Run
    BY RunKinds
  <2>2. PcOK(d, run[d]) /\ SelectedOK(d, run[d])
    BY <2>1, RunFacts DEF RunOK
  <2>3. run[d].pc \in SelectedPc
    BY <2>2 DEF PcOK, Selected, Source
  <2> QED
    BY <2>2, <2>3 DEF SelectedOK
<1> QED
  BY <1>1, RecoveryInvariant, PTL

\* A later edge of the backlog is executed by no older main than an earlier
\* one, by a main whose CI was complete, as the dispatch's own record shows.
THEOREM ExecutorsDoAscend == RecoverySpec => []ExecutorsAscend
<1>1. Inv => ExecutorsAscend
  <2> SUFFICES ASSUME Inv, NEW v \in Backlog, NEW w \in Backlog, v <= w,
                      NEW q \in Published(v), NEW r \in Published(w)
               PROVE  /\ q.identity.execution <= r.identity.execution
                      /\ prove_ci(r.identity.execution)
                      /\ records[r.identity.publisher.run][1].head = r.identity.execution
    BY DEF ExecutorsAscend
  <2>1. /\ q \in releases /\ q.version = v /\ ~q.draft
        /\ r \in releases /\ r.version = w /\ ~r.draft
        /\ IsHistorical(v) /\ IsHistorical(w)
    BY DEF Backlog, Published
  <2>2. q.identity.execution <= r.identity.execution
    BY <2>1 DEF Inv, ExecutorsInv
  <2>3. r.version # 1
    BY <2>1, FloorIsOrdinary
  <2>4. ExecutorOK(r)
    BY <2>1, <2>3 DEF Inv, PublishedInv
  <2> QED
    BY <2>1, <2>2, <2>4 DEF ExecutorOK
<1> QED
  BY <1>1, RecoveryInvariant, PTL
-----------------------------------------------------------------------------
(***************************************************************************)
(* The released sources are an append-only history of main.                *)
(***************************************************************************)

\* With exactly n versions released, the history is their n sources.
LEMMA HistoryOfPrefix ==
    ASSUME NEW n \in Version, ReleasedUpTo(n)
    PROVE  ReleasedSources = [v \in 1..n |-> tags[v].source]
<1> DEFINE Complete(v) == \A w \in 1..v : ReleasedVersion(w)
           Counts(v) == Complete(v) /\ (v + 1 \in Version => ~Complete(v + 1))
<1>1. Version = 1..MaxVersion /\ MaxVersion \in Nat /\ n \in Nat
  BY BoundsAssumption DEF Version
<1>2. \A v \in Version : Complete(v) <=> v <= n
  BY <1>1 DEF ReleasedUpTo
<1>3. Counts(n)
  BY <1>1, <1>2
<1>4. \A v \in Version : Counts(v) => v = n
  <2> SUFFICES ASSUME NEW v \in Version, Counts(v), v # n PROVE FALSE
    OBVIOUS
  <2>1. v <= n /\ v + 1 \in Version /\ v + 1 <= n
    BY <1>1, <1>2
  <2> QED
    BY <1>2, <2>1
<1>5. (CHOOSE v \in Version : Counts(v)) = n
  <2> HIDE DEF Counts
  <2> QED
    BY <1>3, <1>4
<1> QED
  BY <1>5 DEF ReleasedSources

\* The same after a step.
LEMMA HistoryOfPrefixNext ==
    ASSUME NEW n \in Version, ReleasedUpTo(n)'
    PROVE  ReleasedSources' = [v \in 1..n |-> tags'[v].source]
<1> DEFINE Complete(v) == \A w \in 1..v : ReleasedVersion(w)'
           Counts(v) == Complete(v) /\ (v + 1 \in Version => ~Complete(v + 1))
<1>1. Version = 1..MaxVersion /\ MaxVersion \in Nat /\ n \in Nat
  BY BoundsAssumption DEF Version
<1>2. \A v \in Version : Complete(v) <=> v <= n
  BY <1>1 DEF ReleasedUpTo
<1>3. Counts(n)
  BY <1>1, <1>2
<1>4. \A v \in Version : Counts(v) => v = n
  <2> SUFFICES ASSUME NEW v \in Version, Counts(v), v # n PROVE FALSE
    OBVIOUS
  <2>1. v <= n /\ v + 1 \in Version /\ v + 1 <= n
    BY <1>1, <1>2
  <2> QED
    BY <1>2, <2>1
<1>5. (CHOOSE v \in Version : Counts(v)) = n
  <2> HIDE DEF Counts
  <2> QED
    BY <1>3, <1>4
<1> QED
  BY <1>5 DEF ReleasedSources

\* What is published after a step was published before it, or is published by
\* it, over a boundary that has proven every version before.
LEMMA PublishedFrom ==
    ASSUME Inv, StepKind, NEW q \in releases', ~q.draft, q.version # 1
    PROVE  /\ tags[q.version] # NoTag
           /\ \A w \in Version : w < q.version => ReleasedVersion(w)
<1>1. CASE q \in releases
  BY <1>1 DEF Inv, PublishedInv, PublishedOK
<1>2. CASE q \notin releases
  <2>1. ~UNCHANGED releases
    BY <1>2
  <2>2. ~Aside
    BY <2>1, AsideKeeps
  <2>3. ~OwnerDraft
    BY <1>2 DEF OwnerDraft
  <2>4. ~PrepareTag /\ \A c \in Commit : ~PushCI(c) /\ ~Rerun(c)
    BY <2>1 DEF PrepareTag, PushCI, Rerun
  <2>5. \A d \in Dispatch : ~StartDispatch(d)
    BY <2>1 DEF StartDispatch
  <2>6. PICK c \in Run : RunStep(c)
    BY <2>2, <2>3, <2>4, <2>5 DEF StepKind
  <2>7. ~(Finishes(c, "failure") \/ Finishes(c, "success"))
    BY <2>1 DEF Finishes
  <2>8. ~ReadStep(c) /\ ~TagRef(c)
    BY <2>1 DEF ReadStep, TagRef
  <2>9. ~Create(c)
    BY <1>2 DEF Create
  <2>10. ~DraftPatch(c)
    BY <1>2 DEF DraftPatch
  <2>11. PublishPatch(c)
    BY <2>6, <2>7, <2>8, <2>9, <2>10 DEF RunStep
  <2>12. PICK p \in releases, x \in ReleaseSet :
            /\ HeldBy(c, run[c], p) /\ run[c].pc = "publish" /\ Boundary(c)
            /\ x = [p EXCEPT !.draft = FALSE, !.immutable = (setting = "on")]
            /\ releases' = (releases \ {p}) \cup {x}
    BY <2>11 DEF PublishPatch
  <2>13. q = x
    BY <1>2, <2>12
  <2>14. p \in ReleaseSet
    BY DEF Inv, ReleaseInv
  <2>15. q.version = run[c].version
    BY <2>12, <2>13, <2>14 DEF HeldBy, ReleaseSet
  <2>16. run[c].pc \in EdgePc
    BY <2>12 DEF EdgePc
  <2> QED
    BY <2>12, <2>15, <2>16, BoundaryProves
<1> QED
  BY <1>1, <1>2

\* Only the merge of a pull request moves main, and it moves nothing else of
\* the history.
LEMMA MainMoves ==
    ASSUME Inv, StepKind
    PROVE  \/ UNCHANGED main
           \/ /\ Len(main') = Len(main) + 1
              /\ main = [i \in DOMAIN main |-> main'[i]]
              /\ UNCHANGED <<ci, tags, releases, records>>
<1>1. CASE Aside
  <2>1. CASE MergePR
    <3>1. /\ main \in Seq(Tree) /\ pr \in Tree /\ main' = Append(main, pr)
          /\ UNCHANGED <<ci, tags, releases, records>>
      BY <2>1, BoundsAssumption DEF MergePR, Inv, MainInv
    <3> QED
      BY <3>1
  <2>2. CASE OpenPR \/ ToggleSetting \/ UNCHANGED vars
    BY <2>2 DEF OpenPR, ToggleSetting, vars
  <2>3. ASSUME NEW c \in Commit, CodeQL(c) \/ CodeQLFails(c) PROVE UNCHANGED main
    BY <2>3 DEF CodeQL, CodeQLFails
  <2> QED
    BY <1>1, <2>1, <2>2, <2>3 DEF Aside
<1>2. CASE OwnerDraft \/ PrepareTag
  BY <1>2 DEF OwnerDraft, PrepareTag
<1>3. ASSUME NEW c \in Commit, PushCI(c) \/ Rerun(c) PROVE UNCHANGED main
  BY <1>3 DEF PushCI, Rerun
<1>4. ASSUME NEW d \in Dispatch, StartDispatch(d) PROVE UNCHANGED main
  BY <1>4 DEF StartDispatch
<1>5. ASSUME NEW c \in Run, RunStep(c) PROVE UNCHANGED main
  <2>1. CASE Finishes(c, "failure") \/ Finishes(c, "success")
    BY <2>1 DEF Finishes
  <2>2. CASE ReadStep(c) \/ DraftPatch(c) \/ PublishPatch(c)
    BY <2>2 DEF ReadStep, DraftPatch, PublishPatch, Move
  <2>3. CASE TagRef(c) \/ Create(c)
    BY <2>3 DEF TagRef, Create, Goto, Move
  <2> QED
    BY <1>5, <2>1, <2>2, <2>3 DEF RunStep
<1> QED
  BY <1>1, <1>2, <1>3, <1>4, <1>5 DEF StepKind

\* A step that leaves the tags, the release records and what its proofs read
\* leaves the history.
LEMMA HistoryStays ==
    ASSUME UNCHANGED <<ci, tags, releases, records>>
    PROVE  UNCHANGED ReleasedSources
<1>1. \A v : ReleasedVersion(v)' <=> ReleasedVersion(v)
  BY DEF ReleasedVersion, Published, RunsAreProven, PublisherRecordAgrees, PublisherRecord,
         MainRecordsAgree
<1> QED
  BY <1>1 DEF ReleasedSources

\* At most one version becomes released in a step, the first that was not, and
\* its tag was there before the step.
LEMMA PrefixGrowsByOne ==
    ASSUME Inv, Inv', Evolves, StepKind, NEW n \in Version, ReleasedUpTo(n)
    PROVE  \/ ReleasedUpTo(n)'
           \/ n + 1 \in Version /\ tags[n + 1] # NoTag /\ ReleasedUpTo(n + 1)'
<1>1. PICK k \in Version : ReleasedUpTo(k)'
  BY DEF Inv, PrefixInv
<1>2. Version = 1..MaxVersion /\ MaxVersion \in Nat /\ n \in Nat /\ k \in Nat /\ n >= 1 /\ k >= 1
  BY BoundsAssumption DEF Version
<1>3. n <= k
  <2>1. ReleasedVersion(n)
    BY <1>2 DEF ReleasedUpTo
  <2>2. ReleasedVersion(n)'
    BY <2>1, ReleasedStays DEF Inv
  <2> QED
    BY <1>1, <2>2 DEF ReleasedUpTo
<1>4. ASSUME k # n PROVE k = n + 1 /\ tags[k] # NoTag
  <2>1. ReleasedVersion(k)'
    BY <1>1, <1>2 DEF ReleasedUpTo
  <2>2. PICK q \in releases' : ~q.draft /\ q.version = k
    BY <2>1 DEF ReleasedVersion, Published
  <2>3. k # 1
    BY <1>2, <1>3, <1>4
  <2>4. tags[k] # NoTag /\ \A w \in Version : w < k => ReleasedVersion(w)
    BY <2>2, <2>3, PublishedFrom
  <2>5. k - 1 \in Version /\ k - 1 < k
    BY <1>2, <2>3
  <2>6. k - 1 <= n
    BY <2>4, <2>5 DEF ReleasedUpTo
  <2> QED
    BY <1>2, <1>3, <1>4, <2>4, <2>6
<1> QED
  BY <1>1, <1>4

\* The history speaks of the same edges.
LEMMA SameEdge ==
    ASSUME NEW a, NEW b
    PROVE  History!BindsOneFragment(main, a, b) <=> BindsOneFragment(main, a, b)
<1>1. History!Added(main, a, b) = Added(main, a, b)
  BY DEF History!Added, Added, History!Surface, Surface, History!Generated, Generated,
         History!Absent, Absent
<1>2. History!Changed(main, a, b) = Changed(main, a, b)
  BY DEF History!Changed, Changed, History!Surface, Surface, History!Generated, Generated
<1>3. History!SurfaceIsReleasable(main, a, b) <=> SurfaceIsReleasable(main, a, b)
  BY <1>1, <1>2
  DEF History!SurfaceIsReleasable, SurfaceIsReleasable, History!LinearRange, LinearRange,
      History!IsAncestor, IsAncestor, History!Generated, Generated,
      History!RegularEntry, RegularEntry, History!Irregular, Irregular,
      History!FragmentAccepted, FragmentAccepted
<1>4. History!Cardinality(Added(main, a, b)) = Cardinality(Added(main, a, b))
  BY DEF History!Cardinality, Cardinality
<1> QED
  BY <1>1, <1>3, <1>4 DEF History!BindsOneFragment, BindsOneFragment, History!Intents, Intents

\* Every step of the publishers and of the recovery is a step of the history:
\* main grows, one source of it is released, or neither is seen.
LEMMA HistorySteps ==
    ASSUME Inv, Inv', [RecoveryNext]_vars
    PROVE  [History!Grow \/ History!Publish]_<<main, ReleasedSources>>
<1>1. StepKind /\ Evolves
  BY StepKinds, InvNext
<1>2. CASE ~UNCHANGED main
  <2>1. /\ Len(main') = Len(main) + 1
        /\ main = [i \in DOMAIN main |-> main'[i]]
        /\ UNCHANGED <<ci, tags, releases, records>>
    BY <1>1, <1>2, MainMoves
  <2>2. UNCHANGED ReleasedSources
    BY <2>1, HistoryStays
  <2> QED
    BY <2>1, <2>2 DEF History!Grow
<1>3. CASE UNCHANGED main
  <2>1. PICK n \in Version : ReleasedUpTo(n)
    BY DEF Inv, PrefixInv
  <2>2. PICK t \in Version : LedgerUpTo(main, tags, t)
    BY InvLedger
  <2>3. /\ Version = 1..MaxVersion /\ MaxVersion \in Nat /\ n \in Nat /\ n >= 1 /\ t \in Nat
    BY BoundsAssumption DEF Version
  <2>4. ReleasedSources = [v \in 1..n |-> tags[v].source]
    BY <2>1, HistoryOfPrefix
  <2>5. n <= t
    <3>1. ReleasedVersion(n)
      BY <2>1, <2>3 DEF ReleasedUpTo
    <3>2. PICK q \in releases : ~q.draft /\ q.version = n
      BY <3>1 DEF ReleasedVersion, Published
    <3>3. CASE n = 1
      BY <2>3, <3>3 DEF LedgerUpTo
    <3>4. CASE n # 1
      <4>1. tags[n] # NoTag
        BY <3>2, <3>4 DEF Inv, PublishedInv, PublishedOK
      <4> QED
        BY <2>2, <4>1 DEF LedgerUpTo
    <3> QED
      BY <2>3, <3>3, <3>4
  <2>6. \A v \in 1..n : v \in Version /\ tags[v] # NoTag
    BY <2>2, <2>3, <2>5 DEF LedgerUpTo
  <2>7. \A v \in 1..n : tags'[v] = tags[v]
    BY <1>1, <2>6 DEF Evolves, TagsStay
  <2>8. CASE ReleasedUpTo(n)'
    <3>1. ReleasedSources' = [v \in 1..n |-> tags'[v].source]
      BY <2>8, HistoryOfPrefixNext
    <3>2. ReleasedSources' = ReleasedSources
      BY <2>4, <2>7, <3>1
    <3> QED
      BY <1>3, <3>2
  <2>9. CASE n + 1 \in Version /\ tags[n + 1] # NoTag /\ ReleasedUpTo(n + 1)'
    <3> DEFINE source == tags[n + 1].source
    <3>1. ReleasedSources' = [v \in 1..n + 1 |-> tags'[v].source]
      BY <2>9, HistoryOfPrefixNext
    <3>2. tags'[n + 1] = tags[n + 1]
      BY <1>1, <2>9 DEF Evolves, TagsStay
    <3>3. ReleasedSources' = [v \in 1..n + 1 |-> tags[v].source]
      BY <2>3, <2>7, <3>1, <3>2
    <3>4. n + 1 \in 2..t
      BY <2>2, <2>3, <2>9 DEF LedgerUpTo
    <3>5. /\ BindsOneFragment(main, tags[n].source, source)
          /\ tags[n].source \in Nat /\ source \in Nat /\ source <= Len(main)
      <4>1. n + 1 - 1 = n /\ n \in 1..t /\ n + 1 \in 1..t
        BY <2>3, <3>4
      <4>2. BindsOneFragment(main, tags[n].source, source)
        BY <2>2, <3>4, <4>1 DEF LedgerUpTo
      <4>3. tags[n].source \in n..Len(main) /\ source \in n + 1..Len(main)
        BY <2>2, <4>1 DEF LedgerUpTo
      <4>4. Len(main) \in Nat
        BY InvLedger
      <4> QED
        BY <2>3, <4>2, <4>3, <4>4
    <3>6. tags[n].source < source
      BY <3>5, EdgeAscends
    <3>7. /\ Len(ReleasedSources) = n /\ ReleasedSources[n] = tags[n].source
          /\ ReleasedSources' = Append(ReleasedSources, source)
      <4>1. \A v \in 1..n : tags[v].source \in Nat
        BY <2>6, InvLedger DEF TagSet
      <4>2. ReleasedSources \in Seq(Nat) /\ Len(ReleasedSources) = n
        BY <2>3, <2>4, <4>1
      <4>3. ReleasedSources[n] = tags[n].source
        BY <2>3, <2>4
      <4>4. ReleasedSources' \in Seq(Nat) /\ Len(ReleasedSources') = n + 1
        BY <2>3, <3>3, <3>5, <4>1
      <4>5. Append(ReleasedSources, source) \in Seq(Nat)
            /\ Len(Append(ReleasedSources, source)) = n + 1
        BY <3>5, <4>2
      <4>6. \A i \in 1..n + 1 : ReleasedSources'[i] = Append(ReleasedSources, source)[i]
        <5> SUFFICES ASSUME NEW i \in 1..n + 1
                     PROVE  ReleasedSources'[i] = Append(ReleasedSources, source)[i]
          OBVIOUS
        <5>1. CASE i = n + 1
          BY <2>3, <3>3, <3>5, <4>2, <5>1
        <5>2. CASE i \in 1..n
          BY <2>3, <2>4, <3>3, <3>5, <4>2, <5>2
        <5>3. i = n + 1 \/ i \in 1..n
          BY <2>3
        <5> QED
          BY <5>1, <5>2, <5>3
      <4> HIDE DEF source
      <4>7. ReleasedSources' = Append(ReleasedSources, source)
        BY <2>3, <4>4, <4>5, <4>6, SeqEqual
      <4> QED
        BY <4>2, <4>3, <4>7
    <3>8. History!Last = tags[n].source
      BY <3>7 DEF History!Last
    <3>9. source \in History!Last + 1..Len(main) /\ BindsOneFragment(main, History!Last, source)
      <4>1. Len(main) \in Nat
        BY InvLedger
      <4> QED
        BY <3>5, <3>6, <3>8, <4>1
    <3> HIDE DEF source
    <3>10. History!Publish
      BY <1>3, <3>7, <3>9, SameEdge DEF History!Publish
    <3> QED
      BY <3>10
  <2> QED
    BY <1>1, <2>1, <2>8, <2>9, PrefixGrowsByOne
<1> QED
  BY <1>2, <1>3

\* The recovery publishes by the rules of the publishers: each of its steps and
\* of theirs releases nothing, or the next source of main with its fragment.
THEOREM RecoveryKeepsHistory ==
    RecoverySpec => [][History!Grow \/ History!Publish]_<<main, ReleasedSources>>
<1>1. Inv /\ Inv' /\ [RecoveryNext]_vars
        => [History!Grow \/ History!Publish]_<<main, ReleasedSources>>
  BY HistorySteps
<1> QED
  BY <1>1, RecoveryInvariant, PTL DEF RecoverySpec

\* The publishers that start on a main of one commit, with nothing but the
\* floor released, implement the append-only history of releases.
THEOREM PublishersImplementHistory ==
    ASSUME Len(Landed) = 1
    PROVE  Spec => HistoryIsRefined
<1>1. Init => Len(main) = 1 /\ ReleasedSources = <<History!Floor>>
  <2> SUFFICES ASSUME Init PROVE Len(main) = 1 /\ ReleasedSources = <<Floor>>
    BY DEF History!Floor, Floor
  <2>1. Inv
    BY InitInv
  <2>2. main = Landed /\ tags[1].source = Floor
    BY <2>1 DEF Init, Inv, TagInv, LedgerUpTo
  <2>3. PICK n \in Version : ReleasedUpTo(n)
    BY <2>1 DEF Inv, PrefixInv
  <2>4. n = 1
    <3>1. \A w \in Version : w # 1 => ~ReleasedVersion(w)
      <4>1. releases = {FloorRelease} /\ FloorRelease.version = 1
        BY DEF Init, FloorRelease
      <4> QED
        BY <4>1 DEF ReleasedVersion, Published
    <3>2. ReleasedVersion(n)
      BY <2>3, VersionFacts DEF ReleasedUpTo
    <3> QED
      BY <3>1, <3>2
  <2>5. ReleasedSources = [v \in 1..1 |-> tags[v].source]
    BY <2>3, <2>4, HistoryOfPrefix
  <2> QED
    BY <2>2, <2>5 DEF Floor
<1>2. Inv /\ Inv' /\ [Next]_vars
        => [History!Grow \/ History!Publish]_<<main, ReleasedSources>>
  BY HistorySteps, PublishersRecover
<1> QED
  BY <1>1, <1>2, PublicationInvariant, PTL DEF Spec, HistoryIsRefined, History!Spec
=============================================================================

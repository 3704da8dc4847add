------------------------------ MODULE GateProofs -------------------------------
(***************************************************************************)
(* What the gates answer, for any number of changes of what they read:     *)
(* whether main may hold a tree, whether a pull request is ready, whether the*)
(* settings of the repository are the documented ones.  None of them sees  *)
(* everything at one moment, and each invariant says how the answers received*)
(* so far are accounted for by what was true when they were given.         *)
(***************************************************************************)
EXTENDS ReleaseActivation, RepositorySettings, ReadyCheck, FiniteSetTheorems, TLAPS

(***************************************************************************)
(* The release gates.  What main can hold, for any connectors, any budgets *)
(* and any number of edits.  The invariants of main are inductive as they  *)
(* stand: a tree reaches main only through the checks, and the checks of one*)
(* commit read the same tree every time.  The local gate reads a tree that *)
(* moves: its invariant says what it has shown, on the way to each read, of*)
(* the tree and of the tree one edit earlier.                              *)
(***************************************************************************)
\* A commit answers every read with itself.
LEMMA AtOnceSees ==
    ASSUME NEW t
    PROVE  \A e \in Reads : AtOnce(t)[e] = Sees(e, t)
BY DEF AtOnce

\* The reads that classify a commit return its own fields.
LEMMA CommitReads ==
    ASSUME NEW t
    PROVE  /\ AtOnce(t)["parent"].aggregate = t.aggregate
           /\ AtOnce(t)["inventory"].inventory = t.inventory
           /\ AtOnce(t)["release"].suspend = t.suspend
           /\ AtOnce(t)["release"].tokens = t.tokens
           /\ AtOnce(t)["release"].canonical = t.canonical
           /\ AtOnce(t)["documents"].document = t.document
           /\ AtOnce(t)["quotas"].quota = t.quota
<1>1. AtOnce(t)["parent"] = [aggregate |-> t.aggregate]
  BY AtOnceSees DEF Reads, Sees
<1>2. AtOnce(t)["inventory"] = [inventory |-> t.inventory]
  BY AtOnceSees DEF Reads, Sees
<1>3. AtOnce(t)["release"] = [suspend |-> t.suspend, tokens |-> t.tokens,
                              canonical |-> t.canonical, aggregate |-> t.aggregate]
  BY AtOnceSees DEF Reads, Sees
<1>4. AtOnce(t)["documents"] = [document |-> t.document]
  BY AtOnceSees DEF Reads, Sees
<1>5. AtOnce(t)["quotas"] = [quota |-> t.quota, wired |-> t.wired,
                             bootstrap |-> "bootstrap" \in t.kept]
  BY AtOnceSees DEF Reads, Sees
<1>6. QED
  BY <1>1, <1>2, <1>3, <1>4, <1>5

\* load_parent_suspension: the connector has no parent manifest.
LEMMA ParentIsSuspended == load_parent_suspension
BY DEF load_parent_suspension, RELEASE_CONTRACTS

\* classify: a safe plan is of a suspended release, whole and without a Secret;
\* without tokens it is the scaffold.
LEMMA SafePlanIsInert ==
    ASSUME NEW p, NEW r, NEW i,
           classify(p, r, i).mode # "unsafe"
    PROVE  /\ r.suspend /\ i.inventory /\ ~p.aggregate
           /\ r.tokens \in {{}, PUBLIC_CONNECTOR_SITES}
           /\ r.tokens = {} => classify(p, r, i).mode = "scaffold"
<1> DEFINE phase == _cloudflare_phase(r, i)
<1>1. classify(p, r, i).mode =
         IF p.aggregate \/ phase = "unsafe" THEN "unsafe"
         ELSE CASE phase = "initial" /\ load_parent_suspension -> "scaffold"
                [] phase = "active" /\ ~load_parent_suspension -> "release"
                [] OTHER                                       -> "transition"
  BY DEF classify
<1>2. ~p.aggregate /\ phase # "unsafe"
  <2>1. CASE p.aggregate
    BY <1>1, <2>1
  <2>2. CASE phase = "unsafe"
    BY <1>1, <2>2
  <2>3. QED
    BY <2>1, <2>2
<1>3. /\ r.suspend /\ i.inventory
      /\ r.tokens \in {{}, PUBLIC_CONNECTOR_SITES}
      /\ r.tokens = {} => phase = "initial"
  BY <1>2, ParentIsSuspended, SitesAssumption
     DEF _cloudflare_phase, _require_secretless_public_release, load_helm_release
<1>4. r.tokens = {} => classify(p, r, i).mode = "scaffold"
  BY <1>1, <1>2, <1>3, ParentIsSuspended
<1>5. QED
  BY <1>2, <1>3, <1>4

\* check_activation: a commit that passes is classified safe, and as a scaffold
\* it shows its evidence.
LEMMA PassingPlan ==
    ASSUME NEW t, check_activation(AtOnce(t)) = {}
    PROVE  /\ Plan(AtOnce(t)).mode # "unsafe"
           /\ Plan(AtOnce(t)).mode = "scaffold" => EvidenceErrors(AtOnce(t)) = {}
BY DEF check_activation

\* What an accepted commit looks like.
LEMMA AcceptedIsInert ==
    ASSUME NEW t, Accepted(t)
    PROVE  /\ t.suspend /\ t.inventory /\ ~t.aggregate
           /\ t.tokens \in {{}, PUBLIC_CONNECTOR_SITES}
           /\ t.tokens = {} =>
                 \A ns \in Namespaces : t.quota[ns].hash = t.document[EvidenceOf[ns]]
<1>1. check_activation(AtOnce(t)) = {}
  BY DEF Accepted, Sound
<1> DEFINE s == AtOnce(t)
<1>2. Plan(s) = classify(s["parent"], s["release"], s["inventory"])
  BY DEF Plan
<1>3. classify(s["parent"], s["release"], s["inventory"]).mode # "unsafe"
  BY <1>1, <1>2, PassingPlan
<1>4. /\ s["release"].suspend /\ s["inventory"].inventory /\ ~s["parent"].aggregate
      /\ s["release"].tokens \in {{}, PUBLIC_CONNECTOR_SITES}
      /\ s["release"].tokens = {} => Plan(s).mode = "scaffold"
  BY <1>2, <1>3, SafePlanIsInert
<1>5. /\ t.suspend /\ t.inventory /\ ~t.aggregate
      /\ t.tokens \in {{}, PUBLIC_CONNECTOR_SITES}
      /\ t.tokens = {} => Plan(s).mode = "scaffold"
  BY <1>4, CommitReads
<1>6. ASSUME t.tokens = {}, NEW ns \in Namespaces
      PROVE  t.quota[ns].hash = t.document[EvidenceOf[ns]]
  <2>1. EvidenceErrors(s) = {}
    BY <1>1, <1>5, <1>6, PassingPlan
  <2>2. "hash" \notin reviewed_capacity_errors(s["documents"], s["quotas"], TRUE)
    BY <2>1 DEF EvidenceErrors
  <2>3. HashMatches(s["documents"], s["quotas"], ns)
    BY <2>2 DEF reviewed_capacity_errors
  <2>4. QED
    BY <2>3, CommitReads DEF HashMatches
<1>7. QED
  BY <1>5, <1>6

Inert(t) ==
    /\ t.suspend /\ t.inventory /\ ~t.aggregate
    /\ t.tokens \in {{}, PUBLIC_CONNECTOR_SITES}

Bound(t) ==
    t.tokens = {} => \A ns \in Namespaces : t.quota[ns].hash = t.document[EvidenceOf[ns]]

\* main begins as the committed tree.
LEMMA InitIsInert == Init => Inert(main) /\ Bound(main)
<1> SUFFICES ASSUME Init PROVE Inert(main) /\ Bound(main)
  OBVIOUS
<1>1. main = CommittedTree
  BY DEF Init
<1>2. Inert(CommittedTree)
  BY DEF Inert, CommittedTree
<1>3. ASSUME NEW ns \in Namespaces
      PROVE  CommittedTree.quota[ns].hash = CommittedTree.document[EvidenceOf[ns]]
  BY <1>3 DEF CommittedTree, Documents
<1>4. QED
  BY <1>1, <1>2, <1>3 DEF Bound

\* Only Merge writes main, and it writes what the checks accepted.
LEMMA NextKeepsInert ==
    ASSUME Inert(main), Bound(main), [Next]_vars
    PROVE  Inert(main') /\ Bound(main')
<1>1. CASE Merge
  BY <1>1, AcceptedIsInert DEF Merge, Inert, Bound
<1>2. CASE Edit
  BY <1>2 DEF Edit
<1>3. CASE \E mode \in {"scaffold", "transition"} : Begin(mode)
  BY <1>3 DEF Begin
<1>4. CASE CheckKubernetes
  BY <1>4 DEF CheckKubernetes
<1>5. CASE \E e \in Reads : Read(e)
  BY <1>5 DEF Read
<1>6. CASE UNCHANGED vars
  BY <1>6 DEF vars
<1>7. QED
  BY <1>1, <1>2, <1>3, <1>4, <1>5, <1>6 DEF Next

\* However often the tree is edited and merged, main never holds a release
\* that would run, a half-configured set of connectors, or an open inventory.
THEOREM MainInert == Spec => []MainStaysInert
<1>1. Inert(main) /\ Bound(main) => MainStaysInert
  BY DEF Inert, MainStaysInert
<1>2. (Inert(main) /\ Bound(main)) /\ [Next]_vars => (Inert(main) /\ Bound(main))'
  BY NextKeepsInert
<1>3. QED
  BY <1>1, <1>2, InitIsInert, PTL DEF Spec

\* While no connector is configured, every budget of main is bound to the
\* bytes of the evidence document main holds.
THEOREM ScaffoldEvidence == Spec => []ScaffoldBindsEvidence
<1>1. Inert(main) /\ Bound(main) => ScaffoldBindsEvidence
  BY DEF Bound, ScaffoldBindsEvidence
<1>2. (Inert(main) /\ Bound(main)) /\ [Next]_vars => (Inert(main) /\ Bound(main))'
  BY NextKeepsInert
<1>3. QED
  BY <1>1, <1>2, InitIsInert, PTL DEF Spec

-----------------------------------------------------------------------------
(***************************************************************************)
(* The gates of one commit.  What each check demands, in the words of Fit. *)
(***************************************************************************)
Gates == {"scaffold", "transition"}      \* what the local gate is asked for

TokensOf(mode) == IF mode = "scaffold" THEN {} ELSE PUBLIC_CONNECTOR_SITES

KubeFit(t) ==
    /\ Contracts \ (IF t.components THEN {} ELSE {"components"}) \subseteq t.kept
    /\ t.sentinel /\ t.wired

HashBound(d, q) == \A ns \in Namespaces : q.quota[ns].hash = d.document[EvidenceOf[ns]]

\* A plan read from three trees, with the tokens its mode asks for.
Planned(p, r, i, mode) ==
    /\ ~p.aggregate /\ r.suspend /\ r.canonical /\ i.inventory
    /\ r.tokens = TokensOf(mode)

\* Some connector is configured, and none is.
LEMMA TokensDiffer == PUBLIC_CONNECTOR_SITES # {}
BY SitesAssumption

\* check_kubernetes: no error of any part is the whole of its contracts.
LEMMA KubernetesIsKubeFit ==
    ASSUME NEW t
    PROVE  check_kubernetes(t) = {} <=> KubeFit(t)
<1>1. check_kubernetes(t) = {} <=>
         /\ {"manifests"} \ t.kept = {} /\ reviewed_source_patch_errors(t) = {}
         /\ flux_components_errors(t) = {} /\ platform_prerequisite_contract_errors(t) = {}
         /\ flux_egress_contract_errors(t) = {}
         /\ signed_chart_source_errors("bootstrap" \in t.kept) = {}
  BY DEF check_kubernetes
<1>2. reviewed_source_patch_errors(t) = {} <=> "source patch" \in t.kept
  BY DEF reviewed_source_patch_errors
<1>3. flux_components_errors(t) = {} <=> (t.components => "components" \in t.kept)
  BY DEF flux_components_errors
<1>4. platform_prerequisite_contract_errors(t) = {} <=> "default deny" \in t.kept /\ t.wired
  BY DEF platform_prerequisite_contract_errors
<1>5. flux_egress_contract_errors(t) = {} <=> "egress" \in t.kept /\ t.sentinel
  BY DEF flux_egress_contract_errors
<1>6. signed_chart_source_errors("bootstrap" \in t.kept) = {} <=> "bootstrap" \in t.kept
  BY DEF signed_chart_source_errors
<1>7. KubeFit(t) <=>
         /\ "manifests" \in t.kept /\ "source patch" \in t.kept
         /\ (t.components => "components" \in t.kept)
         /\ "default deny" \in t.kept /\ "egress" \in t.kept /\ "bootstrap" \in t.kept
         /\ t.sentinel /\ t.wired
  BY DEF KubeFit, Contracts
<1>8. QED
  BY <1>1, <1>2, <1>3, <1>4, <1>5, <1>6, <1>7

\* What Fit says, part by part.
LEMMA FitParts ==
    ASSUME NEW t, NEW mode \in Gates
    PROVE  Fit(t, mode) <=> /\ KubeFit(t) /\ Planned(t, t, t, mode)
                            /\ mode = "scaffold" => HashBound(t, t)
<1>1. CASE mode = "scaffold"
  BY <1>1 DEF Fit, KubeFit, Planned, TokensOf, HashBound
<1>2. CASE mode = "transition"
  BY <1>2 DEF Fit, KubeFit, Planned, TokensOf, HashBound
<1>3. QED
  BY <1>1, <1>2 DEF Gates

\* _cloudflare_phase: nothing here can be active, for no connector has a parent.
LEMMA PhaseIsTokens ==
    ASSUME NEW r, NEW i
    PROVE  _cloudflare_phase(r, i) =
             IF r.canonical /\ i.inventory /\ r.suspend
                  /\ r.tokens \in {{}, PUBLIC_CONNECTOR_SITES}
               THEN IF r.tokens = PUBLIC_CONNECTOR_SITES THEN "staged" ELSE "initial"
               ELSE "unsafe"
BY ParentIsSuspended
   DEF _cloudflare_phase, load_helm_release, _require_secretless_public_release

\* classify: a plan has the mode of a gate exactly when its reads show it.
LEMMA PlanHasMode ==
    ASSUME NEW p, NEW r, NEW i, NEW mode \in Gates
    PROVE  /\ classify(p, r, i).mode = mode <=> Planned(p, r, i, mode)
           /\ classify(p, r, i).mode \in {"unsafe", "scaffold", "transition"}
           /\ classify(p, r, i).mode = "transition" => classify(p, r, i).phase = "staged"
<1> DEFINE phase == _cloudflare_phase(r, i)
           ready == r.canonical /\ i.inventory /\ r.suspend
                      /\ r.tokens \in {{}, PUBLIC_CONNECTOR_SITES}
<1>1. classify(p, r, i).phase = phase
  BY DEF classify
<1>2. classify(p, r, i).mode =
         IF p.aggregate \/ phase = "unsafe" THEN "unsafe"
         ELSE IF phase = "initial" THEN "scaffold"
         ELSE "transition"
  BY ParentIsSuspended DEF classify
<1>3. phase = IF ready THEN IF r.tokens = PUBLIC_CONNECTOR_SITES THEN "staged" ELSE "initial"
              ELSE "unsafe"
  BY PhaseIsTokens
<1>4. classify(p, r, i).mode = "scaffold" <=> ~p.aggregate /\ ready /\ r.tokens = {}
  BY <1>2, <1>3, TokensDiffer
<1>5. classify(p, r, i).mode = "transition" <=>
         ~p.aggregate /\ ready /\ r.tokens = PUBLIC_CONNECTOR_SITES
  BY <1>2, <1>3
<1>6. classify(p, r, i).mode = "transition" => phase = "staged"
  BY <1>3, <1>5
<1>7. classify(p, r, i).mode \in {"unsafe", "scaffold", "transition"}
  BY <1>2
<1>8. CASE mode = "scaffold"
  BY <1>1, <1>4, <1>6, <1>7, <1>8 DEF Planned, TokensOf
<1>9. CASE mode = "transition"
  BY <1>1, <1>5, <1>6, <1>7, <1>9 DEF Planned, TokensOf
<1>10. QED
  BY <1>8, <1>9 DEF Gates

-----------------------------------------------------------------------------
(***************************************************************************)
(* One more read.                                                          *)
(***************************************************************************)
Added(e, v, s) == [x \in DOMAIN s \cup {e} |-> IF x = e THEN v ELSE s[x]]

\* The new read is the one just made, the others stay what they were.
LEMMA AddedRead ==
    ASSUME NEW e, NEW v, NEW s
    PROVE  /\ DOMAIN Added(e, v, s) = DOMAIN s \cup {e}
           /\ Added(e, v, s)[e] = v
           /\ \A x \in DOMAIN s : x # e => Added(e, v, s)[x] = s[x]
BY DEF Added

\* What s returned, it saw in one of two trees.
SeenIn(s, a, b) == \A e \in DOMAIN s : s[e] = Sees(e, a) \/ s[e] = Sees(e, b)

\* A read of the second tree keeps that.
LEMMA AddedSeen ==
    ASSUME NEW s, NEW a, NEW b, NEW e, SeenIn(s, a, b)
    PROVE  SeenIn(Added(e, Sees(e, b), s), a, b)
<1> SUFFICES ASSUME NEW x \in DOMAIN Added(e, Sees(e, b), s)
             PROVE  \/ Added(e, Sees(e, b), s)[x] = Sees(x, a)
                    \/ Added(e, Sees(e, b), s)[x] = Sees(x, b)
  BY DEF SeenIn
<1>1. CASE x = e
  BY <1>1, AddedRead
<1>2. CASE x # e
  <2>1. x \in DOMAIN s
    BY <1>2 DEF Added
  <2>2. Added(e, Sees(e, b), s)[x] = s[x]
    BY <1>2, <2>1 DEF Added
  <2>3. QED
    BY <2>1, <2>2 DEF SeenIn
<1>3. QED
  BY <1>1, <1>2

\* The fields each read returns.
LEMMA ReadFields ==
    ASSUME NEW t
    PROVE  /\ \A e \in {"parent", "plan parent"} : Sees(e, t).aggregate = t.aggregate
           /\ \A e \in {"inventory", "plan inventory"} : Sees(e, t).inventory = t.inventory
           /\ \A e \in {"release", "signal", "claim", "plan release", "values", "build"} :
                 /\ Sees(e, t).suspend = t.suspend /\ Sees(e, t).tokens = t.tokens
                 /\ Sees(e, t).canonical = t.canonical
           /\ Sees("documents", t).document = t.document
           /\ Sees("quotas", t).quota = t.quota
<1>1. \A e \in {"parent", "plan parent"} : Sees(e, t) = [aggregate |-> t.aggregate]
  BY DEF Sees
<1>2. \A e \in {"inventory", "plan inventory"} : Sees(e, t) = [inventory |-> t.inventory]
  BY DEF Sees
<1>3. \A e \in {"release", "signal", "claim", "plan release", "values", "build"} :
         Sees(e, t) = [suspend |-> t.suspend, tokens |-> t.tokens,
                       canonical |-> t.canonical, aggregate |-> t.aggregate]
  BY DEF Sees
<1>4. Sees("documents", t) = [document |-> t.document]
  BY DEF Sees
<1>5. Sees("quotas", t) = [quota |-> t.quota, wired |-> t.wired,
                           bootstrap |-> "bootstrap" \in t.kept]
  BY DEF Sees
<1>6. ASSUME NEW e \in {"parent", "plan parent"} PROVE Sees(e, t).aggregate = t.aggregate
  <2> DEFINE v == Sees(e, t)
  <2>1. v = [aggregate |-> t.aggregate]
    BY <1>1
  <2> HIDE DEF v
  <2>2. v.aggregate = t.aggregate
    BY <2>1
  <2>3. QED
    BY <2>2 DEF v
<1>7. ASSUME NEW e \in {"inventory", "plan inventory"}
      PROVE  Sees(e, t).inventory = t.inventory
  <2> DEFINE v == Sees(e, t)
  <2>1. v = [inventory |-> t.inventory]
    BY <1>2
  <2> HIDE DEF v
  <2>2. v.inventory = t.inventory
    BY <2>1
  <2>3. QED
    BY <2>2 DEF v
<1>8. ASSUME NEW e \in {"release", "signal", "claim", "plan release", "values", "build"}
      PROVE  /\ Sees(e, t).suspend = t.suspend /\ Sees(e, t).tokens = t.tokens
             /\ Sees(e, t).canonical = t.canonical
  <2> DEFINE v == Sees(e, t)
  <2>1. v = [suspend |-> t.suspend, tokens |-> t.tokens,
             canonical |-> t.canonical, aggregate |-> t.aggregate]
    BY <1>3
  <2> HIDE DEF v
  <2>2. v.suspend = t.suspend /\ v.tokens = t.tokens /\ v.canonical = t.canonical
    BY <2>1
  <2>3. QED
    BY <2>2 DEF v
<1>9. Sees("documents", t).document = t.document /\ Sees("quotas", t).quota = t.quota
  BY <1>4, <1>5
<1>10. QED
  BY <1>6, <1>7, <1>8, <1>9

\* Planned looks at those fields only.
LEMMA PlannedOfReads ==
    ASSUME NEW s, NEW p, NEW r, NEW i, NEW mode,
           NEW x \in {"parent", "plan parent"}, NEW y \in {"release", "plan release"},
           NEW z \in {"inventory", "plan inventory"},
           s[x] = Sees(x, p), s[y] = Sees(y, r), s[z] = Sees(z, i)
    PROVE  Planned(s[x], s[y], s[z], mode) <=> Planned(p, r, i, mode)
<1>1. s[x].aggregate = p.aggregate
  BY ReadFields
<1>2. s[y].suspend = r.suspend /\ s[y].tokens = r.tokens /\ s[y].canonical = r.canonical
  <2>1. y \in {"release", "signal", "claim", "plan release", "values", "build"}
    OBVIOUS
  <2>2. /\ Sees(y, r).suspend = r.suspend /\ Sees(y, r).tokens = r.tokens
        /\ Sees(y, r).canonical = r.canonical
    BY <2>1, ReadFields, Zenon
  <2>3. QED
    BY <2>2, Zenon
<1>3. s[z].inventory = i.inventory
  BY ReadFields
<1>4. QED
  BY <1>1, <1>2, <1>3 DEF Planned

-----------------------------------------------------------------------------
(***************************************************************************)
(* What a run of the gate has shown, of two trees one edit apart (a, then  *)
(* b).  With a = b it is the run over a tree at rest.                      *)
(***************************************************************************)
KubeOk(a, b) == KubeFit(a) \/ KubeFit(b)

\* check_activation passed: the evidence was bound, or every connector configured.
ActivationOk(a, b) ==
    \/ \E d \in {a, b}, q \in {a, b} : HashBound(d, q)
    \/ a.tokens = PUBLIC_CONNECTOR_SITES \/ b.tokens = PUBLIC_CONNECTOR_SITES

\* The renderer classified the tree as the mode it was asked for.
PlanOk(a, b, mode) ==
    \E p \in {a, b}, r \in {a, b}, i \in {a, b} : Planned(p, r, i, mode)

\* check_activation of a plan that is not the scaffold's: every token was there.
LEMMA OtherPlanIsConfigured ==
    ASSUME NEW s, NEW a, NEW b, SeenIn(s, a, b), "parent" \in DOMAIN s,
           "release" \in DOMAIN s, "inventory" \in DOMAIN s,
           Plan(s).mode \notin {"unsafe", "scaffold"}
    PROVE  ActivationOk(a, b)
<1>1. Plan(s).mode = "transition"
  BY PlanHasMode DEF Plan, Gates
<1>2. Planned(s["parent"], s["release"], s["inventory"], "transition")
  BY <1>1, PlanHasMode DEF Plan, Gates
<1>3. s["release"].tokens = PUBLIC_CONNECTOR_SITES
  BY <1>2 DEF Planned, TokensOf
<1>4. s["release"] = Sees("release", a) \/ s["release"] = Sees("release", b)
  BY DEF SeenIn
<1>5. Sees("release", a).tokens = a.tokens /\ Sees("release", b).tokens = b.tokens
  BY ReadFields
<1>6. QED
  BY <1>3, <1>4, <1>5 DEF ActivationOk

\* check_activation: passing, it has seen the evidence bound or the tokens.
LEMMA PassedActivation ==
    ASSUME NEW s, NEW a, NEW b, SeenIn(s, a, b), "parent" \in DOMAIN s,
           "release" \in DOMAIN s, "inventory" \in DOMAIN s,
           "documents" \in DOMAIN s, "quotas" \in DOMAIN s,
           check_activation(s) = {}
    PROVE  ActivationOk(a, b)
<1>1. Plan(s).mode # "unsafe"
  BY DEF check_activation
<1>2. CASE Plan(s).mode = "scaffold"
  <2>1. EvidenceErrors(s) = {}
    BY <1>2 DEF check_activation
  <2>2. "hash" \notin reviewed_capacity_errors(s["documents"], s["quotas"], TRUE)
    BY <2>1 DEF EvidenceErrors
  <2>3. \A ns \in Namespaces : HashMatches(s["documents"], s["quotas"], ns)
    BY <2>2 DEF reviewed_capacity_errors
  <2>4. PICK d \in {a, b} : s["documents"] = Sees("documents", d)
    BY DEF SeenIn
  <2>5. PICK q \in {a, b} : s["quotas"] = Sees("quotas", q)
    BY DEF SeenIn
  <2>6. s["documents"].document = d.document /\ s["quotas"].quota = q.quota
    BY <2>4, <2>5, ReadFields
  <2>7. HashBound(d, q)
    BY <2>3, <2>6 DEF HashBound, HashMatches
  <2>8. QED
    BY <2>7 DEF ActivationOk
<1>3. CASE Plan(s).mode # "scaffold"
  BY <1>1, <1>3, OtherPlanIsConfigured
<1>4. QED
  BY <1>2, <1>3

\* check_activation passes a fit tree that rests.
LEMMA FitActivates ==
    ASSUME NEW s, NEW t, NEW mode \in Gates, Fit(t, mode),
           s["parent"] = Sees("parent", t), s["release"] = Sees("release", t),
           s["inventory"] = Sees("inventory", t), s["signal"] = Sees("signal", t),
           mode = "scaffold" => /\ s["documents"] = Sees("documents", t)
                                /\ s["quotas"] = Sees("quotas", t)
    PROVE  /\ Plan(s).mode = mode /\ ~AsksRelease(Plan(s), s)
           /\ check_activation(s) = {}
<1>1. Planned(t, t, t, mode)
  BY FitParts
<1>2. Planned(s["parent"], s["release"], s["inventory"], mode)
  BY <1>1, PlannedOfReads
<1>3. Plan(s).mode = mode /\ (mode = "transition" => Plan(s).phase = "staged")
  BY <1>2, PlanHasMode DEF Plan
<1>4. s["signal"].suspend /\ s["signal"].canonical
  BY <1>1, ReadFields DEF Planned
<1>5. ~activation_requested(s["signal"])
  BY <1>4 DEF activation_requested, load_helm_release
<1>6. ~AsksRelease(Plan(s), s)
  BY <1>3, <1>5, ParentIsSuspended DEF AsksRelease, any_workload_active, Gates
<1>7. CASE mode = "scaffold"
  <2>1. s["documents"].document = t.document /\ s["quotas"].quota = t.quota
    BY <1>7, ReadFields
  <2>2. HashBound(t, t)
    BY <1>7, FitParts
  <2>3. \A ns \in Namespaces : HashMatches(s["documents"], s["quotas"], ns)
    BY <2>1, <2>2 DEF HashBound, HashMatches
  <2>4. EvidenceErrors(s) = {}
    BY <2>3 DEF EvidenceErrors, reviewed_capacity_errors
  <2>5. check_activation(s) = {}
    BY <1>3, <1>5, <1>7, <2>4 DEF check_activation
  <2>6. QED
    BY <1>3, <1>6, <2>5
<1>8. CASE mode = "transition"
  <2>1. check_activation(s) = {}
    BY <1>3, <1>6, <1>8 DEF check_activation
  <2>2. QED
    BY <1>3, <1>6, <2>1
<1>9. QED
  BY <1>7, <1>8 DEF Gates

\* The plan of the renderer is the plan of the reads it made.
LEMMA ExpectedPlan ==
    ASSUME NEW s, NEW a, NEW b, NEW mode \in Gates, SeenIn(s, a, b),
           "plan parent" \in DOMAIN s, "plan release" \in DOMAIN s,
           "plan inventory" \in DOMAIN s
    PROVE  /\ PlanExpects(s, mode) => PlanOk(a, b, mode)
           /\ a = b => (PlanExpects(s, mode) <=> Planned(b, b, b, mode))
<1>1. PICK p \in {a, b} : s["plan parent"] = Sees("plan parent", p)
  BY DEF SeenIn
<1>2. PICK r \in {a, b} : s["plan release"] = Sees("plan release", r)
  BY DEF SeenIn
<1>3. PICK i \in {a, b} : s["plan inventory"] = Sees("plan inventory", i)
  BY DEF SeenIn
<1>4. PlanExpects(s, mode) <=>
         Planned(s["plan parent"], s["plan release"], s["plan inventory"], mode)
  BY PlanHasMode DEF PlanExpects
<1>5. PlanExpects(s, mode) <=> Planned(p, r, i, mode)
  BY <1>1, <1>2, <1>3, <1>4, PlannedOfReads
<1>6. QED
  BY <1>5 DEF PlanOk

-----------------------------------------------------------------------------
(***************************************************************************)
(* One edit changes one part of the tree.                                  *)
(***************************************************************************)
SameKube(a, b) ==
    a.kept = b.kept /\ a.components = b.components /\ a.sentinel = b.sentinel /\ a.wired = b.wired
SameRelease(a, b) == a.suspend = b.suspend /\ a.canonical = b.canonical /\ a.tokens = b.tokens
SameParent(a, b) == a.aggregate = b.aggregate
SameInventory(a, b) == a.inventory = b.inventory
SameDocuments(a, b) == a.document = b.document
SameQuotas(a, b) == a.quota = b.quota

\* The trees agree on every part but at most one.
OnePart(a, b) ==
    \/ /\ SameRelease(a, b) /\ SameParent(a, b) /\ SameInventory(a, b)
       /\ SameDocuments(a, b) /\ SameQuotas(a, b)
    \/ /\ SameKube(a, b) /\ SameParent(a, b) /\ SameInventory(a, b)
       /\ SameDocuments(a, b) /\ SameQuotas(a, b)
    \/ /\ SameKube(a, b) /\ SameRelease(a, b) /\ SameInventory(a, b)
       /\ SameDocuments(a, b) /\ SameQuotas(a, b)
    \/ /\ SameKube(a, b) /\ SameRelease(a, b) /\ SameParent(a, b)
       /\ SameDocuments(a, b) /\ SameQuotas(a, b)
    \/ /\ SameKube(a, b) /\ SameRelease(a, b) /\ SameParent(a, b)
       /\ SameInventory(a, b) /\ SameQuotas(a, b)
    \/ /\ SameKube(a, b) /\ SameRelease(a, b) /\ SameParent(a, b)
       /\ SameInventory(a, b) /\ SameDocuments(a, b)

\* The tokens do not go between none and all.
TokensStep(a, b) ==
    /\ ~(a.tokens = {} /\ b.tokens = PUBLIC_CONNECTOR_SITES)
    /\ ~(a.tokens = PUBLIC_CONNECTOR_SITES /\ b.tokens = {})

OneEdit(a, b) == OnePart(a, b) /\ TokensStep(a, b)

\* A field is written with a value of its type: the tree stays a tree, and the
\* other fields stay what they were.
LEMMA SwitchedField ==
    ASSUME NEW t \in Tree, NEW v \in BOOLEAN
    PROVE  /\ [t EXCEPT !.suspend = v] \in Tree /\ [t EXCEPT !.canonical = v] \in Tree
           /\ [t EXCEPT !.inventory = v] \in Tree /\ [t EXCEPT !.aggregate = v] \in Tree
           /\ [t EXCEPT !.sentinel = v] \in Tree /\ [t EXCEPT !.pins = v] \in Tree
           /\ [t EXCEPT !.components = v] \in Tree /\ [t EXCEPT !.wired = v] \in Tree
BY DEF Tree

LEMMA SwitchedIsOneEdit ==
    ASSUME NEW t \in Tree, NEW v \in BOOLEAN
    PROVE  /\ OneEdit(t, [t EXCEPT !.suspend = v]) /\ OneEdit(t, [t EXCEPT !.canonical = v])
           /\ OneEdit(t, [t EXCEPT !.inventory = v]) /\ OneEdit(t, [t EXCEPT !.aggregate = v])
           /\ OneEdit(t, [t EXCEPT !.sentinel = v]) /\ OneEdit(t, [t EXCEPT !.pins = v])
           /\ OneEdit(t, [t EXCEPT !.components = v]) /\ OneEdit(t, [t EXCEPT !.wired = v])
BY TokensDiffer
   DEF Tree, OneEdit, OnePart, TokensStep, SameKube, SameRelease, SameParent, SameInventory,
       SameDocuments, SameQuotas

\* One site more or less is not all of them, for there are two.
LEMMA TokenEdit ==
    ASSUME NEW t \in Tree, NEW site \in PUBLIC_CONNECTOR_SITES,
           NEW u, u = [t EXCEPT !.tokens = IF site \in @ THEN @ \ {site} ELSE @ \cup {site}]
    PROVE  u \in Tree /\ OneEdit(t, u)
<1> DEFINE tokens == IF site \in t.tokens THEN t.tokens \ {site} ELSE t.tokens \cup {site}
<1>1. t.tokens \in SUBSET PUBLIC_CONNECTOR_SITES
  BY DEF Tree
<1>2. tokens \in SUBSET PUBLIC_CONNECTOR_SITES
  BY <1>1
<1>3. /\ ~(t.tokens = {} /\ tokens = PUBLIC_CONNECTOR_SITES)
      /\ ~(t.tokens = PUBLIC_CONNECTOR_SITES /\ tokens = {})
  BY SitesAssumption
<1>4. u = [t EXCEPT !.tokens = tokens]
  OBVIOUS
<1> HIDE DEF tokens
<1>5. u \in Tree
  BY <1>2, <1>4 DEF Tree
<1>6. u.tokens = tokens
  BY <1>4 DEF Tree
<1>7. OnePart(t, u)
  BY <1>4 DEF Tree, OnePart, SameKube, SameParent, SameInventory, SameDocuments, SameQuotas
<1>8. QED
  BY <1>3, <1>5, <1>6, <1>7 DEF OneEdit, TokensStep

\* A contract, a document or a quota.
LEMMA OtherEdit ==
    ASSUME NEW t \in Tree, NEW v, NEW u,
           \/ v \in SUBSET Contracts /\ u = [t EXCEPT !.kept = v]
           \/ v \in [Documents -> Versions] /\ u = [t EXCEPT !.document = v]
           \/ v \in [Namespaces -> Quota] /\ u = [t EXCEPT !.quota = v]
    PROVE  u \in Tree /\ OneEdit(t, u)
<1>1. CASE v \in SUBSET Contracts /\ u = [t EXCEPT !.kept = v]
  BY <1>1, TokensDiffer
     DEF Tree, OneEdit, OnePart, TokensStep, SameKube, SameRelease, SameParent,
         SameInventory, SameDocuments, SameQuotas
<1>2. CASE v \in [Documents -> Versions] /\ u = [t EXCEPT !.document = v]
  BY <1>2, TokensDiffer
     DEF Tree, OneEdit, OnePart, TokensStep, SameKube, SameRelease, SameParent,
         SameInventory, SameDocuments, SameQuotas
<1>3. CASE v \in [Namespaces -> Quota] /\ u = [t EXCEPT !.quota = v]
  BY <1>3, TokensDiffer
     DEF Tree, OneEdit, OnePart, TokensStep, SameKube, SameRelease, SameParent,
         SameInventory, SameDocuments, SameQuotas
<1>4. QED
  BY <1>1, <1>2, <1>3

\* Every edit of a tree is one edit, and leaves a tree.
LEMMA EditIsOneEdit ==
    ASSUME NEW t \in Tree, NEW u \in EditsOf(t)
    PROVE  u \in Tree /\ OneEdit(t, u)
<1>1. \/ u \in {[t EXCEPT !.suspend = ~@], [t EXCEPT !.canonical = ~@],
                [t EXCEPT !.inventory = ~@], [t EXCEPT !.aggregate = ~@],
                [t EXCEPT !.sentinel = ~@], [t EXCEPT !.pins = ~@],
                [t EXCEPT !.components = ~@], [t EXCEPT !.wired = ~@]}
      \/ \E site \in PUBLIC_CONNECTOR_SITES :
            u = [t EXCEPT !.tokens = IF site \in @ THEN @ \ {site} ELSE @ \cup {site}]
      \/ \E c \in Contracts : u = [t EXCEPT !.kept = IF c \in @ THEN @ \ {c} ELSE @ \cup {c}]
      \/ \E d \in Documents : u = [t EXCEPT !.document[d] = 3 - @]
      \/ \E ns \in Namespaces :
            u \in {[t EXCEPT !.quota[ns].hash = 3 - @], [t EXCEPT !.quota[ns].ready = ~@],
                   [t EXCEPT !.quota[ns].hard = ~@]}
  BY DEF EditsOf
<1>2. CASE u \in {[t EXCEPT !.suspend = ~@], [t EXCEPT !.canonical = ~@],
                  [t EXCEPT !.inventory = ~@], [t EXCEPT !.aggregate = ~@],
                  [t EXCEPT !.sentinel = ~@], [t EXCEPT !.pins = ~@],
                  [t EXCEPT !.components = ~@], [t EXCEPT !.wired = ~@]}
  <2>1. \E v \in BOOLEAN :
           u \in {[t EXCEPT !.suspend = v], [t EXCEPT !.canonical = v],
                  [t EXCEPT !.inventory = v], [t EXCEPT !.aggregate = v],
                  [t EXCEPT !.sentinel = v], [t EXCEPT !.pins = v],
                  [t EXCEPT !.components = v], [t EXCEPT !.wired = v]}
    BY <1>2
  <2>2. QED
    BY <2>1, SwitchedField, SwitchedIsOneEdit
<1>3. CASE \E site \in PUBLIC_CONNECTOR_SITES :
              u = [t EXCEPT !.tokens = IF site \in @ THEN @ \ {site} ELSE @ \cup {site}]
  BY <1>3, TokenEdit
<1>4. ASSUME NEW c \in Contracts,
             u = [t EXCEPT !.kept = IF c \in @ THEN @ \ {c} ELSE @ \cup {c}]
      PROVE  u \in Tree /\ OneEdit(t, u)
  <2> DEFINE v == IF c \in t.kept THEN t.kept \ {c} ELSE t.kept \cup {c}
  <2>1. v \in SUBSET Contracts
    BY DEF Tree
  <2>2. u = [t EXCEPT !.kept = v]
    BY <1>4
  <2>3. QED
    BY <2>1, <2>2, OtherEdit
<1>5. ASSUME NEW d \in Documents, u = [t EXCEPT !.document[d] = 3 - @]
      PROVE  u \in Tree /\ OneEdit(t, u)
  <2> DEFINE v == [t.document EXCEPT ![d] = 3 - @]
  <2>1. v \in [Documents -> Versions]
    BY DEF Tree, Versions
  <2>2. u = [t EXCEPT !.document = v]
    BY <1>5
  <2>3. QED
    BY <2>1, <2>2, OtherEdit
<1>6. ASSUME NEW ns \in Namespaces,
             u \in {[t EXCEPT !.quota[ns].hash = 3 - @], [t EXCEPT !.quota[ns].ready = ~@],
                    [t EXCEPT !.quota[ns].hard = ~@]}
      PROVE  u \in Tree /\ OneEdit(t, u)
  <2>1. PICK q : /\ u = [t EXCEPT !.quota = [t.quota EXCEPT ![ns] = q]]
                 /\ q \in {[t.quota[ns] EXCEPT !.hash = 3 - @],
                           [t.quota[ns] EXCEPT !.ready = ~@],
                           [t.quota[ns] EXCEPT !.hard = ~@]}
    BY <1>6
  <2>2. t.quota[ns] \in Quota /\ t.quota \in [Namespaces -> Quota]
    BY DEF Tree
  <2>3. q \in Quota
    <3> DEFINE old == t.quota[ns]
    <3>1. old \in Quota
      BY <2>2
    <3>2. 3 - old.hash \in Versions /\ (~old.ready) \in BOOLEAN /\ (~old.hard) \in BOOLEAN
      BY <3>1 DEF Quota, Versions
    <3>3. \/ q = [old EXCEPT !.hash = 3 - old.hash] \/ q = [old EXCEPT !.ready = ~old.ready]
          \/ q = [old EXCEPT !.hard = ~old.hard]
      BY <2>1
    <3> HIDE DEF old
    <3>4. QED
      BY <3>1, <3>2, <3>3 DEF Quota
  <2>4. [t.quota EXCEPT ![ns] = q] \in [Namespaces -> Quota]
    BY <2>2, <2>3
  <2>5. QED
    BY <2>1, <2>4, OtherEdit
<1>7. QED
  BY <1>1, <1>2, <1>3, <1>4, <1>5, <1>6

-----------------------------------------------------------------------------
(***************************************************************************)
(* What passes has been fit.                                               *)
(***************************************************************************)

\* A gate that passed over a tree and one edit of it has shown one of them fit:
\* an edit disturbs one of the parts, and the read of that part decides which.
LEMMA PassedIsFit ==
    ASSUME NEW a, NEW b, NEW mode \in Gates, a = b \/ OneEdit(a, b),
           KubeOk(a, b), ActivationOk(a, b), PlanOk(a, b, mode)
    PROVE  Fit(a, mode) \/ Fit(b, mode)
<1>1. PICK p \in {a, b} : \E r \in {a, b}, i \in {a, b} : Planned(p, r, i, mode)
  BY DEF PlanOk
<1>2. PICK r \in {a, b} : \E i \in {a, b} : Planned(p, r, i, mode)
  BY <1>1
<1>3. PICK i \in {a, b} : Planned(p, r, i, mode)
  BY <1>2
<1>4. OnePart(a, b) /\ TokensStep(a, b)
  BY TokensDiffer DEF OneEdit, OnePart, TokensStep, SameKube, SameRelease, SameParent,
     SameInventory, SameDocuments, SameQuotas
<1>5. PICK d \in {a, b} : \E q \in {a, b} : mode = "scaffold" => HashBound(d, q)
  <2>1. CASE mode = "scaffold"
    <3>1. r.tokens = {}
      BY <1>3, <2>1 DEF Planned, TokensOf
    <3>2. a.tokens # PUBLIC_CONNECTOR_SITES /\ b.tokens # PUBLIC_CONNECTOR_SITES
      BY <1>4, <3>1, TokensDiffer DEF TokensStep
    <3>3. \E d \in {a, b}, q \in {a, b} : HashBound(d, q)
      BY <3>2 DEF ActivationOk
    <3>4. QED
      BY <3>3
  <2>2. QED
    BY <2>1
<1>6. PICK q \in {a, b} : mode = "scaffold" => HashBound(d, q)
  BY <1>5
<1>7. PICK k \in {a, b} : KubeFit(k)
  BY DEF KubeOk
\* Any tree that agrees with the ones that were read is fit.
<1>8. ASSUME NEW x, SameKube(k, x), SameRelease(r, x), SameParent(p, x), SameInventory(i, x),
             SameDocuments(d, x), SameQuotas(q, x)
      PROVE  Fit(x, mode)
  <2>1. KubeFit(x)
    BY <1>7, <1>8 DEF SameKube, KubeFit
  <2>2. Planned(x, x, x, mode)
    BY <1>3, <1>8 DEF SameRelease, SameParent, SameInventory, Planned
  <2>3. mode = "scaffold" => HashBound(x, x)
    BY <1>6, <1>8 DEF SameDocuments, SameQuotas, HashBound
  <2>4. QED
    BY <2>1, <2>2, <2>3, FitParts
<1>9. \E x \in {a, b} : /\ SameKube(k, x) /\ SameRelease(r, x) /\ SameParent(p, x)
                        /\ SameInventory(i, x) /\ SameDocuments(d, x) /\ SameQuotas(q, x)
  BY <1>4 DEF OnePart, SameKube, SameRelease, SameParent, SameInventory, SameDocuments,
              SameQuotas
<1>10. QED
  BY <1>8, <1>9

-----------------------------------------------------------------------------
(***************************************************************************)
(* The local gate, read after read.                                        *)
(***************************************************************************)
PlanReads == {"plan parent", "plan release", "plan inventory", "values", "build"}

\* What the gate still holds of its earlier reads when it is at "at".
Holds(at, s, mode) ==
    /\ at \in {"release", "inventory", "signal", "install", "claim", "documents", "quotas"}
          => "parent" \in DOMAIN s
    /\ at \in {"inventory", "signal", "install", "claim", "documents", "quotas"}
          => "release" \in DOMAIN s
    /\ at \in {"signal", "install", "claim", "documents", "quotas"} => "inventory" \in DOMAIN s
    /\ at \in {"install", "claim", "documents", "quotas"} => "signal" \in DOMAIN s
    /\ at = "quotas" => "documents" \in DOMAIN s
    /\ at \in {"plan release", "plan inventory"} => "plan parent" \in DOMAIN s
    /\ at = "plan inventory" => "plan release" \in DOMAIN s
    /\ at = "build" /\ mode = "transition" => "values" \in DOMAIN s

\* What it has shown of a tree and one edit of it, on the way to "at".
Shown(at, s, mode, a, b) ==
    /\ SeenIn(s, a, b)
    /\ Holds(at, s, mode)
    /\ at \in {"signal", "install", "claim", "documents", "quotas"} => Plan(s).mode # "unsafe"
    /\ at \in Reads \cup {"pass"} => KubeOk(a, b)
    /\ at \in PlanReads \cup {"pass"} => ActivationOk(a, b)
    /\ at \in {"values", "build", "pass"} => PlanOk(a, b, mode)

\* What was shown of a tree at rest is shown of it and any other.
LEMMA ShownOfMore ==
    ASSUME NEW at, NEW s, NEW mode, NEW a, NEW b, Shown(at, s, mode, a, a)
    PROVE  Shown(at, s, mode, a, b)
<1>1. SeenIn(s, a, b)
  BY DEF Shown, SeenIn
<1>2. KubeOk(a, a) => KubeOk(a, b)
  BY DEF KubeOk
<1>3. ActivationOk(a, a) => ActivationOk(a, b)
  BY DEF ActivationOk
<1>4. PlanOk(a, a, mode) => PlanOk(a, b, mode)
  BY DEF PlanOk
<1>5. QED
  BY <1>1, <1>2, <1>3, <1>4 DEF Shown

\* Where each read leads.
LEMMA AfterEach ==
    ASSUME NEW s, NEW mode, mode = lane
    PROVE  /\ After("parent", s) = "release" /\ After("release", s) = "inventory"
           /\ After("inventory", s) = IF Plan(s).mode = "unsafe" THEN "refused" ELSE "signal"
           /\ After("signal", s) = IF AsksRelease(Plan(s), s) THEN "install"
                                   ELSE IF Plan(s).mode = "scaffold" THEN "documents"
                                   ELSE "plan parent"
           /\ After("install", s) = "claim" /\ After("claim", s) = "documents"
           /\ After("documents", s) = "quotas"
           /\ After("quotas", s) = IF check_activation(s) = {} THEN "plan parent" ELSE "refused"
           /\ After("plan parent", s) = "plan release"
           /\ After("plan release", s) = "plan inventory"
           /\ After("plan inventory", s) = IF ~PlanExpects(s, mode) THEN "refused"
                                           ELSE IF mode = "scaffold" THEN "build" ELSE "values"
           /\ After("values", s) = IF load_helm_release(s["values"]) THEN "build" ELSE "refused"
           /\ After("build", s) = IF Judged(s, mode) THEN "pass" ELSE "refused"
BY DEF After

\* The plan is of the first three reads: another read does not change it.
LEMMA PlanStays ==
    ASSUME NEW s, NEW e, e \notin {"parent", "release", "inventory"}, NEW v,
           "parent" \in DOMAIN s, "release" \in DOMAIN s, "inventory" \in DOMAIN s
    PROVE  Plan(Added(e, v, s)) = Plan(s)
<1>1. /\ Added(e, v, s)["parent"] = s["parent"] /\ Added(e, v, s)["release"] = s["release"]
      /\ Added(e, v, s)["inventory"] = s["inventory"]
  BY DEF Added
<1>2. QED
  BY <1>1 DEF Plan

\* A tree at rest answers the same read the same way.
LEMMA RestingRead ==
    ASSUME NEW s, NEW b, SeenIn(s, b, b), NEW e \in DOMAIN s
    PROVE  s[e] = Sees(e, b)
BY DEF SeenIn

\* The reads of the checks.
LEMMA CheckReadKeepsShown ==
    ASSUME NEW s, NEW mode \in Gates, mode = lane, NEW a, NEW b,
           NEW at \in {"parent", "release", "inventory", "signal", "install", "claim",
                       "documents", "quotas"},
           Shown(at, s, mode, a, b),
           NEW s2, s2 = Added(at, Sees(at, b), s)
    PROVE  /\ Shown(After(at, s2), s2, mode, a, b)
           /\ a = b /\ After(at, s2) = "refused" => ~Fit(b, mode)
<1>1. SeenIn(s2, a, b)
  BY AddedSeen DEF Shown
<1>2. DOMAIN s2 = DOMAIN s \cup {at}
  BY AddedRead
<1>3. KubeOk(a, b)
  BY DEF Shown, Reads
<1>4. Holds(at, s, mode)
  BY DEF Shown
<1>5. CASE at \in {"parent", "release"}
  <2>1. /\ at = "parent" => After(at, s2) = "release"
        /\ at = "release" => After(at, s2) = "inventory"
    BY AfterEach
  <2>2. Holds(After(at, s2), s2, mode)
    BY <1>2, <1>4, <1>5, <2>1 DEF Holds
  <2>3. QED
    BY <1>1, <1>3, <1>5, <2>1, <2>2 DEF Shown, PlanReads
<1>6. CASE at = "inventory"
  <2>1. After(at, s2) = IF Plan(s2).mode = "unsafe" THEN "refused" ELSE "signal"
    BY <1>6, AfterEach
  <2>2. Holds(After(at, s2), s2, mode)
    BY <1>2, <1>4, <1>6, <2>1 DEF Holds
  <2>3. Shown(After(at, s2), s2, mode, a, b)
    BY <1>1, <1>3, <2>1, <2>2 DEF Shown, PlanReads, Reads
  <2>4. ASSUME a = b, Fit(b, mode) PROVE Plan(s2).mode # "unsafe"
    <3>1. {"parent", "release", "inventory"} \subseteq DOMAIN s2
      BY <1>2, <1>4, <1>6 DEF Holds
    <3>2. /\ s2["parent"] = Sees("parent", b) /\ s2["release"] = Sees("release", b)
          /\ s2["inventory"] = Sees("inventory", b)
      BY <1>1, <2>4, <3>1, RestingRead
    <3>3. Planned(b, b, b, mode)
      BY <2>4, FitParts
    <3>4. Planned(s2["parent"], s2["release"], s2["inventory"], mode)
      BY <3>2, <3>3, PlannedOfReads
    <3>5. QED
      BY <3>4, PlanHasMode DEF Plan, Gates
  <2>5. QED
    BY <2>1, <2>3, <2>4
<1>7. CASE at = "signal"
  <2>1. After(at, s2) = IF AsksRelease(Plan(s2), s2) THEN "install"
                        ELSE IF Plan(s2).mode = "scaffold" THEN "documents"
                        ELSE "plan parent"
    BY <1>7, AfterEach
  <2>2. Plan(s2) = Plan(s) /\ Plan(s).mode # "unsafe"
    BY <1>4, <1>7, PlanStays DEF Holds, Shown
  <2>3. Holds(After(at, s2), s2, mode)
    BY <1>2, <1>4, <1>7, <2>1 DEF Holds
  <2>4. {"parent", "release", "inventory"} \subseteq DOMAIN s2
    BY <1>2, <1>4, <1>7 DEF Holds
  <2>5. After(at, s2) = "plan parent" => ActivationOk(a, b)
    BY <1>1, <2>1, <2>2, <2>4, OtherPlanIsConfigured
  <2>6. QED
    BY <1>1, <1>3, <2>1, <2>2, <2>3, <2>5 DEF Shown, PlanReads
<1>8. CASE at \in {"install", "claim", "documents"}
  <2>1. /\ at = "install" => After(at, s2) = "claim"
        /\ at = "claim" => After(at, s2) = "documents"
        /\ at = "documents" => After(at, s2) = "quotas"
    BY AfterEach
  <2>2. Plan(s2) = Plan(s) /\ Plan(s).mode # "unsafe"
    BY <1>4, <1>8, PlanStays DEF Holds, Shown
  <2>3. Holds(After(at, s2), s2, mode)
    BY <1>2, <1>4, <1>8, <2>1 DEF Holds
  <2>4. QED
    BY <1>1, <1>3, <1>8, <2>1, <2>2, <2>3 DEF Shown, PlanReads
<1>9. CASE at = "quotas"
  <2>1. After(at, s2) = IF check_activation(s2) = {} THEN "plan parent" ELSE "refused"
    BY <1>9, AfterEach
  <2>2. Holds(After(at, s2), s2, mode)
    BY <2>1 DEF Holds
  <2>3. {"parent", "release", "inventory", "signal", "documents", "quotas"} \subseteq DOMAIN s2
    BY <1>2, <1>4, <1>9 DEF Holds
  <2>4. check_activation(s2) = {} => ActivationOk(a, b)
    BY <1>1, <2>3, PassedActivation
  <2>5. Shown(After(at, s2), s2, mode, a, b)
    BY <1>1, <1>3, <2>1, <2>2, <2>4 DEF Shown, PlanReads, Reads
  <2>6. ASSUME a = b, Fit(b, mode) PROVE check_activation(s2) = {}
    <3>1. /\ s2["parent"] = Sees("parent", b) /\ s2["release"] = Sees("release", b)
          /\ s2["inventory"] = Sees("inventory", b) /\ s2["signal"] = Sees("signal", b)
          /\ s2["documents"] = Sees("documents", b) /\ s2["quotas"] = Sees("quotas", b)
      BY <1>1, <2>3, <2>6, RestingRead
    <3>2. QED
      BY <2>6, <3>1, FitActivates
  <2>7. QED
    BY <2>1, <2>5, <2>6
<1>10. QED
  BY <1>5, <1>6, <1>7, <1>8, <1>9

\* The reads of the renderer.
LEMMA PlanReadKeepsShown ==
    ASSUME NEW s, NEW mode \in Gates, mode = lane, NEW a, NEW b, NEW at \in PlanReads,
           Shown(at, s, mode, a, b),
           NEW s2, s2 = Added(at, Sees(at, b), s)
    PROVE  /\ Shown(After(at, s2), s2, mode, a, b)
           /\ a = b /\ After(at, s2) = "refused" => ~Fit(b, mode)
<1>1. SeenIn(s2, a, b)
  BY AddedSeen DEF Shown
<1>2. DOMAIN s2 = DOMAIN s \cup {at} /\ s2[at] = Sees(at, b)
  <2>1. DOMAIN s2 = DOMAIN s \cup {at}
    BY AddedRead
  <2>2. s2[at] = Sees(at, b)
    BY DEF Added
  <2>3. QED
    BY <2>1, <2>2
<1>3. KubeOk(a, b) /\ ActivationOk(a, b)
  BY DEF Shown, Reads, PlanReads
<1>4. Holds(at, s, mode)
  BY DEF Shown
<1>5. a = b /\ Fit(b, mode) => Planned(b, b, b, mode)
  BY FitParts
<1>6. CASE at \in {"plan parent", "plan release"}
  <2>1. /\ at = "plan parent" => After(at, s2) = "plan release"
        /\ at = "plan release" => After(at, s2) = "plan inventory"
    BY AfterEach
  <2>2. Holds(After(at, s2), s2, mode)
    BY <1>2, <1>4, <1>6, <2>1 DEF Holds
  <2>3. QED
    BY <1>1, <1>3, <1>6, <2>1, <2>2 DEF Shown
<1>7. CASE at = "plan inventory"
  <2>1. After(at, s2) = IF ~PlanExpects(s2, mode) THEN "refused"
                        ELSE IF mode = "scaffold" THEN "build" ELSE "values"
    BY <1>7, AfterEach
  <2>2. Holds(After(at, s2), s2, mode)
    BY <2>1 DEF Holds, Gates
  <2>3. {"plan parent", "plan release", "plan inventory"} \subseteq DOMAIN s2
    BY <1>2, <1>4, <1>7 DEF Holds
  <2>4. /\ PlanExpects(s2, mode) => PlanOk(a, b, mode)
        /\ a = b => (PlanExpects(s2, mode) <=> Planned(b, b, b, mode))
    BY <1>1, <2>3, ExpectedPlan
  <2>5. Shown(After(at, s2), s2, mode, a, b)
    BY <1>1, <1>3, <2>1, <2>2, <2>4 DEF Shown, Reads, PlanReads
  <2>6. QED
    BY <1>5, <2>1, <2>4, <2>5
<1>8. CASE at = "values"
  <2>1. After(at, s2) = IF load_helm_release(s2["values"]) THEN "build" ELSE "refused"
    BY <1>8, AfterEach
  <2>2. Holds(After(at, s2), s2, mode)
    BY <1>2, <1>8, <2>1 DEF Holds
  <2>3. PlanOk(a, b, mode)
    BY <1>8 DEF Shown
  <2>4. Shown(After(at, s2), s2, mode, a, b)
    BY <1>1, <1>3, <2>1, <2>2, <2>3 DEF Shown, Reads, PlanReads
  <2>5. s2["values"].canonical = b.canonical
    BY <1>2, <1>8, ReadFields
  <2>6. QED
    BY <1>5, <2>1, <2>4, <2>5 DEF Planned, load_helm_release
<1>9. CASE at = "build"
  <2>1. After(at, s2) = IF Judged(s2, mode) THEN "pass" ELSE "refused"
    BY <1>9, AfterEach
  <2>2. Holds(After(at, s2), s2, mode)
    BY <2>1 DEF Holds
  <2>3. PlanOk(a, b, mode)
    BY <1>9 DEF Shown
  <2>4. Shown(After(at, s2), s2, mode, a, b)
    BY <1>1, <1>3, <2>1, <2>2, <2>3 DEF Shown, Reads, PlanReads
  <2>5. ASSUME a = b, Fit(b, mode) PROVE Judged(s2, mode)
    <3>1. Planned(b, b, b, mode)
      BY <1>5, <2>5
    <3>2. CASE mode = "scaffold"
      <4>1. s2["build"].suspend = b.suspend
        BY <1>2, <1>9, ReadFields
      <4>2. QED
        BY <3>1, <3>2, <4>1 DEF Planned, Judged
    <3>3. CASE mode = "transition"
      <4>1. "values" \in DOMAIN s2
        BY <1>2, <1>4, <1>9, <3>3 DEF Holds
      <4>2. s2["values"] = Sees("values", b)
        BY <1>1, <2>5, <4>1, RestingRead
      <4>3. /\ s2["values"].canonical = b.canonical
            /\ s2["values"].tokens = b.tokens
        BY <4>2, ReadFields
      <4>4. QED
        BY <3>1, <3>3, <4>3 DEF Planned, TokensOf, Judged, load_helm_release
    <3>4. QED
      BY <3>2, <3>3 DEF Gates
  <2>6. QED
    BY <2>1, <2>4, <2>5
<1>10. QED
  BY <1>6, <1>7, <1>8, <1>9 DEF PlanReads

-----------------------------------------------------------------------------
(***************************************************************************)
(* The inductive invariant.  Shown forgets nothing a later decision needs: *)
(* with no edit since the gate began everything was read of the tree as it *)
(* is; with one, of it or of the tree before that edit; with more nothing  *)
(* is claimed.  A refusal matters only while the tree rests.               *)
(***************************************************************************)
Typed ==
    /\ work \in Tree /\ main \in Tree
    /\ edits \in 0..MaxEdits /\ began \in 0..edits
    /\ pc \in {"idle", "kubernetes", "pass", "refused"} \cup Reads
    /\ lane \in Gates /\ wasFit \in BOOLEAN
    /\ DOMAIN seen \subseteq Reads

Rested ==
    /\ Shown(pc, seen, lane, work, work)
    /\ Fit(work, lane) => wasFit
    /\ pc = "refused" => ~Fit(work, lane)

Disturbed ==
    \E old \in Tree :
        /\ OneEdit(old, work)
        /\ Shown(pc, seen, lane, old, work)
        /\ Fit(old, lane) \/ Fit(work, lane) => wasFit

EarnedInv ==
    /\ Typed
    /\ pc = "idle" => DOMAIN seen = {}
    /\ pc # "idle" /\ edits = began     => Rested
    /\ pc # "idle" /\ edits = began + 1 => Disturbed

\* The committed tree is a tree.
LEMMA CommittedIsTree == CommittedTree \in Tree
<1>1. [d \in Documents |-> 1] \in [Documents -> Versions]
  BY DEF Versions
<1>2. [hash |-> 1, ready |-> TRUE, hard |-> TRUE] \in Quota
  BY DEF Quota, Versions
<1>3. [ns \in Namespaces |-> [hash |-> 1, ready |-> TRUE, hard |-> TRUE]]
         \in [Namespaces -> Quota]
  BY <1>2
<1>4. QED
  BY <1>1, <1>3 DEF CommittedTree, Tree

LEMMA InitIsEarned == Init => EarnedInv
<1> SUFFICES ASSUME Init PROVE EarnedInv
  OBVIOUS
<1>1. DOMAIN seen = {}
  BY DEF Init
<1>2. Typed
  <2>1. work \in Tree /\ main \in Tree
    BY CommittedIsTree, Zenon DEF Init
  <2>2. edits \in 0..MaxEdits /\ began \in 0..edits
    BY EditsAssumption DEF Init
  <2>3. pc = "idle" /\ lane \in Gates /\ wasFit \in BOOLEAN
    BY DEF Init, Gates
  <2>4. QED
    BY <1>1, <2>1, <2>2, <2>3, Zenon DEF Typed
<1>3. QED
  BY <1>1, <1>2 DEF Init, EarnedInv

LEMMA EditKeepsEarned == EarnedInv /\ Edit => EarnedInv'
<1> SUFFICES ASSUME EarnedInv, Edit PROVE EarnedInv'
  OBVIOUS
<1>1. Typed /\ (pc = "idle" => DOMAIN seen = {})
  BY DEF EarnedInv
<1>2. /\ pc \notin {"pass", "refused"} /\ edits < MaxEdits /\ edits' = edits + 1
      /\ wasFit' = (wasFit \/ (pc # "idle" /\ Fit(work', lane)))
      /\ main' = main /\ pc' = pc /\ lane' = lane /\ seen' = seen /\ began' = began
  BY DEF Edit
<1>3. work \in Tree /\ edits \in Nat /\ began \in Nat /\ began <= edits
  BY <1>1, EditsAssumption DEF Typed
<1>4. work' \in Tree /\ OneEdit(work, work')
  BY <1>3, EditIsOneEdit DEF Edit
<1>5. Typed'
  BY <1>1, <1>2, <1>4, EditsAssumption DEF Typed
<1>6. pc' = "idle" => DOMAIN seen' = {}
  BY <1>1, <1>2
<1>7. edits' # began'
  BY <1>2, <1>3
<1>8. ASSUME pc' # "idle", edits' = began' + 1
      PROVE  Disturbed'
  <2>1. pc # "idle" /\ edits = began
    BY <1>2, <1>3, <1>8
  <2>2. Shown(pc, seen, lane, work, work) /\ (Fit(work, lane) => wasFit)
    BY <2>1 DEF EarnedInv, Rested
  <2>3. Shown(pc', seen', lane', work, work')
    BY <1>2, <2>2, ShownOfMore
  <2>4. Fit(work, lane') \/ Fit(work', lane') => wasFit'
    BY <1>2, <2>1, <2>2
  <2>5. QED
    BY <1>3, <1>4, <2>3, <2>4 DEF Disturbed
<1>9. QED
  BY <1>5, <1>6, <1>7, <1>8 DEF EarnedInv

\* The gate begins with nothing read, and keeps the record of this moment.
LEMMA BeginKeepsEarned ==
    ASSUME EarnedInv, NEW mode \in {"scaffold", "transition"}, Begin(mode)
    PROVE  EarnedInv'
<1>1. Typed /\ DOMAIN seen = {} /\ edits \in Nat
  BY EditsAssumption DEF EarnedInv, Begin, Typed
<1>2. /\ pc' = "kubernetes" /\ lane' = mode /\ began' = edits /\ wasFit' = Fit(work, mode)
      /\ work' = work /\ edits' = edits /\ main' = main /\ seen' = seen
  BY DEF Begin
<1>3. Fit(work, mode) \in BOOLEAN
  BY DEF Fit
<1>4. Typed'
  BY <1>1, <1>2, <1>3 DEF Typed, Gates
<1>5. SeenIn(seen', work', work')
  BY <1>1, <1>2 DEF SeenIn
<1>6. Shown("kubernetes", seen', lane', work', work')
  BY <1>5 DEF Shown, Holds, Reads, PlanReads
<1>7. Rested'
  BY <1>2, <1>6 DEF Rested
<1>8. edits' # began' + 1
  BY <1>1, <1>2
<1>9. QED
  BY <1>2, <1>4, <1>7, <1>8 DEF EarnedInv

\* What is shown when check_kubernetes has judged the tree b.
LEMMA KubernetesShown ==
    ASSUME NEW s, NEW mode, NEW a, NEW b, Shown("kubernetes", s, mode, a, b),
           NEW next, next = IF check_kubernetes(b) = {} THEN "parent" ELSE "refused"
    PROVE  Shown(next, s, mode, a, b)
<1>1. SeenIn(s, a, b)
  BY DEF Shown
<1>2. next = "parent" => KubeOk(a, b)
  BY KubernetesIsKubeFit DEF KubeOk
<1>3. QED
  BY <1>1, <1>2 DEF Shown, Holds, Reads, PlanReads

LEMMA KubernetesKeepsEarned == EarnedInv /\ CheckKubernetes => EarnedInv'
<1> SUFFICES ASSUME EarnedInv, CheckKubernetes PROVE EarnedInv'
  OBVIOUS
<1>1. Typed
  BY DEF EarnedInv
<1>2. /\ pc = "kubernetes"
      /\ pc' = IF check_kubernetes(work) = {} THEN "parent" ELSE "refused"
      /\ work' = work /\ edits' = edits /\ main' = main /\ lane' = lane /\ seen' = seen
      /\ began' = began /\ wasFit' = wasFit
  BY DEF CheckKubernetes
<1>3. Typed'
  BY <1>1, <1>2 DEF Typed, Reads
<1>4. pc' # "idle"
  BY <1>2
<1>5. ASSUME edits' = began' PROVE Rested'
  <2>1. /\ Shown("kubernetes", seen, lane, work, work)
        /\ Fit(work, lane) => wasFit
    BY <1>2, <1>5 DEF EarnedInv, Rested
  <2>2. Shown(pc', seen, lane, work, work)
    BY <1>2, <2>1, KubernetesShown
  <2>3. pc' = "refused" => ~Fit(work, lane)
    <3>1. pc' = "refused" => ~KubeFit(work)
      BY <1>2, KubernetesIsKubeFit
    <3>2. lane \in Gates
      BY <1>1 DEF Typed
    <3>3. QED
      BY <3>1, <3>2, FitParts
  <2>4. QED
    BY <1>2, <2>1, <2>2, <2>3 DEF Rested
<1>6. ASSUME edits' = began' + 1 PROVE Disturbed'
  <2>1. PICK old \in Tree : /\ OneEdit(old, work)
                            /\ Shown("kubernetes", seen, lane, old, work)
                            /\ Fit(old, lane) \/ Fit(work, lane) => wasFit
    BY <1>2, <1>6 DEF EarnedInv, Disturbed
  <2>2. Shown(pc', seen, lane, old, work)
    BY <1>2, <2>1, KubernetesShown
  <2>3. QED
    BY <1>2, <2>1, <2>2 DEF Disturbed
<1>7. QED
  BY <1>3, <1>4, <1>5, <1>6 DEF EarnedInv

\* A gate that forgot its reads holds none.
LEMMA NothingRead == DOMAIN <<>> = {}
OBVIOUS

\* Nothing of the reads is owed where they are forgotten.
LEMMA Forgotten ==
    ASSUME NEW at \in {"plan parent", "pass", "refused"}, NEW s, NEW mode, NEW a, NEW b,
           Shown(at, s, mode, a, b)
    PROVE  Shown(at, <<>>, mode, a, b)
<1>1. SeenIn(<<>>, a, b)
  BY NothingRead, Zenon DEF SeenIn
<1>2. QED
  BY <1>1 DEF Shown, Holds, Reads, PlanReads

\* One read of the gate, over a tree and one edit of it or over a tree at rest.
LEMMA ReadKeepsShown ==
    ASSUME Typed, NEW e \in Reads, Read(e), NEW a, Shown(pc, seen, lane, a, work)
    PROVE  /\ Shown(pc', seen', lane, a, work)
           /\ a = work /\ pc' = "refused" => ~Fit(work, lane)
<1> DEFINE s2 == Added(e, Sees(e, work), seen)
           next == After(e, s2)
<1>1. /\ pc = e /\ pc' = next
      /\ seen' = IF pc' \in {"plan parent", "pass", "refused"} THEN <<>> ELSE s2
  BY DEF Read, Added
<1>2. lane \in Gates
  BY DEF Typed
<1>3. \/ e \in {"parent", "release", "inventory", "signal", "install", "claim",
                "documents", "quotas"}
      \/ e \in PlanReads
  BY DEF Reads, PlanReads
<1>4. /\ Shown(next, s2, lane, a, work)
      /\ a = work /\ next = "refused" => ~Fit(work, lane)
  BY <1>1, <1>2, <1>3, CheckReadKeepsShown, PlanReadKeepsShown
<1> HIDE DEF s2, next
<1>5. QED
  BY <1>1, <1>4, Forgotten

\* Where a read can lead, and what it leaves.
LEMMA ReadIsTyped ==
    ASSUME Typed, NEW e \in Reads, Read(e)
    PROVE  /\ pc' \in {"pass", "refused"} \cup Reads
           /\ DOMAIN seen' \subseteq Reads
<1> DEFINE s2 == Added(e, Sees(e, work), seen)
<1>1. /\ pc' = After(e, s2)
      /\ seen' = IF pc' \in {"plan parent", "pass", "refused"} THEN <<>> ELSE s2
  BY DEF Read, Added
<1>2. DOMAIN s2 \subseteq Reads
  BY DEF Typed, Added
<1> HIDE DEF s2
<1>3. After(e, s2) \in {"pass", "refused"} \cup Reads
  <2>1. CASE e \in {"parent", "release", "install", "claim", "documents", "plan parent",
                    "plan release"}
    BY <2>1, AfterEach DEF Reads
  <2>2. CASE e \in {"inventory", "signal", "quotas"}
    BY <2>2, AfterEach DEF Reads
  <2>3. CASE e = "plan inventory"
    <3>1. After(e, s2) = IF ~PlanExpects(s2, lane) THEN "refused"
                         ELSE IF lane = "scaffold" THEN "build" ELSE "values"
      BY <2>3, AfterEach
    <3>2. QED
      BY <3>1 DEF Reads
  <2>4. CASE e = "values"
    <3>1. After(e, s2) = IF load_helm_release(s2["values"]) THEN "build" ELSE "refused"
      BY <2>4, AfterEach
    <3>2. QED
      BY <3>1 DEF Reads
  <2>5. CASE e = "build"
    <3>1. After(e, s2) = IF Judged(s2, lane) THEN "pass" ELSE "refused"
      BY <2>5, AfterEach
    <3>2. QED
      BY <3>1 DEF Reads
  <2>6. QED
    BY <2>1, <2>2, <2>3, <2>4, <2>5 DEF Reads
<1>4. DOMAIN seen' \subseteq Reads
  <2>1. CASE pc' \in {"plan parent", "pass", "refused"}
    <3>1. seen' = <<>>
      BY <1>1, <2>1
    <3>2. QED
      BY <3>1, NothingRead
  <2>2. CASE pc' \notin {"plan parent", "pass", "refused"}
    BY <1>1, <1>2, <2>2
  <2>3. QED
    BY <2>1, <2>2
<1>5. QED
  BY <1>1, <1>3, <1>4

LEMMA ReadKeepsEarned ==
    ASSUME EarnedInv, NEW e \in Reads, Read(e)
    PROVE  EarnedInv'
<1>1. Typed
  BY DEF EarnedInv
<1>2. /\ pc = e /\ work' = work /\ edits' = edits /\ main' = main /\ lane' = lane
      /\ began' = began /\ wasFit' = wasFit
  BY DEF Read
<1>3. pc # "idle" /\ pc' # "idle"
  BY <1>1, <1>2, ReadIsTyped DEF Reads
<1>4. Typed'
  BY <1>1, <1>2, ReadIsTyped DEF Typed
<1>5. ASSUME edits' = began' PROVE Rested'
  <2>1. /\ Shown(pc, seen, lane, work, work)
        /\ Fit(work, lane) => wasFit
    BY <1>2, <1>3, <1>5 DEF EarnedInv, Rested
  <2>2. /\ Shown(pc', seen', lane, work, work)
        /\ pc' = "refused" => ~Fit(work, lane)
    BY <1>1, <2>1, ReadKeepsShown
  <2>3. QED
    BY <1>2, <2>1, <2>2 DEF Rested
<1>6. ASSUME edits' = began' + 1 PROVE Disturbed'
  <2>1. PICK old \in Tree : /\ OneEdit(old, work)
                            /\ Shown(pc, seen, lane, old, work)
                            /\ Fit(old, lane) \/ Fit(work, lane) => wasFit
    BY <1>2, <1>3, <1>6 DEF EarnedInv, Disturbed
  <2>2. Shown(pc', seen', lane, old, work)
    BY <1>1, <2>1, ReadKeepsShown
  <2>3. QED
    BY <1>2, <2>1, <2>2 DEF Disturbed
<1>7. QED
  BY <1>3, <1>4, <1>5, <1>6 DEF EarnedInv

LEMMA NextKeepsEarned == EarnedInv /\ [Next]_vars => EarnedInv'
<1> SUFFICES ASSUME EarnedInv, [Next]_vars PROVE EarnedInv'
  OBVIOUS
<1>1. CASE Edit
  BY <1>1, EditKeepsEarned
<1>2. CASE Merge
  BY <1>2 DEF Merge, EarnedInv, Typed
<1>3. CASE \E mode \in {"scaffold", "transition"} : Begin(mode)
  BY <1>3, BeginKeepsEarned
<1>4. CASE CheckKubernetes
  BY <1>4, KubernetesKeepsEarned
<1>5. CASE \E e \in Reads : Read(e)
  BY <1>5, ReadKeepsEarned
<1>6. CASE UNCHANGED vars
  BY <1>6 DEF vars, EarnedInv, Typed, Rested, Disturbed
<1>7. QED
  BY <1>1, <1>2, <1>3, <1>4, <1>5, <1>6 DEF Next

-----------------------------------------------------------------------------
(***************************************************************************)
(* The verdicts.                                                           *)
(***************************************************************************)

\* The checks of one commit accept exactly the fit trees: a pull request and
\* the local gate follow the same rule.
LEMMA SoundIsFit ==
    ASSUME NEW t, NEW mode \in Gates
    PROVE  Sound(t, mode) <=> Fit(t, mode)
<1> DEFINE s == AtOnce(t)
<1>1. \A e \in Reads : s[e] = Sees(e, t)
  BY AtOnceSees
<1>2. DOMAIN s = Reads
  BY DEF AtOnce
<1>3. SeenIn(s, t, t)
  BY <1>1, <1>2 DEF SeenIn
<1> HIDE DEF s
<1>4. PlanExpects(s, mode) <=> Planned(t, t, t, mode)
  BY <1>2, <1>3, ExpectedPlan DEF Reads
<1>5. check_kubernetes(t) = {} <=> KubeFit(t)
  BY KubernetesIsKubeFit
<1>6. ASSUME check_kubernetes(t) = {}, check_activation(s) = {}, PlanExpects(s, mode)
      PROVE  Fit(t, mode)
  <2>1. KubeOk(t, t)
    BY <1>5, <1>6 DEF KubeOk
  <2>2. ActivationOk(t, t)
    BY <1>2, <1>3, <1>6, PassedActivation DEF Reads
  <2>3. PlanOk(t, t, mode)
    BY <1>4, <1>6 DEF PlanOk
  <2>4. QED
    BY <2>1, <2>2, <2>3, PassedIsFit
<1>7. ASSUME Fit(t, mode)
      PROVE  /\ check_kubernetes(t) = {} /\ check_activation(s) = {}
             /\ PlanExpects(s, mode) /\ Judged(s, mode)
  <2>1. KubeFit(t) /\ Planned(t, t, t, mode)
    BY <1>7, FitParts
  <2>2. /\ s["parent"] = Sees("parent", t) /\ s["release"] = Sees("release", t)
        /\ s["inventory"] = Sees("inventory", t) /\ s["signal"] = Sees("signal", t)
        /\ s["documents"] = Sees("documents", t) /\ s["quotas"] = Sees("quotas", t)
        /\ s["values"] = Sees("values", t) /\ s["build"] = Sees("build", t)
    BY <1>1 DEF Reads
  <2>3. check_activation(s) = {}
    BY <1>7, <2>2, FitActivates
  <2>4. /\ s["values"].canonical = t.canonical /\ s["values"].tokens = t.tokens
        /\ s["build"].suspend = t.suspend
    BY <2>2, ReadFields
  <2>5. Judged(s, mode)
    BY <2>1, <2>4 DEF Judged, Planned, TokensOf, load_helm_release, Gates
  <2>6. QED
    BY <1>4, <1>5, <2>1, <2>3, <2>5
<1>8. QED
  BY <1>6, <1>7 DEF Sound, s

\* No commit passes as a release: no connector has a parent to activate it.
LEMMA NoRelease ==
    ASSUME NEW t
    PROVE  ~Sound(t, "release") /\ ~Fit(t, "release")
<1>1. ~PlanExpects(AtOnce(t), "release")
  BY PlanHasMode DEF PlanExpects, Gates
<1>2. QED
  BY <1>1 DEF Sound, Fit

\* At rest the local gate passes and refuses exactly as the tree deserves, main
\* takes the same trees, and one edit under the gate cannot forge a pass.
THEOREM VerdictEarned == Spec => []VerdictIsEarned
<1>1. EarnedInv => VerdictIsEarned
  <2> SUFFICES ASSUME EarnedInv PROVE VerdictIsEarned
    OBVIOUS
  <2>1. /\ lane \in Gates /\ edits \in Nat /\ began \in Nat /\ began <= edits
    BY EditsAssumption DEF EarnedInv, Typed
  <2>2. ASSUME pc = "pass", edits = began PROVE Fit(work, lane) /\ wasFit
    <3>1. Shown("pass", seen, lane, work, work) /\ (Fit(work, lane) => wasFit)
      BY <2>2 DEF EarnedInv, Rested
    <3>2. KubeOk(work, work) /\ ActivationOk(work, work) /\ PlanOk(work, work, lane)
      BY <3>1 DEF Shown
    <3>3. Fit(work, lane)
      BY <2>1, <3>2, PassedIsFit
    <3>4. QED
      BY <3>1, <3>3
  <2>3. pc = "refused" /\ edits = began => ~Fit(work, lane)
    BY DEF EarnedInv, Rested
  <2>4. Accepted(work) <=> \E mode \in Modes : Fit(work, mode)
    BY SoundIsFit, NoRelease DEF Accepted, Modes, Gates
  <2>5. ASSUME pc = "pass", edits = began + 1 PROVE wasFit
    <3>1. PICK old \in Tree : /\ OneEdit(old, work)
                              /\ Shown("pass", seen, lane, old, work)
                              /\ Fit(old, lane) \/ Fit(work, lane) => wasFit
      BY <2>5 DEF EarnedInv, Disturbed
    <3>2. KubeOk(old, work) /\ ActivationOk(old, work) /\ PlanOk(old, work, lane)
      BY <3>1 DEF Shown
    <3>3. Fit(old, lane) \/ Fit(work, lane)
      BY <2>1, <3>1, <3>2, PassedIsFit
    <3>4. QED
      BY <3>1, <3>3
  <2>6. UndisturbedGateAgrees
    BY <2>2, <2>3, <2>4 DEF UndisturbedGateAgrees
  <2>7. OneEditCannotForge
    <3>1. edits <= began + 1 => edits = began \/ edits = began + 1
      BY <2>1
    <3>2. QED
      BY <2>2, <2>5, <3>1 DEF OneEditCannotForge
  <2>8. QED
    BY <2>6, <2>7 DEF VerdictIsEarned
<1>2. QED
  BY <1>1, InitIsEarned, NextKeepsEarned, PTL DEF Spec

\* The types of the trees, the gate and its counters hold for any number of edits.
THEOREM ReleaseTypeCorrect == Spec => []TypeOK
<1>1. EarnedInv => TypeOK
  BY DEF EarnedInv, Typed, TypeOK, Gates, Modes
<1>2. QED
  BY <1>1, InitIsEarned, NextKeepsEarned, PTL DEF Spec

--------------------------------------------------------------------------------
(***************************************************************************)
(* The settings of the repository.  The answers are of the settings before *)
(* the one change up to some point and of the present ones since.  Only a  *)
(* ruleset is read twice, its summary first and its record under the id of *)
(* that summary: what passes with the record of the new ruleset is         *)
(* documented in the new state, whatever the summary was of.               *)
(***************************************************************************)
\* The names of the documented rulesets.
Three == {"main", "owner", "tags"}

\* What the settings range over.
Settings ==
  [immutable : BOOLEAN, reporting : BOOLEAN, pinning : BOOLEAN, approvals : BOOLEAN,
   scanning : BOOLEAN, merges : SUBSET MergeKind, rulesets : SUBSET Ruleset]

\* What no change of a control touches: the ids are the rulesets', and each
\* ruleset has the target and the merge methods of its name.
Lawful(list) ==
  /\ IsFiniteSet(list)
  /\ \A q, r \in list : q.id = r.id => q = r
  /\ \A r \in list : /\ r \in Ruleset /\ r.id # NoId /\ r.name \in Three
                     /\ r.target = TargetOf(r.name) /\ r.merges = MergesOf(r.name)

\* The active rulesets are the three documented ones.
ExactList(list) ==
  \E x \in [Three -> list] :
    /\ {r \in list : r.active} = {x[n] : n \in Three}
    /\ \A n \in Three : x[n] = Documented(n, x[n].id)

\* The controls beside the rulesets.
ExactControls(s) ==
  /\ s.immutable /\ s.reporting /\ s.pinning /\ ~s.approvals /\ s.scanning
  /\ s.merges = {"rebase", "squash"}

\* The ids the summaries select, and none when they refuse.
Selected(list) ==
  [main  |-> _select_main_ruleset_ids(list)[1],
   owner |-> _select_main_ruleset_ids(list)[2],
   tags  |-> _select_release_tag_ruleset_id(list)]

\* The summaries are not refused.
Selects(list) == NoId \notin {_select_main_ruleset_ids(list)[1], _select_release_tag_ruleset_id(list)}

\* Two documented rulesets differ in the id alone.
LEMMA DocumentedFields ==
  ASSUME NEW n \in Three, NEW r \in Ruleset, r.name = n
  PROVE  /\ Documented(n, r.id) = r <=>
              /\ r.target = TargetOf(n) /\ r.active /\ r.rules = RulesOf(n) /\ r.plain
              /\ r.merges = MergesOf(n) /\ r.bypass = BypassOf(n)
         /\ [r EXCEPT !.id = 0] = Documented(n, 0) <=> r = Documented(n, r.id)
<1>1. r = [id |-> r.id, name |-> r.name, target |-> r.target, active |-> r.active,
           rules |-> r.rules, plain |-> r.plain, merges |-> r.merges, bypass |-> r.bypass]
  BY DEF Ruleset
<1>2. r.active \in BOOLEAN /\ r.plain \in BOOLEAN
  BY DEF Ruleset
<1>3. [r EXCEPT !.id = 0] =
          [id |-> 0, name |-> r.name, target |-> r.target, active |-> r.active,
           rules |-> r.rules, plain |-> r.plain, merges |-> r.merges, bypass |-> r.bypass]
  BY <1>1
<1>4. \A i : Documented(n, i) =
          [id |-> i, name |-> n, target |-> TargetOf(n), active |-> TRUE,
           rules |-> RulesOf(n), plain |-> TRUE, merges |-> MergesOf(n), bypass |-> BypassOf(n)]
  BY DEF Documented
<1> DEFINE same == /\ r.target = TargetOf(n) /\ r.active /\ r.rules = RulesOf(n) /\ r.plain
                   /\ r.merges = MergesOf(n) /\ r.bypass = BypassOf(n)
<1>5. Documented(n, r.id) = r <=> same
  <2>1. ASSUME same PROVE Documented(n, r.id) = r
    <3>1. r.active = TRUE /\ r.plain = TRUE
      BY <1>2, <2>1
    <3>2. QED
      BY <1>1, <1>4, <2>1, <3>1
  <2>2. ASSUME Documented(n, r.id) = r PROVE same
    <3>1. r = [id |-> r.id, name |-> n, target |-> TargetOf(n), active |-> TRUE,
               rules |-> RulesOf(n), plain |-> TRUE, merges |-> MergesOf(n),
               bypass |-> BypassOf(n)]
      BY <1>4, <2>2
    <3>2. QED
      BY <3>1
  <2>3. QED
    BY <2>1, <2>2
<1>6. [r EXCEPT !.id = 0] = Documented(n, 0) <=> same
  <2> DEFINE q == [id |-> 0, name |-> r.name, target |-> r.target, active |-> r.active,
           rules |-> r.rules, plain |-> r.plain, merges |-> r.merges, bypass |-> r.bypass]
             d == [id |-> 0, name |-> n, target |-> TargetOf(n), active |-> TRUE,
           rules |-> RulesOf(n), plain |-> TRUE, merges |-> MergesOf(n), bypass |-> BypassOf(n)]
  <2>1. ASSUME same PROVE q = d
    <3>1. r.active = TRUE /\ r.plain = TRUE
      BY <1>2, <2>1
    <3>2. QED
      BY <2>1, <3>1
  <2>2. ASSUME q = d PROVE same
    <3>1. /\ q.target = d.target /\ q.active = d.active /\ q.rules = d.rules /\ q.plain = d.plain
          /\ q.merges = d.merges /\ q.bypass = d.bypass
      BY <2>2
    <3>2. QED
      BY <3>1
  <2>3. QED
    BY <1>3, <1>4, <2>1, <2>2
<1>7. QED
  BY <1>5, <1>6

\* Exact, in the terms the validators use.
LEMMA ExactMeans ==
  ASSUME NEW s \in Settings, Lawful(s.rulesets)
  PROVE  Exact(s) <=> ExactControls(s) /\ ExactList(s.rulesets)
<1> DEFINE list == s.rulesets
           active == {r \in list : r.active}
           bare == {[r EXCEPT !.id = 0] : r \in active}
<1>1. IsFiniteSet(active)
  BY FS_Subset DEF Lawful
<1>2. Exact(s) <=>
        /\ \A f \in Toggles : s[f] = ExactSettings[f]
        /\ s.merges = {"rebase", "squash"}
        /\ bare = {Documented(name, 0) : name \in Three}
        /\ Cardinality(active) = 3
  BY DEF Exact, Active, Three
<1>3. (/\ \A f \in Toggles : s[f] = ExactSettings[f]
       /\ s.merges = {"rebase", "squash"}) <=> ExactControls(s)
  <2>1. /\ s["immutable"] = s.immutable /\ s["reporting"] = s.reporting
        /\ s["pinning"] = s.pinning /\ s["approvals"] = s.approvals
        /\ s["scanning"] = s.scanning
    OBVIOUS
  <2>2. /\ s.immutable \in BOOLEAN /\ s.reporting \in BOOLEAN /\ s.pinning \in BOOLEAN
        /\ s.approvals \in BOOLEAN /\ s.scanning \in BOOLEAN
    BY DEF Settings
  <2>3. (\A f \in Toggles : s[f] = ExactSettings[f]) <=>
          /\ s.immutable = TRUE /\ s.reporting = TRUE /\ s.pinning = TRUE
          /\ s.approvals = FALSE /\ s.scanning = TRUE
    <3>1. (\A f \in Toggles : s[f] = ExactSettings[f]) <=>
            /\ s["immutable"] = ExactSettings["immutable"]
            /\ s["reporting"] = ExactSettings["reporting"]
            /\ s["pinning"] = ExactSettings["pinning"]
            /\ s["approvals"] = ExactSettings["approvals"]
            /\ s["scanning"] = ExactSettings["scanning"]
      BY Zenon DEF Toggles
    <3>2. /\ ExactSettings["immutable"] = TRUE /\ ExactSettings["reporting"] = TRUE
          /\ ExactSettings["pinning"] = TRUE /\ ExactSettings["approvals"] = FALSE
          /\ ExactSettings["scanning"] = TRUE
      BY DEF ExactSettings
    <3>3. QED
      BY <2>1, <3>1, <3>2
  <2>4. QED
    BY <2>2, <2>3 DEF ExactControls
<1>4. \A r \in active : r \in list /\ r \in Ruleset /\ r.name \in Three
  BY DEF Lawful
<1>5. ASSUME NEW x \in [Three -> list],
             \A n \in Three : x[n] = Documented(n, x[n].id)
      PROVE  Cardinality({x[n] : n \in Three}) = 3 /\ IsFiniteSet({x[n] : n \in Three})
  <2>1. x["main"].name = "main" /\ x["owner"].name = "owner" /\ x["tags"].name = "tags"
    BY <1>5 DEF Three, Documented
  <2>2. x["main"] # x["owner"] /\ x["main"] # x["tags"] /\ x["owner"] # x["tags"]
    BY <2>1
  <2>3. {x[n] : n \in Three} = ({x["main"]} \cup {x["owner"]}) \cup {x["tags"]}
    BY DEF Three
  <2>4. IsFiniteSet({x["main"]}) /\ Cardinality({x["main"]}) = 1
    BY FS_Singleton
  <2>5. /\ IsFiniteSet({x["main"]} \cup {x["owner"]})
        /\ Cardinality({x["main"]} \cup {x["owner"]}) = 2
    BY <2>2, <2>4, FS_AddElement
  <2>6. /\ IsFiniteSet(({x["main"]} \cup {x["owner"]}) \cup {x["tags"]})
        /\ Cardinality(({x["main"]} \cup {x["owner"]}) \cup {x["tags"]}) = 3
    BY <2>2, <2>5, FS_AddElement
  <2>7. QED
    BY <2>3, <2>6
<1> HIDE DEF list
<1>6. ASSUME bare = {Documented(name, 0) : name \in Three}, Cardinality(active) = 3
      PROVE  ExactList(list)
  <2>1. ASSUME NEW n \in Three
        PROVE  \E r \in active : r = Documented(n, r.id)
    <3>1. Documented(n, 0) \in bare
      BY <1>6
    <3>2. PICK r \in active : [r EXCEPT !.id = 0] = Documented(n, 0)
      BY <3>1
    <3>3. r.name = n
      <4>1. [r EXCEPT !.id = 0].name = r.name
        BY <1>4, <3>2 DEF Ruleset
      <4>2. Documented(n, 0).name = n
        BY DEF Documented
      <4>3. QED
        BY <3>2, <4>1, <4>2
    <3>4. QED
      BY <1>4, <3>2, <3>3, DocumentedFields
  <2> DEFINE x == [n \in Three |-> CHOOSE r \in active : r = Documented(n, r.id)]
  <2>2. \A n \in Three : x[n] \in active /\ x[n] = Documented(n, x[n].id)
    BY <2>1
  <2>3. x \in [Three -> list]
    BY <2>2
  <2> HIDE DEF x
  <2>4. Cardinality({x[n] : n \in Three}) = 3
    BY <1>5, <2>2, <2>3 DEF list
  <2>5. {x[n] : n \in Three} \in SUBSET active
    BY <2>2
  <2>6. active = {x[n] : n \in Three}
    BY <1>1, <1>6, <2>4, <2>5, FS_Subset
  <2>7. QED
    BY <2>2, <2>3, <2>6 DEF ExactList
<1>7. ASSUME ExactList(list)
      PROVE  bare = {Documented(name, 0) : name \in Three} /\ Cardinality(active) = 3
  <2>1. PICK x \in [Three -> list] :
          /\ active = {x[n] : n \in Three}
          /\ \A n \in Three : x[n] = Documented(n, x[n].id)
    BY <1>7 DEF ExactList
  <2>2. Cardinality(active) = 3
    BY <1>5, <2>1 DEF list
  <2>3. \A n \in Three : [x[n] EXCEPT !.id = 0] = Documented(n, 0)
    <3> TAKE n \in Three
    <3>1. x[n] \in active
      BY <2>1
    <3>2. x[n].name = n
      BY <2>1 DEF Documented
    <3>3. QED
      BY <1>4, <2>1, <3>1, <3>2, DocumentedFields
  <2>4. bare = {[x[n] EXCEPT !.id = 0] : n \in Three}
    BY <2>1
  <2>5. QED
    BY <2>2, <2>3, <2>4
<1>8. QED
  BY <1>2, <1>3, <1>6, <1>7 DEF list

\* Two things are two.
LEMMA TwoElements ==
  ASSUME NEW a, NEW b, a # b
  PROVE  Cardinality({a, b}) = 2
<1>1. IsFiniteSet({a}) /\ Cardinality({a}) = 1
  BY FS_Singleton
<1>2. Cardinality({a} \cup {b}) = 2
  BY <1>1, FS_AddElement
<1>3. {a} \cup {b} = {a, b}
  OBVIOUS
<1>4. QED
  BY <1>2, <1>3

\* One active ruleset of each name, and no other.
OnePerName(list, d) ==
  /\ d \in [Three -> list]
  /\ {r \in list : r.active} = {d[n] : n \in Three}
  /\ \A n \in Three : d[n].name = n

\* The two namespaces of a list that has one of each.
LEMMA Namespaces3 ==
  ASSUME NEW list, Lawful(list), NEW d, OnePerName(list, d)
  PROVE  /\ ActiveFor(list, "branch") = {d["main"], d["owner"]}
         /\ ActiveFor(list, "tag") = {d["tags"]}
<1>1. /\ d["main"] \in list /\ d["owner"] \in list /\ d["tags"] \in list
      /\ {r \in list : r.active} = {d["main"], d["owner"], d["tags"]}
      /\ d["main"].name = "main" /\ d["owner"].name = "owner" /\ d["tags"].name = "tags"
  BY DEF OnePerName, Three
<1>2. /\ d["main"].target = "branch" /\ d["owner"].target = "branch" /\ d["tags"].target = "tag"
  BY <1>1 DEF Lawful, TargetOf
<1>3. \A r \in list : r.active <=> r \in {d["main"], d["owner"], d["tags"]}
  BY <1>1
<1>4. QED
  BY <1>1, <1>2, <1>3 DEF ActiveFor

\* The summaries select the ids of such a list.
LEMMA SelectsOnePerName ==
  ASSUME NEW list, Lawful(list), NEW d, OnePerName(list, d)
  PROVE  Selects(list) /\ \A n \in Three : Selected(list)[n] = d[n].id
<1> DEFINE branch == ActiveFor(list, "branch")
           tag == ActiveFor(list, "tag")
           IdOf(name) == (CHOOSE r \in branch : r.name = name).id
<1>1. /\ d["main"] \in list /\ d["owner"] \in list /\ d["tags"] \in list
      /\ d["main"].name = "main" /\ d["owner"].name = "owner" /\ d["tags"].name = "tags"
      /\ d["main"].id # NoId /\ d["owner"].id # NoId /\ d["tags"].id # NoId
  BY DEF OnePerName, Three, Lawful
<1>2. branch = {d["main"], d["owner"]} /\ tag = {d["tags"]}
  BY Namespaces3
<1>3. Cardinality({d["main"], d["owner"]}) = 2 /\ Cardinality({d["tags"]}) = 1
  <2>1. d["main"] # d["owner"]
    BY <1>1
  <2>2. QED
    BY <2>1, TwoElements, FS_Singleton
<1>4. (CHOOSE r \in branch : r.name = "main") = d["main"]
  BY <1>1, <1>2
<1>5. (CHOOSE r \in branch : r.name = "owner") = d["owner"]
  BY <1>1, <1>2
<1>6. (CHOOSE q \in tag : TRUE) = d["tags"]
  BY <1>2
<1>7. {r.name : r \in branch} = {"main", "owner"}
  BY <1>1, <1>2
<1>8. _select_main_ruleset_ids(list) =
         IF /\ {r.name : r \in branch} = {"main", "owner"}
            /\ Cardinality(branch) = 2
         THEN <<IdOf("main"), IdOf("owner")>>
         ELSE <<NoId, NoId>>
  BY DEF _select_main_ruleset_ids
<1>9. _select_main_ruleset_ids(list) = <<d["main"].id, d["owner"].id>>
  BY <1>2, <1>3, <1>4, <1>5, <1>7, <1>8
<1>10. _select_release_tag_ruleset_id(list) = d["tags"].id
  <2>1. _select_release_tag_ruleset_id(list) =
          IF Cardinality(tag) = 1 /\ (CHOOSE q \in tag : TRUE).name = "tags"
          THEN (CHOOSE q \in tag : TRUE).id ELSE NoId
    BY DEF _select_release_tag_ruleset_id
  <2>2. QED
    BY <1>1, <1>2, <1>3, <1>6, <2>1
<1>11. QED
  BY <1>1, <1>9, <1>10 DEF Selects, Selected, Three

\* And they select no other list.
LEMMA SelectionIsOnePerName ==
  ASSUME NEW list, Lawful(list), Selects(list)
  PROVE  \E d : OnePerName(list, d)
<1> DEFINE branch == ActiveFor(list, "branch")
           tag == ActiveFor(list, "tag")
           IdOf(name) == (CHOOSE r \in branch : r.name = name).id
<1>1. IsFiniteSet(branch) /\ IsFiniteSet(tag)
  BY FS_Subset DEF Lawful, ActiveFor
<1>2. {r.name : r \in branch} = {"main", "owner"} /\ Cardinality(branch) = 2
  <2>1. _select_main_ruleset_ids(list) =
         IF /\ {r.name : r \in branch} = {"main", "owner"}
            /\ Cardinality(branch) = 2
         THEN <<IdOf("main"), IdOf("owner")>>
         ELSE <<NoId, NoId>>
    BY DEF _select_main_ruleset_ids
  <2>2. _select_main_ruleset_ids(list) # <<NoId, NoId>>
    BY DEF Selects
  <2>3. QED
    BY <2>1, <2>2, Zenon
<1>3. PICK m \in branch, o \in branch : m.name = "main" /\ o.name = "owner"
  <2>1. \E m \in branch : m.name = "main"
    <3>1. "main" \in {r.name : r \in branch}
      BY <1>2
    <3>2. QED
      BY <3>1
  <2>2. \E o \in branch : o.name = "owner"
    <3>1. "owner" \in {r.name : r \in branch}
      BY <1>2
    <3>2. QED
      BY <3>1
  <2>3. QED
    BY <2>1, <2>2
<1>4. branch = {m, o}
  <2>1. m # o
    BY <1>3
  <2>2. Cardinality({m, o}) = 2
    BY <2>1, TwoElements
  <2>3. {m, o} \in SUBSET branch
    BY <1>3
  <2>4. QED
    BY <1>1, <1>2, <2>2, <2>3, FS_Subset
<1>5. PICK t : tag = {t} /\ t.name = "tags"
  <2>1. _select_release_tag_ruleset_id(list) =
          IF Cardinality(tag) = 1 /\ (CHOOSE q \in tag : TRUE).name = "tags"
          THEN (CHOOSE q \in tag : TRUE).id ELSE NoId
    BY DEF _select_release_tag_ruleset_id
  <2>2. _select_release_tag_ruleset_id(list) # NoId
    BY DEF Selects
  <2>3. Cardinality(tag) = 1 /\ (CHOOSE q \in tag : TRUE).name = "tags"
    BY <2>1, <2>2, Zenon
  <2>4. PICK t : tag = {t}
    BY <1>1, <2>3, FS_Singleton
  <2>5. (CHOOSE q \in tag : TRUE) = t
    BY <2>4
  <2>6. QED
    BY <2>3, <2>4, <2>5
<1>6. \A r \in list : r.target \in {"branch", "tag"}
  BY DEF Lawful, TargetOf
<1>7. {r \in list : r.active} = {m, o, t}
  <2>1. \A r : r \in branch <=> r \in list /\ r.target = "branch" /\ r.active
    BY DEF ActiveFor
  <2>2. \A r : r \in tag <=> r \in list /\ r.target = "tag" /\ r.active
    BY DEF ActiveFor
  <2> HIDE DEF branch, tag
  <2>3. \A r : r \in list /\ r.active <=> r \in branch \cup tag
    BY <1>6, <2>1, <2>2
  <2>4. QED
    BY <1>4, <1>5, <2>3
<1> DEFINE d == [n \in Three |-> IF n = "main" THEN m ELSE IF n = "owner" THEN o ELSE t]
<1>8. d["main"] = m /\ d["owner"] = o /\ d["tags"] = t
  BY DEF Three
<1>9. m \in list /\ o \in list /\ t \in list
  BY <1>7
<1>10. d \in [Three -> list]
  BY <1>9 DEF Three
<1> HIDE DEF d
<1>11. {d[n] : n \in Three} = {m, o, t}
  BY <1>8 DEF Three
<1>12. \A n \in Three : d[n].name = n
  BY <1>3, <1>5, <1>8 DEF Three
<1>13. OnePerName(list, d)
  BY <1>7, <1>10, <1>11, <1>12 DEF OnePerName
<1>14. QED
  BY <1>13

--------------------------------------------------------------------------------
\* What a GET returns when the settings are s and the summaries were list.
ResponseOf(s, list, e) ==
  CASE e = "rulesets"    -> {s.rulesets}
    [] e \in Three       -> {r \in s.rulesets : r.id = Selected(list)[e]}
    [] e = "repository"  -> {[merges |-> s.merges, scanning |-> s.scanning]}
    [] e = "immutable"   -> {[immutable |-> s.immutable]}
    [] e = "reporting"   -> {[reporting |-> s.reporting]}
    [] e = "actions"     -> {[pinning |-> s.pinning]}
    [] e = "workflow"    -> {[approvals |-> s.approvals]}

\* The GETs about controls beside the rulesets, and all nine.
Controls == {"repository", "immutable", "reporting", "actions", "workflow"}
Nine     == Controls \cup {"rulesets"} \cup Three

\* The answers about rulesets.
LEMMA SummaryResponse ==
  ASSUME NEW s, NEW list
  PROVE  ResponseOf(s, list, "rulesets") = {s.rulesets}
BY DEF ResponseOf, Three

\* The answer about one ruleset is the record under the id its summary gave
\* (observe_live_settings).
LEMMA RecordResponse ==
  ASSUME NEW s, NEW list, NEW n \in Three
  PROVE  ResponseOf(s, list, n) = {r \in s.rulesets : r.id = Selected(list)[n]}
BY DEF ResponseOf, Three

\* A GET is answered by the settings of the moment and, for a record, by the
\* summaries already received.
LEMMA ResponseIsOfNow ==
  ASSUME NEW e \in Nine
  PROVE  Response(e) = ResponseOf(settings, responses["rulesets"], e)
<1>1. /\ Selected(responses["rulesets"])["main"] = _select_main_ruleset_ids(responses["rulesets"])[1]
      /\ Selected(responses["rulesets"])["owner"] = _select_main_ruleset_ids(responses["rulesets"])[2]
      /\ Selected(responses["rulesets"])["tags"] = _select_release_tag_ruleset_id(responses["rulesets"])
  BY DEF Selected
<1>2. \A x \in Three : IdSeen(x) = Selected(responses["rulesets"])[x]
  BY <1>1 DEF IdSeen, Three
<1>3. CASE e \in Three
  BY <1>2, <1>3 DEF Response, ResponseOf, Three
<1>4. CASE e \in Controls \cup {"rulesets"}
  BY <1>4 DEF Response, ResponseOf, Three, Controls
<1>5. QED
  BY <1>3, <1>4 DEF Nine

\* A ruleset of a list of which every one has the target and the merge methods
\* of its name.
Shaped(r) == r \in Ruleset /\ r.target = TargetOf(r.name) /\ r.merges = MergesOf(r.name)

\* IdentityIsExact and the rest of a record are what a documented ruleset has.
LEMMA RecordIsDocumented ==
  ASSUME NEW r, Shaped(r), NEW n \in Three, NEW i
  PROVE  r = Documented(n, i) <=>
           IdentityIsExact(r, i, n) /\ r.rules = RulesOf(n) /\ r.plain /\ r.bypass = BypassOf(n)
<1>1. Documented(n, i).id = i /\ Documented(n, i).name = n
  BY DEF Documented
<1>2. r = Documented(n, i) => r.id = i /\ r.name = n
  BY <1>1
<1>3. ASSUME r.id = i, r.name = n
      PROVE  r = Documented(n, i) <=>
             r.target = TargetOf(n) /\ r.active /\ r.rules = RulesOf(n) /\ r.plain /\ r.bypass = BypassOf(n)
  BY <1>3, DocumentedFields DEF Shaped
<1>4. QED
  BY <1>2, <1>3 DEF IdentityIsExact

\* The main record and the receipt, together.
LEMMA MainRecord ==
  ASSUME NEW o, NEW r, Shaped(r), o["main"] = r, NEW i, NEW s \in Settings,
         o["repository"] = [merges |-> s.merges, scanning |-> s.scanning],
         o["actions"] = [pinning |-> s.pinning], o["workflow"] = [approvals |-> s.approvals]
  PROVE  MainRulesetIsReadable(r, i, s.merges) /\ validate_settings_receipt(SettingsReceipt(o))
         <=> /\ s.merges = {"rebase", "squash"} /\ s.pinning /\ ~s.approvals /\ s.scanning
             /\ r = Documented("main", i)
<1>1. /\ s.pinning \in BOOLEAN /\ s.approvals \in BOOLEAN /\ s.scanning \in BOOLEAN
  BY DEF Settings
<1>2. /\ r.plain \in BOOLEAN /\ r.rules \subseteq Rules
  BY DEF Shaped, Ruleset
<1>3. SettingsReceipt(o) =
        [merges |-> s.merges, pinning |-> s.pinning, approvals |-> s.approvals,
         scanning |-> s.scanning, linear |-> "linear" \in r.rules,
         signatures |-> "signatures" \in r.rules, forced |-> "non_fast_forward" \notin r.rules,
         deletions |-> "deletion" \notin r.rules, updates |-> "update" \in r.rules,
         plain |-> r.plain, bypass |-> r.bypass]
  BY DEF SettingsReceipt
<1> DEFINE fields ==
        /\ s.merges = {"rebase", "squash"} /\ s.pinning = TRUE /\ s.approvals = FALSE
        /\ s.scanning = TRUE /\ ("linear" \in r.rules) = TRUE
        /\ ("signatures" \in r.rules) = TRUE /\ ("non_fast_forward" \notin r.rules) = FALSE
        /\ ("deletion" \notin r.rules) = FALSE /\ ("update" \in r.rules) = FALSE
        /\ r.plain = TRUE /\ r.bypass = "none"
<1>4. validate_settings_receipt(SettingsReceipt(o)) <=> fields
  <2> DEFINE a == SettingsReceipt(o)
             b == [merges |-> {"rebase", "squash"}, pinning |-> TRUE, approvals |-> FALSE,
                   scanning |-> TRUE, linear |-> TRUE, signatures |-> TRUE, forced |-> FALSE,
                   deletions |-> FALSE, updates |-> FALSE, plain |-> TRUE, bypass |-> "none"]
  <2>1. validate_settings_receipt(a) <=> a = b
    BY DEF validate_settings_receipt
  <2>2. ASSUME fields PROVE a = b
    BY <1>3, <2>2
  <2>3. ASSUME a = b PROVE fields
    <3>1. /\ a.merges = s.merges /\ a.pinning = s.pinning /\ a.approvals = s.approvals
          /\ a.scanning = s.scanning /\ a.linear = ("linear" \in r.rules)
          /\ a.signatures = ("signatures" \in r.rules)
          /\ a.forced = ("non_fast_forward" \notin r.rules)
          /\ a.deletions = ("deletion" \notin r.rules) /\ a.updates = ("update" \in r.rules)
          /\ a.plain = r.plain /\ a.bypass = r.bypass
      BY <1>3
    <3>2. /\ b.merges = {"rebase", "squash"} /\ b.pinning = TRUE /\ b.approvals = FALSE
          /\ b.scanning = TRUE /\ b.linear = TRUE /\ b.signatures = TRUE /\ b.forced = FALSE
          /\ b.deletions = FALSE /\ b.updates = FALSE /\ b.plain = TRUE /\ b.bypass = "none"
      OBVIOUS
    <3> HIDE DEF a, b
    <3>3. QED
      BY <2>3, <3>1, <3>2
  <2>4. QED
    BY <2>1, <2>2, <2>3
<1>5. fields <=>
        /\ s.merges = {"rebase", "squash"} /\ s.pinning /\ ~s.approvals /\ s.scanning
        /\ "linear" \in r.rules /\ "signatures" \in r.rules /\ "non_fast_forward" \in r.rules
        /\ "deletion" \in r.rules /\ "update" \notin r.rules /\ r.plain /\ r.bypass = "none"
  BY <1>1, <1>2
<1>6. r.rules = RulesOf("main") <=>
        /\ "pull_request" \in r.rules /\ "checks" \in r.rules
        /\ "linear" \in r.rules /\ "signatures" \in r.rules /\ "non_fast_forward" \in r.rules
        /\ "deletion" \in r.rules /\ "update" \notin r.rules
  BY <1>2 DEF RulesOf, Rules
<1>7. r.name = "main" => r.merges = {"rebase", "squash"}
  BY DEF Shaped, MergesOf
<1>8. MainRulesetIsReadable(r, i, s.merges) <=>
        /\ IdentityIsExact(r, i, "main") /\ "pull_request" \in r.rules /\ r.merges = s.merges
        /\ "checks" \in r.rules
  BY DEF MainRulesetIsReadable
<1>9. r = Documented("main", i) <=>
        IdentityIsExact(r, i, "main") /\ r.rules = RulesOf("main") /\ r.plain /\ r.bypass = "none"
  BY RecordIsDocumented DEF Three, BypassOf
<1>10. IdentityIsExact(r, i, "main") => r.name = "main"
  BY DEF IdentityIsExact
<1> HIDE DEF fields
<1>11. QED
  BY <1>4, <1>5, <1>6, <1>7, <1>8, <1>9, <1>10

\* build_settings_receipt accepts the documented controls and the three
\* documented rulesets under the ids the summaries selected, and nothing else.
LEMMA BuildMeans ==
  ASSUME NEW o, NEW s \in Settings,
         \A e \in Controls : o[e] \in ResponseOf(s, o["rulesets"], e),
         \A n \in Three : Shaped(o[n])
  PROVE  build_settings_receipt(o) <=>
           ExactControls(s) /\ \A n \in Three : o[n] = Documented(n, Selected(o["rulesets"])[n])
<1> DEFINE id == Selected(o["rulesets"])
<1>1. /\ o["repository"] = [merges |-> s.merges, scanning |-> s.scanning]
      /\ o["immutable"] = [immutable |-> s.immutable]
      /\ o["reporting"] = [reporting |-> s.reporting]
      /\ o["actions"] = [pinning |-> s.pinning]
      /\ o["workflow"] = [approvals |-> s.approvals]
  BY DEF ResponseOf, Controls, Three
<1>2. /\ id["main"] = _select_main_ruleset_ids(o["rulesets"])[1]
      /\ id["owner"] = _select_main_ruleset_ids(o["rulesets"])[2]
      /\ id["tags"] = _select_release_tag_ruleset_id(o["rulesets"])
  BY DEF Selected
<1> HIDE DEF id
<1>3. Shaped(o["main"]) /\ Shaped(o["tags"]) /\ Shaped(o["owner"])
  BY DEF Three
<1>4. o["repository"].merges = s.merges
  BY <1>1
<1>5. build_settings_receipt(o) <=>
        /\ validate_immutable_settings(o["immutable"])
        /\ validate_private_vulnerability_reporting(o["reporting"])
        /\ MainRulesetIsReadable(o["main"], id["main"], s.merges)
        /\ _release_tag_ruleset_receipt(o["tags"], id["tags"])
        /\ _validate_owner_update_ruleset(o["owner"], id["owner"])
        /\ validate_settings_receipt(SettingsReceipt(o))
  BY <1>2, <1>4 DEF build_settings_receipt
<1>6. validate_immutable_settings(o["immutable"]) <=> s.immutable
  BY <1>1 DEF validate_immutable_settings
<1>7. validate_private_vulnerability_reporting(o["reporting"]) <=> s.reporting
  BY <1>1 DEF validate_private_vulnerability_reporting
<1>8. MainRulesetIsReadable(o["main"], id["main"], s.merges)
        /\ validate_settings_receipt(SettingsReceipt(o))
      <=> /\ s.merges = {"rebase", "squash"} /\ s.pinning /\ ~s.approvals /\ s.scanning
          /\ o["main"] = Documented("main", id["main"])
  BY <1>1, <1>3, MainRecord
<1>9. _release_tag_ruleset_receipt(o["tags"], id["tags"])
        <=> o["tags"] = Documented("tags", id["tags"])
  BY <1>3, RecordIsDocumented DEF Three, _release_tag_ruleset_receipt, RulesOf, BypassOf
<1>10. _validate_owner_update_ruleset(o["owner"], id["owner"])
        <=> o["owner"] = Documented("owner", id["owner"])
  BY <1>3, RecordIsDocumented DEF Three, _validate_owner_update_ruleset, RulesOf, BypassOf
<1>11. (\A n \in Three : o[n] = Documented(n, id[n])) <=>
         /\ o["main"] = Documented("main", id["main"])
         /\ o["owner"] = Documented("owner", id["owner"])
         /\ o["tags"] = Documented("tags", id["tags"])
  BY DEF Three
<1>12. build_settings_receipt(o) <=>
         ExactControls(s) /\ \A n \in Three : o[n] = Documented(n, id[n])
  BY <1>5, <1>6, <1>7, <1>8, <1>9, <1>10, <1>11, Zenon DEF ExactControls
<1>13. QED
  BY <1>12 DEF id

\* Nine answers of one world are accepted exactly when it is the documented one.
LEMMA OneWorldVerdict ==
  ASSUME NEW s \in Settings, Lawful(s.rulesets), NEW o,
         \A e \in Nine : o[e] \in ResponseOf(s, o["rulesets"], e),
         Selects(o["rulesets"])
  PROVE  build_settings_receipt(o) <=> Exact(s)
<1> DEFINE list == s.rulesets
<1>1. o["rulesets"] = list
  BY SummaryResponse DEF Nine
<1>2. PICK d : OnePerName(list, d)
  BY <1>1, SelectionIsOnePerName
<1>3. \A n \in Three : Selected(list)[n] = d[n].id
  BY <1>2, SelectsOnePerName
<1>4. \A n \in Three : o[n] = d[n]
  <2> TAKE n \in Three
  <2>1. o[n] \in list /\ o[n].id = Selected(list)[n]
    <3>1. o[n] \in ResponseOf(s, list, n)
      BY <1>1 DEF Nine
    <3>2. QED
      BY <3>1, RecordResponse
  <2>2. d[n] \in list
    BY <1>2 DEF OnePerName
  <2>3. QED
    BY <1>3, <2>1, <2>2 DEF Lawful
<1>5. \A n \in Three : Shaped(o[n])
  BY <1>2, <1>4 DEF Shaped, Lawful, OnePerName
<1>6. build_settings_receipt(o) <=>
        ExactControls(s) /\ \A n \in Three : d[n] = Documented(n, d[n].id)
  <2>1. \A e \in Controls : o[e] \in ResponseOf(s, o["rulesets"], e)
    BY DEF Nine
  <2>2. build_settings_receipt(o) <=>
          ExactControls(s) /\ \A n \in Three : o[n] = Documented(n, Selected(o["rulesets"])[n])
    BY <1>5, <2>1, BuildMeans
  <2>3. QED
    BY <1>1, <1>3, <1>4, <2>2
<1>7. ExactList(list) <=> \A n \in Three : d[n] = Documented(n, d[n].id)
  <2>1. ASSUME \A n \in Three : d[n] = Documented(n, d[n].id)
        PROVE  ExactList(list)
    BY <1>2, <2>1 DEF OnePerName, ExactList
  <2>2. ASSUME ExactList(list), NEW n \in Three
        PROVE  d[n] = Documented(n, d[n].id)
    <3>1. PICK x \in [Three -> list] :
            /\ {r \in list : r.active} = {x[m] : m \in Three}
            /\ \A m \in Three : x[m] = Documented(m, x[m].id)
      BY <2>2 DEF ExactList
    <3>2. PICK m \in Three : d[n] = x[m]
      BY <1>2, <3>1 DEF OnePerName
    <3>3. x[m].name = m
      BY <3>1 DEF Documented
    <3>4. d[n].name = n
      BY <1>2 DEF OnePerName
    <3>5. m = n
      BY <3>2, <3>3, <3>4
    <3>6. QED
      BY <3>1, <3>2, <3>5
  <2>3. QED
    BY <2>1, <2>2
<1>8. QED
  BY <1>6, <1>7, ExactMeans

\* The summaries of the documented state select.
LEMMA ExactSelects ==
  ASSUME NEW s \in Settings, Lawful(s.rulesets), Exact(s)
  PROVE  Selects(s.rulesets)
<1>1. ExactList(s.rulesets)
  BY ExactMeans
<1>2. PICK x \in [Three -> s.rulesets] :
        /\ {r \in s.rulesets : r.active} = {x[n] : n \in Three}
        /\ \A n \in Three : x[n] = Documented(n, x[n].id)
  BY <1>1 DEF ExactList
<1>3. \A n \in Three : x[n].name = n
  BY <1>2 DEF Documented
<1>4. OnePerName(s.rulesets, x)
  BY <1>2, <1>3 DEF OnePerName
<1>5. QED
  BY <1>4, SelectsOnePerName

--------------------------------------------------------------------------------
\* One ruleset is edited and keeps its id, or is made anew under a fresh id, in
\* the place of the old one or beside it.
RulesetChanged(before, after) ==
  \E r \in before : \E e :
    \/ after = (before \ {r}) \cup {e} /\ e.id = r.id
    \/ /\ after \in {(before \ {r}) \cup {e}, before \cup {e}}
       /\ \A q \in before : q.id # e.id

\* The summary is of the old rulesets and each record of the old or of the new
\* ones: what passes was documented before the change or is after it.
LEMMA MixedVerdict ==
  ASSUME NEW s \in Settings, NEW t \in Settings, Lawful(s.rulesets), Lawful(t.rulesets),
         RulesetChanged(s.rulesets, t.rulesets), ExactControls(s) <=> ExactControls(t),
         NEW o, o["rulesets"] = s.rulesets, Selects(o["rulesets"]),
         \A e \in Controls : o[e] \in ResponseOf(s, o["rulesets"], e),
         \A n \in Three : /\ o[n] \in s.rulesets \cup t.rulesets
                          /\ o[n].id = Selected(o["rulesets"])[n],
         build_settings_receipt(o)
  PROVE  Exact(s) \/ Exact(t)
<1> DEFINE R == s.rulesets
           T == t.rulesets
<1>1. PICK d : OnePerName(R, d)
  BY SelectionIsOnePerName
<1>2. /\ d \in [Three -> R] /\ {r \in R : r.active} = {d[n] : n \in Three}
      /\ \A n \in Three : d[n].name = n
  BY <1>1 DEF OnePerName
<1>3. \A n \in Three : Selected(R)[n] = d[n].id
  BY <1>1, SelectsOnePerName
<1>4. \A n \in Three : o[n].id = d[n].id /\ o[n] \in R \cup T
  BY <1>3
<1>5. \A n \in Three : Shaped(o[n])
  BY <1>4 DEF Shaped, Lawful
<1>6. ExactControls(s) /\ \A n \in Three : o[n] = Documented(n, d[n].id)
  BY <1>3, <1>5, BuildMeans
<1>7. \A n \in Three : o[n].active /\ o[n].name = n /\ o[n] = Documented(n, o[n].id)
  <2> TAKE n \in Three
  <2>1. o[n] = Documented(n, d[n].id) /\ o[n].id = d[n].id
    BY <1>4, <1>6
  <2>2. Documented(n, d[n].id).active = TRUE /\ Documented(n, d[n].id).name = n
    BY DEF Documented
  <2>3. QED
    BY <2>1, <2>2
<1>8. CASE \A n \in Three : o[n] = d[n]
  <2>1. ExactList(R)
    BY <1>2, <1>7, <1>8 DEF ExactList
  <2>2. QED
    BY <1>6, <2>1, ExactMeans
<1>9. ASSUME NEW m \in Three, o[m] # d[m]
      PROVE  Exact(t)
  <2>1. PICK r \in R : \E e :
          \/ T = (R \ {r}) \cup {e} /\ e.id = r.id
          \/ /\ T \in {(R \ {r}) \cup {e}, R \cup {e}}
             /\ \A q \in R : q.id # e.id
    BY DEF RulesetChanged
  <2>2. PICK e :
          \/ T = (R \ {r}) \cup {e} /\ e.id = r.id
          \/ /\ T \in {(R \ {r}) \cup {e}, R \cup {e}}
             /\ \A q \in R : q.id # e.id
    BY <2>1
  <2>3. \A n \in Three : d[n] \in R
    BY <1>2
  <2>4. \A n \in Three : o[n] # d[n] => o[n] \notin R
    BY <1>4, <2>3 DEF Lawful
  <2>5. \A n \in Three : o[n] # d[n] => o[n] = e
    BY <1>4, <2>2, <2>4
  <2>6. o[m] = e /\ e.id = d[m].id /\ d[m] \in R
    BY <1>4, <1>9, <2>3, <2>5
  <2>7. T = (R \ {r}) \cup {e} /\ e.id = r.id
    BY <2>2, <2>6
  <2>8. r = d[m]
    BY <2>6, <2>7 DEF Lawful
  <2>9. \A n \in Three : n # m => o[n] = d[n]
    BY <1>7, <2>5, <2>6
  <2>10. {q \in T : q.active} = {o[n] : n \in Three}
    <3>1. \A q \in R : q.active <=> \E n \in Three : q = d[n]
      BY <1>2
    <3>2. \A n \in Three : d[n] = d[m] => n = m
      BY <1>2
    <3>3. ASSUME NEW q \in T, q.active
          PROVE  \E n \in Three : q = o[n]
      <4>1. CASE q = e
        BY <2>6, <4>1
      <4>2. CASE q # e
        <5>1. q \in R /\ q # d[m]
          BY <2>7, <2>8, <4>2
        <5>2. PICK n \in Three : q = d[n]
          BY <3>1, <3>3, <5>1
        <5>3. QED
          BY <2>9, <5>1, <5>2
      <4>3. QED
        BY <4>1, <4>2
    <3>4. ASSUME NEW n \in Three
          PROVE  o[n] \in T /\ o[n].active
      <4>1. CASE n = m
        BY <1>7, <2>6, <2>7, <4>1
      <4>2. CASE n # m
        <5>1. o[n] = d[n] /\ d[n] \in R /\ d[n] # r
          BY <2>3, <2>8, <2>9, <3>2, <4>2
        <5>2. QED
          BY <1>7, <2>7, <5>1
      <4>3. QED
        BY <4>1, <4>2
    <3>5. QED
      BY <3>3, <3>4
  <2>11. ExactList(T)
    <3> DEFINE x == [n \in Three |-> o[n]]
    <3>1. \A n \in Three : x[n] = o[n]
      OBVIOUS
    <3>2. x \in [Three -> T]
      BY <2>10
    <3> HIDE DEF x
    <3>3. {x[n] : n \in Three} = {o[n] : n \in Three}
      BY <3>1
    <3>4. \A n \in Three : x[n] = Documented(n, x[n].id)
      BY <1>7, <3>1
    <3>5. QED
      BY <2>10, <3>2, <3>3, <3>4 DEF ExactList
  <2>12. QED
    BY <1>6, <2>11, ExactMeans
<1>10. QED
  BY <1>8, <1>9

--------------------------------------------------------------------------------
\* The answers so far are of the old world up to the change and of the new one
\* since.
Accounts(o, old, now, before) ==
  \A e \in DOMAIN o : o[e] \in ResponseOf(IF e \in before THEN old ELSE now, o["rulesets"], e)

\* The controls that a change is of.
Fields == {"immutable", "reporting", "pinning", "approvals", "scanning", "merges", "rulesets"}

\* Two worlds that differ in one control.
OneControl(a, b) ==
  \E f \in Fields :
    /\ \A g \in Fields \ {f} : a[g] = b[g]
    /\ f = "rulesets" => RulesetChanged(a.rulesets, b.rulesets)

\* One more answer, of the world as it is now.
LEMMA OneMoreAnswer ==
  ASSUME NEW o, NEW old, NEW now, NEW before, NEW e \in Nine, NEW body,
         e \notin DOMAIN o, before \subseteq DOMAIN o, DOMAIN o \subseteq Nine,
         (DOMAIN o \cup {e}) \cap Three # {} => "rulesets" \in DOMAIN o,
         Accounts(o, old, now, before), body \in ResponseOf(now, o["rulesets"], e),
         NEW p, DOMAIN p = DOMAIN o \cup {e}, p[e] = body, \A x \in DOMAIN o : p[x] = o[x]
  PROVE  Accounts(p, old, now, before)
<1>1. /\ DOMAIN p = DOMAIN o \cup {e} /\ p[e] = body
      /\ \A x \in DOMAIN o : p[x] = o[x]
  OBVIOUS
<1>2. "rulesets" \in DOMAIN o \cup {e} => e = "rulesets" \/ p["rulesets"] = o["rulesets"]
  BY <1>1
<1>3. \A s, l, m : \A x \in Controls \cup {"rulesets"} : ResponseOf(s, l, x) = ResponseOf(s, m, x)
  BY DEF ResponseOf, Controls, Three
<1>4. ASSUME NEW x \in DOMAIN p
      PROVE  p[x] \in ResponseOf(IF x \in before THEN old ELSE now, p["rulesets"], x)
  <2>1. CASE x = e
    <3>1. x \notin before
      BY <2>1
    <3>2. CASE e \in Three
      <4>1. p["rulesets"] = o["rulesets"]
        BY <1>1, <3>2
      <4>2. QED
        BY <1>1, <2>1, <3>1, <4>1
    <3>3. CASE e \in Controls \cup {"rulesets"}
      <4>1. ResponseOf(now, o["rulesets"], e) = ResponseOf(now, p["rulesets"], e)
        BY <1>3, <3>3
      <4>2. QED
        BY <1>1, <2>1, <3>1, <4>1
    <3>4. QED
      BY <3>2, <3>3 DEF Nine
  <2>2. CASE x # e
    <3>1. x \in DOMAIN o /\ p[x] = o[x] /\ x \in Nine
      BY <1>1, <2>2
    <3>2. o[x] \in ResponseOf(IF x \in before THEN old ELSE now, o["rulesets"], x)
      BY <3>1 DEF Accounts
    <3>3. CASE x \in Three
      <4>1. p["rulesets"] = o["rulesets"]
        BY <1>1, <3>1, <3>3
      <4>2. QED
        BY <3>1, <3>2, <4>1
    <3>4. CASE x \in Controls \cup {"rulesets"}
      <4>1. ResponseOf(IF x \in before THEN old ELSE now, o["rulesets"], x)
              = ResponseOf(IF x \in before THEN old ELSE now, p["rulesets"], x)
        BY <1>3, <3>4
      <4>2. QED
        BY <3>1, <3>2, <4>1
    <3>5. QED
      BY <3>1, <3>3, <3>4 DEF Nine
  <2>3. QED
    BY <2>1, <2>2
<1>5. QED
  BY <1>4 DEF Accounts

\* Where a control that is not the rulesets is read.
ReadAt == [immutable |-> "immutable", reporting |-> "reporting", pinning |-> "actions",
           approvals |-> "workflow", scanning |-> "repository", merges |-> "repository"]

\* A change of one control beside the rulesets shows in one answer alone.
LEMMA OtherResponsesAgree ==
  ASSUME NEW a \in Settings, NEW b \in Settings, NEW f \in Fields \ {"rulesets"},
         \A g \in Fields \ {f} : a[g] = b[g],
         NEW list, NEW e \in Nine, e # ReadAt[f]
  PROVE  ResponseOf(a, list, e) = ResponseOf(b, list, e)
<1>1. /\ f # "immutable" => a.immutable = b.immutable
      /\ f # "reporting" => a.reporting = b.reporting
      /\ f # "pinning" => a.pinning = b.pinning
      /\ f # "approvals" => a.approvals = b.approvals
      /\ f # "scanning" => a.scanning = b.scanning
      /\ f # "merges" => a.merges = b.merges
      /\ a.rulesets = b.rulesets
  BY DEF Fields
<1>2. CASE e \in Three \cup {"rulesets"}
  <2>1. CASE e = "rulesets"
    BY <1>1, <2>1, SummaryResponse
  <2>2. CASE e \in Three
    <3>1. ResponseOf(a, list, e) = {r \in a.rulesets : r.id = Selected(list)[e]}
      BY <2>2, RecordResponse
    <3>2. ResponseOf(b, list, e) = {r \in b.rulesets : r.id = Selected(list)[e]}
      BY <2>2, RecordResponse
    <3>3. QED
      BY <1>1, <3>1, <3>2, Zenon
  <2>3. QED
    BY <1>2, <2>1, <2>2
<1>3. CASE e \in Controls
  <2>1. /\ ReadAt["immutable"] = "immutable" /\ ReadAt["reporting"] = "reporting"
        /\ ReadAt["pinning"] = "actions" /\ ReadAt["approvals"] = "workflow"
        /\ ReadAt["scanning"] = "repository" /\ ReadAt["merges"] = "repository"
    BY DEF ReadAt
  <2>2. /\ e = "immutable" => f # "immutable"
        /\ e = "reporting" => f # "reporting"
        /\ e = "actions" => f # "pinning"
        /\ e = "workflow" => f # "approvals"
        /\ e = "repository" => f # "scanning" /\ f # "merges"
    BY <2>1
  <2>3. CASE e = "immutable"
    BY <1>1, <2>2, <2>3 DEF ResponseOf, Three
  <2>4. CASE e = "reporting"
    BY <1>1, <2>2, <2>4 DEF ResponseOf, Three
  <2>5. CASE e = "actions"
    BY <1>1, <2>2, <2>5 DEF ResponseOf, Three
  <2>6. CASE e = "workflow"
    BY <1>1, <2>2, <2>6 DEF ResponseOf, Three
  <2>7. CASE e = "repository"
    BY <1>1, <2>2, <2>7 DEF ResponseOf, Three
  <2>8. QED
    BY <1>3, <2>3, <2>4, <2>5, <2>6, <2>7 DEF Controls
<1>4. QED
  BY <1>2, <1>3 DEF Nine

\* A change of the rulesets leaves the other answers as they are.
LEMMA ControlResponsesAgree ==
  ASSUME NEW a \in Settings, NEW b \in Settings,
         \A g \in Fields \ {"rulesets"} : a[g] = b[g]
  PROVE  /\ \A list : \A e \in Controls : ResponseOf(a, list, e) = ResponseOf(b, list, e)
         /\ ExactControls(a) <=> ExactControls(b)
<1>1. /\ a.immutable = b.immutable /\ a.reporting = b.reporting /\ a.pinning = b.pinning
      /\ a.approvals = b.approvals /\ a.scanning = b.scanning /\ a.merges = b.merges
  BY DEF Fields
<1>2. \A list : \A e \in Controls : ResponseOf(a, list, e) = ResponseOf(b, list, e)
  BY <1>1 DEF ResponseOf, Controls, Three
<1>3. QED
  BY <1>1, <1>2 DEF ExactControls

\* A receipt over one change is of the world before it or of the world after it.
LEMMA OneChangeVerdict ==
  ASSUME NEW old \in Settings, NEW now \in Settings, Lawful(old.rulesets), Lawful(now.rulesets),
         OneControl(old, now), NEW o, DOMAIN o = Nine, NEW before,
         before \cap Three # {} => "rulesets" \in before,
         Accounts(o, old, now, before), Selects(o["rulesets"]),
         build_settings_receipt(o)
  PROVE  Exact(old) \/ Exact(now)
<1>1. PICK f \in Fields :
        /\ \A g \in Fields \ {f} : old[g] = now[g]
        /\ f = "rulesets" => RulesetChanged(old.rulesets, now.rulesets)
  BY DEF OneControl
<1>2. \A e \in Nine : o[e] \in ResponseOf(IF e \in before THEN old ELSE now, o["rulesets"], e)
  BY DEF Accounts
<1>3. CASE f # "rulesets"
  <2>1. \A list : \A e \in Nine \ {ReadAt[f]} : ResponseOf(old, list, e) = ResponseOf(now, list, e)
    BY <1>1, <1>3, OtherResponsesAgree
  <2>2. CASE ReadAt[f] \in before
    <3>1. \A e \in Nine : o[e] \in ResponseOf(old, o["rulesets"], e)
      BY <1>2, <2>1, <2>2
    <3>2. QED
      BY <3>1, OneWorldVerdict
  <2>3. CASE ReadAt[f] \notin before
    <3>1. \A e \in Nine : o[e] \in ResponseOf(now, o["rulesets"], e)
      BY <1>2, <2>1, <2>3
    <3>2. QED
      BY <3>1, OneWorldVerdict
  <2>4. QED
    BY <2>2, <2>3
<1>4. CASE f = "rulesets"
  <2>1. /\ \A list : \A e \in Controls : ResponseOf(old, list, e) = ResponseOf(now, list, e)
        /\ ExactControls(old) <=> ExactControls(now)
    BY <1>1, <1>4, ControlResponsesAgree
  <2>2. CASE "rulesets" \notin before
    <3>1. \A e \in Three \cup {"rulesets"} : e \notin before
      BY <2>2
    <3>2. \A e \in Nine : o[e] \in ResponseOf(now, o["rulesets"], e)
      BY <1>2, <2>1, <3>1 DEF Nine
    <3>3. QED
      BY <3>2, OneWorldVerdict
  <2>3. CASE "rulesets" \in before
    <3>1. o["rulesets"] = old.rulesets
      BY <1>2, <2>3, SummaryResponse DEF Nine
    <3>2. \A e \in Controls : o[e] \in ResponseOf(old, o["rulesets"], e)
      BY <1>2, <2>1 DEF Nine
    <3>3. \A n \in Three : /\ o[n] \in old.rulesets \cup now.rulesets
                           /\ o[n].id = Selected(o["rulesets"])[n]
      <4> TAKE n \in Three
      <4>1. o[n] \in ResponseOf(old, o["rulesets"], n) \cup ResponseOf(now, o["rulesets"], n)
        BY <1>2 DEF Nine
      <4>2. ResponseOf(old, o["rulesets"], n) =
              {r \in old.rulesets : r.id = Selected(o["rulesets"])[n]}
        BY RecordResponse
      <4>3. ResponseOf(now, o["rulesets"], n) =
              {r \in now.rulesets : r.id = Selected(o["rulesets"])[n]}
        BY RecordResponse
      <4>4. QED
        BY <4>1, <4>2, <4>3
    <3>4. QED
      BY <1>1, <1>4, <2>1, <3>1, <3>2, <3>3, MixedVerdict
  <2>4. QED
    BY <2>2, <2>3
<1>5. QED
  BY <1>3, <1>4

--------------------------------------------------------------------------------
\* The order of the nine GETs.
Following == [repository |-> "immutable", immutable |-> "reporting", reporting |-> "actions",
              actions |-> "workflow", workflow |-> "rulesets", rulesets |-> "main",
              main |-> "tags", tags |-> "owner"]

\* What has been answered when a GET is made.
AnsweredBefore ==
  [repository |-> {}, immutable |-> {"repository"}, reporting |-> {"repository", "immutable"},
   actions    |-> {"repository", "immutable", "reporting"},
   workflow   |-> Controls \ {"workflow"}, rulesets |-> Controls,
   main       |-> Controls \cup {"rulesets"}, tags |-> Controls \cup {"rulesets", "main"},
   owner      |-> Controls \cup {"rulesets", "main", "tags"}]

\* The nine GETs are made each once, in this order (observe_live_settings).
LEMMA EndpointsInOrder ==
  /\ {Endpoints[i] : i \in DOMAIN Endpoints} = Nine
  /\ Endpoints[1] = "repository"
  /\ \A e \in Nine \ {"owner"} : Endpoints[NextOf(e) + 1] = Following[e]
<1>1. /\ DOMAIN Endpoints = 1..9
      /\ Endpoints[1] = "repository" /\ Endpoints[2] = "immutable" /\ Endpoints[3] = "reporting"
      /\ Endpoints[4] = "actions" /\ Endpoints[5] = "workflow" /\ Endpoints[6] = "rulesets"
      /\ Endpoints[7] = "main" /\ Endpoints[8] = "tags" /\ Endpoints[9] = "owner"
  BY DEF Endpoints
<1>2. DOMAIN Endpoints = {1, 2, 3, 4, 5, 6, 7, 8, 9}
  BY <1>1
<1>3. {Endpoints[i] : i \in DOMAIN Endpoints} = Nine
  BY <1>1, <1>2 DEF Nine, Controls, Three
<1>4. ASSUME NEW i \in DOMAIN Endpoints, NEW j \in DOMAIN Endpoints, Endpoints[i] = Endpoints[j]
      PROVE  i = j
  BY <1>1, <1>2, <1>4
<1>5. ASSUME NEW i \in DOMAIN Endpoints
      PROVE  NextOf(Endpoints[i]) = i
  BY <1>4 DEF NextOf
<1>6. /\ NextOf("repository") = 1 /\ NextOf("immutable") = 2 /\ NextOf("reporting") = 3
      /\ NextOf("actions") = 4 /\ NextOf("workflow") = 5 /\ NextOf("rulesets") = 6
      /\ NextOf("main") = 7 /\ NextOf("tags") = 8
  BY <1>1, <1>2, <1>5
<1>7. \A e \in Nine \ {"owner"} : Endpoints[NextOf(e) + 1] = Following[e]
  <2>1. /\ Following["repository"] = "immutable" /\ Following["immutable"] = "reporting"
        /\ Following["reporting"] = "actions" /\ Following["actions"] = "workflow"
        /\ Following["workflow"] = "rulesets" /\ Following["rulesets"] = "main"
        /\ Following["main"] = "tags" /\ Following["tags"] = "owner"
    BY DEF Following
  <2>2. QED
    BY <1>1, <1>6, <2>1 DEF Nine, Controls, Three
<1>8. QED
  BY <1>1, <1>3, <1>7

\* The summaries are there before any record is asked for.
LEMMA AnswersInOrder ==
  /\ AnsweredBefore["repository"] = {}
  /\ AnsweredBefore["owner"] \cup {"owner"} = Nine
  /\ \A e \in Nine :
       /\ e \notin AnsweredBefore[e] /\ AnsweredBefore[e] \subseteq Nine
       /\ (AnsweredBefore[e] \cup {e}) \cap Three # {} => "rulesets" \in AnsweredBefore[e]
  /\ \A e \in Nine \ {"owner"} :
       /\ Following[e] \in Nine
       /\ AnsweredBefore[Following[e]] = AnsweredBefore[e] \cup {e}
<1>1. /\ Following["repository"] = "immutable" /\ Following["immutable"] = "reporting"
      /\ Following["reporting"] = "actions" /\ Following["actions"] = "workflow"
      /\ Following["workflow"] = "rulesets" /\ Following["rulesets"] = "main"
      /\ Following["main"] = "tags" /\ Following["tags"] = "owner"
  BY DEF Following
<1>2. /\ AnsweredBefore["repository"] = {} /\ AnsweredBefore["immutable"] = {"repository"}
      /\ AnsweredBefore["reporting"] = {"repository", "immutable"}
      /\ AnsweredBefore["actions"] = {"repository", "immutable", "reporting"}
      /\ AnsweredBefore["workflow"] = {"repository", "immutable", "reporting", "actions"}
      /\ AnsweredBefore["rulesets"] = Controls
      /\ AnsweredBefore["main"] = Controls \cup {"rulesets"}
      /\ AnsweredBefore["tags"] = Controls \cup {"rulesets", "main"}
      /\ AnsweredBefore["owner"] = Controls \cup {"rulesets", "main", "tags"}
  BY DEF AnsweredBefore, Controls
<1>3. \A e \in Nine :
        /\ e \notin AnsweredBefore[e] /\ AnsweredBefore[e] \subseteq Nine
        /\ (AnsweredBefore[e] \cup {e}) \cap Three # {} => "rulesets" \in AnsweredBefore[e]
  BY <1>2 DEF Nine, Controls, Three
<1>4. \A e \in Nine \ {"owner"} :
        /\ Following[e] \in Nine
        /\ AnsweredBefore[Following[e]] = AnsweredBefore[e] \cup {e}
  BY <1>1, <1>2 DEF Nine, Controls, Three
<1>5. QED
  BY <1>2, <1>3, <1>4 DEF Nine, Three

--------------------------------------------------------------------------------
\* Some of the GETs are still to be made.
Observing == endpoint \in Nine

\* The settings are lawful at every moment, and ids only grow.
SettingsAreTyped ==
  /\ settings \in Settings /\ Lawful(settings.rulesets)
  /\ lastId \in Nat /\ \A r \in settings.rulesets : r.id <= lastId
  /\ changes \in 0..MaxChanges /\ early \in 0..changes
  /\ endpoint \in {"start", "pass", "refused"} \cup Nine
  /\ wasExact \in BOOLEAN

\* What has been answered is what comes before the next GET, and the summaries
\* were not refused.
AnsweredInTurn ==
  /\ DOMAIN responses \subseteq Nine
  /\ Observing => DOMAIN responses = AnsweredBefore[endpoint]
  /\ endpoint = "start" => DOMAIN responses = {}
  /\ Observing /\ "rulesets" \in DOMAIN responses => Selects(responses["rulesets"])

\* Nothing has changed: the present accounts for the answers.
AtRest ==
  Observing /\ changes = early =>
    /\ Accounts(responses, settings, settings, {})
    /\ wasExact <=> Exact(settings)

\* One thing has: the world before it accounts for the answers up to some point,
\* and the present for the rest.
AfterOne ==
  Observing /\ changes = early + 1 =>
    \E old \in Settings : \E before \in SUBSET DOMAIN responses :
      /\ Lawful(old.rulesets) /\ OneControl(old, settings)
      /\ Exact(old) \/ Exact(settings) => wasExact
      /\ before \cap Three # {} => "rulesets" \in before
      /\ Accounts(responses, old, settings, before)

\* The inductive invariant of the observation.
SettingsInv == SettingsAreTyped /\ AnsweredInTurn /\ AtRest /\ AfterOne /\ ReceiptIsEarned

\* The observation begins.
LEMMA StartKeepsAccount ==
  ASSUME SettingsInv, Start
  PROVE  SettingsInv'
<1>1. /\ endpoint = "start" /\ endpoint' = "repository" /\ early' = changes
      /\ wasExact' = Exact(settings) /\ responses' = responses
      /\ settings' = settings /\ lastId' = lastId /\ changes' = changes
  BY EndpointsInOrder DEF Start, Observer
<1>2. "repository" \in Nine /\ changes \in Nat /\ Exact(settings) \in BOOLEAN
  BY ChangesAssumption DEF Nine, Controls, SettingsInv, SettingsAreTyped, Exact
<1>3. DOMAIN responses = {}
  BY <1>1 DEF SettingsInv, AnsweredInTurn
<1>4. SettingsAreTyped'
  BY <1>1, <1>2 DEF SettingsInv, SettingsAreTyped
<1>5. AnsweredInTurn'
  BY <1>1, <1>3, AnswersInOrder DEF AnsweredInTurn
<1>6. AtRest'
  <2>1. Accounts(responses', settings', settings', {})
    BY <1>1, <1>3 DEF Accounts
  <2>2. wasExact' <=> Exact(settings')
    BY <1>1
  <2>3. QED
    BY <2>1, <2>2 DEF AtRest
<1>7. AfterOne'
  BY <1>1, <1>2 DEF AfterOne
<1>8. ReceiptIsEarned'
  BY <1>1 DEF ReceiptIsEarned, VerdictIsExactAtRest, OneChangeCannotForge
<1>9. QED
  BY <1>4, <1>5, <1>6, <1>7, <1>8 DEF SettingsInv

\* What a GET leaves behind: a refusal because nothing answers, or one more
\* answer and the next endpoint or the verdict.
LEMMA GetOutcome ==
  ASSUME NEW e \in Nine, Get(e), AnsweredInTurn
  PROVE  /\ endpoint = e /\ settings' = settings /\ lastId' = lastId /\ changes' = changes
         /\ early' = early /\ wasExact' = wasExact
         /\ \/ /\ ResponseOf(settings, responses["rulesets"], e) = {}
               /\ endpoint' = "refused" /\ responses' = responses
            \/ \E body \in ResponseOf(settings, responses["rulesets"], e) :
                 /\ responses' = [x \in DOMAIN responses \cup {e} |->
                                    IF x = e THEN body ELSE responses[x]]
                 /\ endpoint' = IF e = "rulesets" /\ ~Selects(body) THEN "refused"
                                ELSE IF e = "owner"
                                THEN IF build_settings_receipt(responses') THEN "pass" ELSE "refused"
                                ELSE Following[e]
<1>1. Response(e) = ResponseOf(settings, responses["rulesets"], e)
  BY ResponseIsOfNow
<1>2. /\ endpoint = e /\ settings' = settings /\ lastId' = lastId /\ changes' = changes
      /\ early' = early /\ wasExact' = wasExact
  BY DEF Get, Observer
<1>3. CASE Response(e) = {}
  BY <1>1, <1>2, <1>3 DEF Get
<1>4. CASE Response(e) # {}
  <2>1. PICK body \in Response(e) :
          /\ responses' = [x \in DOMAIN responses \cup {e} |->
                             IF x = e THEN body ELSE responses[x]]
          /\ endpoint' =
               CASE e = "rulesets" /\ NoId \in {_select_main_ruleset_ids(body)[1],
                                                _select_release_tag_ruleset_id(body)}
                            -> "refused"
                 [] e = "owner" -> IF build_settings_receipt([x \in DOMAIN responses \cup {e} |->
                                        IF x = e THEN body ELSE responses[x]])
                                   THEN "pass" ELSE "refused"
                 [] OTHER       -> Endpoints[NextOf(e) + 1]
    BY <1>4 DEF Get
  <2>2. CASE e = "rulesets"
    <3>1. Endpoints[NextOf(e) + 1] = Following[e]
      BY <2>2, EndpointsInOrder
    <3>2. endpoint' = IF ~Selects(body) THEN "refused" ELSE Following[e]
      BY <2>1, <2>2, <3>1 DEF Selects
    <3>3. QED
      BY <1>1, <1>2, <2>1, <2>2, <3>2
  <2>3. CASE e = "owner"
    <3>1. endpoint' = IF build_settings_receipt(responses') THEN "pass" ELSE "refused"
      BY <2>1, <2>3
    <3>2. QED
      BY <1>1, <1>2, <2>1, <2>3, <3>1
  <2>4. CASE e \notin {"rulesets", "owner"}
    <3>1. Endpoints[NextOf(e) + 1] = Following[e]
      BY <2>4, EndpointsInOrder
    <3>2. endpoint' = Following[e]
      BY <2>1, <2>4, <3>1
    <3>3. QED
      BY <1>1, <1>2, <2>1, <2>4, <3>2
  <2>5. QED
    BY <2>2, <2>3, <2>4
<1>5. QED
  BY <1>3, <1>4

\* At rest a record that the summaries named is there.
LEMMA NamedRecordAnswers ==
  ASSUME NEW s \in Settings, Lawful(s.rulesets), NEW o, NEW n \in Three,
         o["rulesets"] = s.rulesets, Selects(o["rulesets"])
  PROVE  ResponseOf(s, o["rulesets"], n) # {}
<1>1. PICK d : OnePerName(s.rulesets, d)
  BY SelectionIsOnePerName
<1>2. Selected(s.rulesets)[n] = d[n].id /\ d[n] \in s.rulesets
  BY <1>1, SelectsOnePerName DEF OnePerName
<1>3. ResponseOf(s, o["rulesets"], n) = {r \in s.rulesets : r.id = Selected(o["rulesets"])[n]}
  BY RecordResponse
<1>4. d[n] \in ResponseOf(s, o["rulesets"], n)
  BY <1>2, <1>3
<1>5. QED
  BY <1>4

\* A GET keeps the account.
LEMMA GetsKeepAccount ==
  ASSUME SettingsInv, NEW e \in Nine, Get(e)
  PROVE  SettingsInv'
<1>1. /\ endpoint = e /\ settings' = settings /\ lastId' = lastId /\ changes' = changes
      /\ early' = early /\ wasExact' = wasExact
  BY GetOutcome DEF SettingsInv
<1>2. /\ Observing /\ DOMAIN responses = AnsweredBefore[e] /\ e \notin DOMAIN responses
      /\ DOMAIN responses \subseteq Nine
      /\ (DOMAIN responses \cup {e}) \cap Three # {} => "rulesets" \in DOMAIN responses
  BY <1>1, AnswersInOrder DEF SettingsInv, AnsweredInTurn, Observing
<1>3. changes \in Nat /\ early \in Nat /\ early <= changes
  BY ChangesAssumption DEF SettingsInv, SettingsAreTyped
<1>4. settings \in Settings /\ Lawful(settings.rulesets)
  BY DEF SettingsInv, SettingsAreTyped
<1>5. ASSUME changes = early
      PROVE  /\ Accounts(responses, settings, settings, {}) /\ (wasExact <=> Exact(settings))
             /\ "rulesets" \in DOMAIN responses => responses["rulesets"] = settings.rulesets
  <2>1. Accounts(responses, settings, settings, {}) /\ (wasExact <=> Exact(settings))
    BY <1>2, <1>5 DEF SettingsInv, AtRest
  <2>2. ASSUME "rulesets" \in DOMAIN responses
        PROVE  responses["rulesets"] = settings.rulesets
    BY <2>1, <2>2, SummaryResponse DEF Accounts
  <2>3. QED
    BY <2>1, <2>2
<1>6. ASSUME endpoint' = "refused", DOMAIN responses' \subseteq Nine,
             changes = early => ~Exact(settings)
      PROVE  SettingsInv'
  <2>1. SettingsAreTyped'
    BY <1>1, <1>6 DEF SettingsInv, SettingsAreTyped
  <2>2. ~Observing'
    BY <1>6 DEF Observing, Nine, Controls, Three
  <2>3. ReceiptIsEarned'
    BY <1>1, <1>6 DEF ReceiptIsEarned, VerdictIsExactAtRest, OneChangeCannotForge
  <2>4. QED
    BY <1>6, <2>1, <2>2, <2>3 DEF SettingsInv, AnsweredInTurn, AtRest, AfterOne
<1>7. CASE /\ ResponseOf(settings, responses["rulesets"], e) = {}
           /\ endpoint' = "refused" /\ responses' = responses
  <2>1. e \in Three
    BY <1>7 DEF ResponseOf, Nine, Controls, Three
  <2>2. "rulesets" \in DOMAIN responses /\ Selects(responses["rulesets"])
    BY <1>2, <2>1 DEF SettingsInv, AnsweredInTurn
  <2>3. changes # early
    BY <1>4, <1>5, <1>7, <2>1, <2>2, NamedRecordAnswers
  <2>4. QED
    BY <1>2, <1>6, <1>7, <2>3
<1>8. ASSUME NEW body \in ResponseOf(settings, responses["rulesets"], e),
             responses' = [x \in DOMAIN responses \cup {e} |->
                             IF x = e THEN body ELSE responses[x]],
             endpoint' = IF e = "rulesets" /\ ~Selects(body) THEN "refused"
                         ELSE IF e = "owner"
                         THEN IF build_settings_receipt(responses') THEN "pass" ELSE "refused"
                         ELSE Following[e]
      PROVE  SettingsInv'
  <2>1. /\ DOMAIN responses' = DOMAIN responses \cup {e} /\ responses'[e] = body
        /\ \A x \in DOMAIN responses : responses'[x] = responses[x]
    BY <1>2, <1>8
  <2>2. ASSUME NEW old, NEW before,
               before \subseteq DOMAIN responses, Accounts(responses, old, settings, before)
        PROVE  Accounts(responses', old, settings, before)
    BY <1>2, <2>1, <2>2, OneMoreAnswer, Zenon
  <2>3. DOMAIN responses' \subseteq Nine
    BY <1>2, <2>1
  <2>4. CASE e = "rulesets" /\ ~Selects(body)
    <3>1. body = settings.rulesets
      BY <2>4, SummaryResponse
    <3>2. ~Exact(settings)
      BY <1>4, <2>4, <3>1, ExactSelects
    <3>3. QED
      BY <1>6, <1>8, <2>3, <2>4, <3>2
  <2>5. ASSUME ~(e = "rulesets" /\ ~Selects(body)), "rulesets" \in DOMAIN responses'
        PROVE  Selects(responses'["rulesets"])
    <3>1. CASE e = "rulesets"
      BY <2>1, <2>5, <3>1
    <3>2. CASE e # "rulesets"
      <4>1. "rulesets" \in DOMAIN responses /\ responses'["rulesets"] = responses["rulesets"]
        BY <2>1, <2>5, <3>2
      <4>2. QED
        BY <1>2, <4>1 DEF SettingsInv, AnsweredInTurn
    <3>3. QED
      BY <3>1, <3>2
  <2>6. CASE e = "owner"
    <3>1. DOMAIN responses' = Nine /\ Selects(responses'["rulesets"])
      <4>1. DOMAIN responses' = Nine
        BY <1>2, <2>1, <2>6, AnswersInOrder
      <4>2. QED
        BY <2>5, <2>6, <4>1 DEF Nine
    <3>2. endpoint' = IF build_settings_receipt(responses') THEN "pass" ELSE "refused"
      BY <1>8, <2>6
    <3>3. ASSUME changes = early
          PROVE  build_settings_receipt(responses') <=> Exact(settings)
      <4>1. Accounts(responses', settings, settings, {})
        BY <1>5, <2>2, <3>3
      <4>2. \A x \in Nine : responses'[x] \in ResponseOf(settings, responses'["rulesets"], x)
        BY <3>1, <4>1 DEF Accounts
      <4>3. QED
        BY <1>4, <3>1, <4>2, OneWorldVerdict
    <3>4. ASSUME changes = early + 1, build_settings_receipt(responses')
          PROVE  wasExact
      <4>1. PICK old \in Settings, before \in SUBSET DOMAIN responses :
              /\ Lawful(old.rulesets) /\ OneControl(old, settings)
              /\ Exact(old) \/ Exact(settings) => wasExact
              /\ before \cap Three # {} => "rulesets" \in before
              /\ Accounts(responses, old, settings, before)
        BY <1>2, <3>4 DEF SettingsInv, AfterOne
      <4>2. Accounts(responses', old, settings, before)
        BY <2>2, <4>1
      <4>3. Exact(old) \/ Exact(settings)
        BY <1>4, <3>1, <3>4, <4>1, <4>2, OneChangeVerdict
      <4>4. QED
        BY <4>1, <4>3
    <3>5. CASE ~build_settings_receipt(responses')
      BY <1>6, <2>3, <3>2, <3>3, <3>5
    <3>6. CASE build_settings_receipt(responses')
      <4>1. endpoint' = "pass"
        BY <3>2, <3>6
      <4>2. changes = early => Exact(settings) /\ wasExact
        BY <1>5, <3>3, <3>6
      <4>3. changes <= early + 1 => wasExact
        BY <1>3, <3>4, <3>6, <4>2
      <4>4. ReceiptIsEarned'
        BY <1>1, <4>1, <4>2, <4>3 DEF ReceiptIsEarned, VerdictIsExactAtRest, OneChangeCannotForge
      <4>5. ~Observing'
        BY <4>1 DEF Observing, Nine, Controls, Three
      <4>6. SettingsAreTyped'
        BY <1>1, <4>1 DEF SettingsInv, SettingsAreTyped
      <4>7. QED
        BY <2>3, <4>1, <4>4, <4>5, <4>6 DEF SettingsInv, AnsweredInTurn, AtRest, AfterOne
    <3>7. QED
      BY <3>5, <3>6
  <2>7. CASE e # "owner" /\ ~(e = "rulesets" /\ ~Selects(body))
    <3>1. endpoint' = Following[e] /\ Following[e] \in Nine
      BY <1>8, <2>7, AnswersInOrder
    <3>2. SettingsAreTyped'
      BY <1>1, <3>1 DEF SettingsInv, SettingsAreTyped
    <3>3. AnsweredInTurn'
      <4>1. DOMAIN responses' = AnsweredBefore[endpoint']
        BY <1>2, <2>1, <2>7, <3>1, AnswersInOrder
      <4>2. endpoint' # "start"
        BY <3>1 DEF Nine, Controls, Three
      <4>3. QED
        BY <2>3, <2>5, <2>7, <4>1, <4>2 DEF AnsweredInTurn
    <3>4. AtRest'
      <4>1. ASSUME changes = early
            PROVE  Accounts(responses', settings', settings', {}) /\ (wasExact' <=> Exact(settings'))
        BY <1>1, <1>5, <2>2, <4>1
      <4>2. QED
        BY <1>1, <4>1 DEF AtRest
    <3>5. AfterOne'
      <4>1. ASSUME changes = early + 1
            PROVE  \E old \in Settings : \E before \in SUBSET DOMAIN responses' :
                     /\ Lawful(old.rulesets) /\ OneControl(old, settings')
                     /\ Exact(old) \/ Exact(settings') => wasExact'
                     /\ before \cap Three # {} => "rulesets" \in before
                     /\ Accounts(responses', old, settings', before)
        <5>1. PICK old \in Settings, before \in SUBSET DOMAIN responses :
                /\ Lawful(old.rulesets) /\ OneControl(old, settings)
                /\ Exact(old) \/ Exact(settings) => wasExact
                /\ before \cap Three # {} => "rulesets" \in before
                /\ Accounts(responses, old, settings, before)
          BY <1>2, <4>1 DEF SettingsInv, AfterOne
        <5>2. Accounts(responses', old, settings, before) /\ before \in SUBSET DOMAIN responses'
          BY <2>1, <2>2, <5>1
        <5>3. QED
          BY <1>1, <5>1, <5>2
      <4>2. QED
        BY <1>1, <4>1 DEF AfterOne
    <3>6. ReceiptIsEarned'
      BY <3>1 DEF ReceiptIsEarned, VerdictIsExactAtRest, OneChangeCannotForge, Nine, Controls, Three
    <3>7. QED
      BY <3>2, <3>3, <3>4, <3>5, <3>6 DEF SettingsInv
  <2>8. QED
    BY <2>4, <2>6, <2>7
<1>9. QED
  BY <1>7, <1>8, GetOutcome DEF SettingsInv

\* One control changes while the observation goes on: the answers so far are of
\* the world before.
LEMMA ChangeKeepsReceipts ==
  ASSUME SettingsInv, NEW s \in Settings, ChangeTo(s), Lawful(s.rulesets),
         OneControl(settings, s),
         lastId' \in Nat, \A r \in s.rulesets : r.id <= lastId'
  PROVE  SettingsInv'
<1>1. /\ endpoint \notin {"pass", "refused"} /\ changes < MaxChanges
      /\ settings' = s /\ changes' = changes + 1 /\ wasExact' = (wasExact \/ Exact(s))
      /\ endpoint' = endpoint /\ responses' = responses /\ early' = early
  BY DEF ChangeTo
<1>2. changes \in Nat /\ early \in Nat /\ early <= changes /\ wasExact \in BOOLEAN
  BY ChangesAssumption DEF SettingsInv, SettingsAreTyped
<1>3. SettingsAreTyped'
  <2>1. changes' \in 0..MaxChanges /\ early' \in 0..changes' /\ wasExact' \in BOOLEAN
    BY <1>1, ChangesAssumption DEF SettingsInv, SettingsAreTyped
  <2>2. QED
    BY <1>1, <2>1 DEF SettingsInv, SettingsAreTyped
<1>4. AnsweredInTurn'
  BY <1>1 DEF SettingsInv, AnsweredInTurn, Observing
<1>5. AtRest'
  BY <1>1, <1>2 DEF AtRest
<1>6. ReceiptIsEarned'
  BY <1>1 DEF ReceiptIsEarned, VerdictIsExactAtRest, OneChangeCannotForge
<1>7. ASSUME Observing, changes = early
      PROVE  \E old \in Settings : \E before \in SUBSET DOMAIN responses :
               /\ Lawful(old.rulesets) /\ OneControl(old, s)
               /\ Exact(old) \/ Exact(s) => wasExact'
               /\ before \cap Three # {} => "rulesets" \in before
               /\ Accounts(responses, old, s, before)
  <2>1. Accounts(responses, settings, settings, {}) /\ (wasExact <=> Exact(settings))
    BY <1>7 DEF SettingsInv, AtRest
  <2>2. PICK old \in Settings, before \in SUBSET DOMAIN responses :
          old = settings /\ before = DOMAIN responses
    BY DEF SettingsInv, SettingsAreTyped
  <2>3. Accounts(responses, old, s, before)
    BY <2>1, <2>2 DEF Accounts
  <2>4. before \cap Three # {} => "rulesets" \in before
    <3>1. \A e \in Nine :
            AnsweredBefore[e] \cap Three # {} => "rulesets" \in AnsweredBefore[e]
      BY AnswersInOrder
    <3>2. before = AnsweredBefore[endpoint] /\ endpoint \in Nine
      BY <1>7, <2>2 DEF SettingsInv, AnsweredInTurn, Observing
    <3>3. QED
      BY <3>1, <3>2
  <2>5. Exact(old) \/ Exact(s) => wasExact'
    BY <1>1, <2>1, <2>2
  <2>6. Lawful(old.rulesets) /\ OneControl(old, s)
    BY <2>2 DEF SettingsInv, SettingsAreTyped
  <2>7. QED
    BY <2>3, <2>4, <2>5, <2>6
<1>8. AfterOne'
  <2>1. Observing' /\ changes' = early' + 1 => Observing /\ changes = early
    BY <1>1, <1>2 DEF Observing
  <2>2. QED
    BY <1>1, <1>7, <2>1 DEF AfterOne
<1>9. QED
  BY <1>3, <1>4, <1>5, <1>6, <1>8 DEF SettingsInv

\* The controls beside the rulesets are toggled one at a time.
LEMMA TogglesKeepReceipts ==
  ASSUME SettingsInv,
         \/ \E f \in Toggles : Toggle(f)
         \/ \E kind \in MergeKind : ToggleMerge(kind)
  PROVE  SettingsInv'
<1>1. /\ settings \in Settings /\ Lawful(settings.rulesets) /\ lastId \in Nat
      /\ \A r \in settings.rulesets : r.id <= lastId
  BY DEF SettingsInv, SettingsAreTyped
<1>2. ASSUME NEW f \in {"immutable", "reporting", "pinning", "approvals", "scanning", "merges"},
             NEW value, value \in (IF f = "merges" THEN SUBSET MergeKind ELSE BOOLEAN),
             NEW s, s = [settings EXCEPT ![f] = value], ChangeTo(s), lastId' = lastId
      PROVE  SettingsInv'
  <2>1. s \in Settings
    BY <1>1, <1>2 DEF Settings
  <2>2. \A g \in Fields \ {f} : settings[g] = s[g]
    BY <1>1, <1>2 DEF Settings, Fields
  <2>3. s.rulesets = settings.rulesets
    BY <1>1, <1>2 DEF Settings
  <2>4. OneControl(settings, s)
    <3>1. f \in Fields /\ f # "rulesets"
      BY DEF Fields
    <3>2. QED
      BY <2>2, <3>1 DEF OneControl
  <2>5. QED
    BY <1>1, <1>2, <2>1, <2>3, <2>4, ChangeKeepsReceipts
<1>3. ASSUME NEW f \in Toggles, Toggle(f)
      PROVE  SettingsInv'
  <2>1. ChangeTo([settings EXCEPT ![f] = ~settings[f]]) /\ lastId' = lastId
    BY <1>3 DEF Toggle
  <2>2. f \in {"immutable", "reporting", "pinning", "approvals", "scanning"}
    BY DEF Toggles
  <2>3. (~settings[f]) \in BOOLEAN
    OBVIOUS
  <2>4. QED
    BY <1>2, <2>1, <2>2, <2>3
<1>4. ASSUME NEW kind \in MergeKind, ToggleMerge(kind)
      PROVE  SettingsInv'
  <2> DEFINE value == IF kind \in settings.merges
                      THEN settings.merges \ {kind} ELSE settings.merges \cup {kind}
  <2>1. ChangeTo([settings EXCEPT !["merges"] = value]) /\ lastId' = lastId
    BY <1>4 DEF ToggleMerge
  <2>2. value \in SUBSET MergeKind
    BY <1>1 DEF Settings
  <2> HIDE DEF value
  <2>3. QED
    BY <1>2, <2>1, <2>2
<1>5. QED
  BY <1>3, <1>4

\* A list in which one ruleset gives way to one of the same shape, or is joined
\* by one with a fresh id, is lawful.
LEMMA LawfulChange ==
  ASSUME NEW list, Lawful(list), NEW r \in list, NEW e, Shaped(e), e.id # NoId, e.name = r.name,
         NEW new,
         \/ new = (list \ {r}) \cup {e} /\ e.id = r.id
         \/ /\ new \in {(list \ {r}) \cup {e}, list \cup {e}}
            /\ \A q \in list : q.id # e.id
  PROVE  Lawful(new) /\ RulesetChanged(list, new)
<1>1. IsFiniteSet(new)
  <2>1. IsFiniteSet(list) /\ IsFiniteSet(list \ {r})
    BY FS_RemoveElement DEF Lawful
  <2>2. IsFiniteSet(list \cup {e}) /\ IsFiniteSet((list \ {r}) \cup {e})
    BY <2>1, FS_AddElement
  <2>3. QED
    BY <2>2
<1>2. \A q, p \in new : q.id = p.id => q = p
  BY DEF Lawful
<1>3. \A q \in new : /\ q \in Ruleset /\ q.id # NoId /\ q.name \in Three
                     /\ q.target = TargetOf(q.name) /\ q.merges = MergesOf(q.name)
  BY DEF Lawful, Shaped
<1>4. RulesetChanged(list, new)
  BY DEF RulesetChanged
<1>5. QED
  BY <1>1, <1>2, <1>3, <1>4 DEF Lawful

\* A ruleset is edited, or made again.
LEMMA RulesetsKeepReceipts ==
  ASSUME SettingsInv, NEW r \in settings.rulesets, EditRuleset(r) \/ RecreateRuleset(r)
  PROVE  SettingsInv'
<1>1. /\ settings \in Settings /\ Lawful(settings.rulesets) /\ lastId \in Nat
      /\ \A q \in settings.rulesets : q.id <= lastId
  BY DEF SettingsInv, SettingsAreTyped
<1>2. ASSUME NEW new, ChangeTo([settings EXCEPT !.rulesets = new]), Lawful(new),
             RulesetChanged(settings.rulesets, new), lastId' \in Nat,
             \A q \in new : q.id <= lastId'
      PROVE  SettingsInv'
  <2> DEFINE s == [settings EXCEPT !.rulesets = new]
  <2>1. s.rulesets = new /\ \A g \in Fields \ {"rulesets"} : settings[g] = s[g]
    BY <1>1 DEF Settings, Fields
  <2>2. s \in Settings
    <3>1. new \subseteq Ruleset
      BY <1>2 DEF Lawful
    <3>2. QED
      BY <1>1, <3>1 DEF Settings
  <2> HIDE DEF s
  <2>3. OneControl(settings, s)
    <3>1. "rulesets" \in Fields
      BY DEF Fields
    <3>2. QED
      BY <1>2, <2>1, <3>1 DEF OneControl
  <2>4. ChangeTo(s)
    BY <1>2 DEF s
  <2>5. QED
    BY <1>2, <2>1, <2>2, <2>3, <2>4, ChangeKeepsReceipts
<1>3. /\ Shaped(r) /\ r.id # NoId /\ r \in Ruleset /\ r.id <= lastId
  BY <1>1 DEF Lawful, Shaped
<1>4. CASE EditRuleset(r)
  <2>1. PICK e \in Edits(r) :
          ChangeTo([settings EXCEPT !.rulesets = (@ \ {r}) \cup {e}]) /\ lastId' = lastId
    BY <1>4 DEF EditRuleset
  <2>2. /\ e \in Ruleset /\ e.id = r.id /\ e.name = r.name /\ e.target = r.target
        /\ e.merges = r.merges
    <3>1. CASE e = [r EXCEPT !.active = ~@]
      BY <1>3, <3>1 DEF Ruleset
    <3>2. CASE e = [r EXCEPT !.plain = ~@]
      BY <1>3, <3>2 DEF Ruleset
    <3>3. CASE e = [r EXCEPT !.bypass = IF @ = "other" THEN BypassOf(r.name) ELSE "other"]
      BY <1>3, <3>3 DEF Ruleset, BypassOf
    <3>4. ASSUME NEW x \in {"update", "deletion"},
                 e = [r EXCEPT !.rules = IF x \in @ THEN @ \ {x} ELSE @ \cup {x}]
          PROVE  /\ e \in Ruleset /\ e.id = r.id /\ e.name = r.name /\ e.target = r.target
                 /\ e.merges = r.merges
      <4> DEFINE rules == IF x \in r.rules THEN r.rules \ {x} ELSE r.rules \cup {x}
      <4>1. e = [r EXCEPT !.rules = rules]
        BY <3>4
      <4>2. rules \in SUBSET Rules
        BY <1>3 DEF Ruleset, Rules
      <4> HIDE DEF rules
      <4>3. QED
        BY <1>3, <4>1, <4>2 DEF Ruleset
    <3>5. QED
      BY <3>1, <3>2, <3>3, <3>4 DEF Edits
  <2>3. Shaped(e)
    BY <1>3, <2>2 DEF Shaped
  <2> DEFINE new == (settings.rulesets \ {r}) \cup {e}
  <2>4. Lawful(new) /\ RulesetChanged(settings.rulesets, new)
    BY <1>1, <1>3, <2>2, <2>3, LawfulChange
  <2>5. \A q \in new : q.id <= lastId'
    BY <1>1, <1>3, <2>1, <2>2
  <2>6. ChangeTo([settings EXCEPT !.rulesets = new])
    BY <2>1
  <2> HIDE DEF new
  <2>7. QED
    BY <1>1, <1>2, <2>1, <2>4, <2>5, <2>6
<1>5. CASE RecreateRuleset(r)
  <2> DEFINE e == [r EXCEPT !.id = lastId + 1]
  <2>1. PICK kept \in SUBSET {r} :
          ChangeTo([settings EXCEPT !.rulesets = (@ \ {r}) \cup kept \cup {e}])
            /\ lastId' = lastId + 1
    BY <1>5 DEF RecreateRuleset
  <2>2. /\ e \in Ruleset /\ e.id = lastId + 1 /\ e.name = r.name /\ e.target = r.target
        /\ e.merges = r.merges
    <3>1. PICK i \in Nat : i = lastId + 1
      BY <1>1
    <3>2. e = [r EXCEPT !.id = i]
      BY <3>1
    <3> HIDE DEF e
    <3>3. /\ e \in Ruleset /\ e.id = i /\ e.name = r.name /\ e.target = r.target
          /\ e.merges = r.merges
      BY <1>3, <3>2 DEF Ruleset
    <3>4. QED
      BY <3>1, <3>3
  <2> HIDE DEF e
  <2>3. Shaped(e) /\ e.id # NoId
    BY <1>1, <1>3, <2>2 DEF Shaped, NoId
  <2> DEFINE new == (settings.rulesets \ {r}) \cup kept \cup {e}
  <2>4. new \in {(settings.rulesets \ {r}) \cup {e}, settings.rulesets \cup {e}}
    <3>1. CASE kept = {}
      BY <3>1
    <3>2. CASE kept = {r}
      BY <3>2
    <3>3. QED
      BY <3>1, <3>2
  <2>5. \A q \in settings.rulesets : q.id # e.id
    <3>1. \A q \in settings.rulesets : q.id \in Nat /\ q.id <= lastId
      BY <1>1 DEF Lawful, Ruleset
    <3>2. QED
      BY <1>1, <2>2, <3>1
  <2>6. ChangeTo([settings EXCEPT !.rulesets = new])
    BY <2>1
  <2>7. \A q \in new : q.id <= lastId'
    <3>1. \A q \in new : q \in settings.rulesets \/ q = e
      OBVIOUS
    <3>2. \A q \in settings.rulesets : q.id \in Nat /\ q.id <= lastId
      BY <1>1 DEF Lawful, Ruleset
    <3>3. QED
      BY <1>1, <2>1, <2>2, <3>1, <3>2
  <2> HIDE DEF new
  <2>8. Lawful(new) /\ RulesetChanged(settings.rulesets, new)
    BY <1>1, <2>2, <2>3, <2>4, <2>5, LawfulChange
  <2>9. lastId' \in Nat
    BY <1>1, <2>1
  <2>10. QED
    BY <1>2, <2>6, <2>7, <2>8, <2>9
<1>6. QED
  BY <1>4, <1>5

\* The documented state is lawful, and the observation has not begun.
LEMMA SettingsInitInv == SettingsInit => SettingsInv
<1> SUFFICES ASSUME SettingsInit PROVE SettingsInv
  OBVIOUS
<1> DEFINE list == {Documented("main", 1), Documented("owner", 2), Documented("tags", 3)}
<1>1. /\ settings = ExactSettings /\ lastId = 3 /\ changes = 0 /\ endpoint = "start"
      /\ responses = Nothing /\ early = 0 /\ wasExact = TRUE
  BY DEF SettingsInit
<1>2. \A n \in Three, i \in Nat :
        LET d == Documented(n, i) IN
        /\ d \in Ruleset /\ d.id = i /\ d.name = n
        /\ d.target = TargetOf(n) /\ d.merges = MergesOf(n)
  <2> TAKE n \in Three, i \in Nat
  <2>1. /\ n \in Names /\ TargetOf(n) \in {"branch", "tag"} /\ RulesOf(n) \in SUBSET Rules
        /\ MergesOf(n) \in SUBSET MergeKind
        /\ BypassOf(n) \in {"none", "owner by pull request", "other"}
    BY DEF Three, Names, TargetOf, RulesOf, Rules, MergesOf, MergeKind, BypassOf
  <2>2. QED
    BY <2>1 DEF Documented, Ruleset
<1>3. Lawful(list)
  <2>1. IsFiniteSet(list)
    <3>1. IsFiniteSet({Documented("main", 1)})
      BY FS_Singleton
    <3>2. IsFiniteSet({Documented("main", 1)} \cup {Documented("owner", 2)})
      BY <3>1, FS_AddElement
    <3>3. IsFiniteSet(({Documented("main", 1)} \cup {Documented("owner", 2)})
                        \cup {Documented("tags", 3)})
      BY <3>2, FS_AddElement
    <3>4. list = ({Documented("main", 1)} \cup {Documented("owner", 2)})
                   \cup {Documented("tags", 3)}
      OBVIOUS
    <3>5. QED
      BY <3>3, <3>4
  <2>2. /\ Documented("main", 1).id = 1 /\ Documented("owner", 2).id = 2
        /\ Documented("tags", 3).id = 3
    BY DEF Documented
  <2>3. \A q, r \in list : q.id = r.id => q = r
    BY <2>2
  <2>4. \A r \in list : /\ r \in Ruleset /\ r.id # NoId /\ r.name \in Three
                       /\ r.target = TargetOf(r.name) /\ r.merges = MergesOf(r.name)
    <3> TAKE r \in list
    <3>1. PICK n \in Three, i \in {1, 2, 3} : r = Documented(n, i)
      BY DEF Three
    <3>2. i \in Nat /\ i # NoId
      BY DEF NoId
    <3>3. QED
      BY <1>2, <3>1, <3>2
  <2>5. QED
    BY <2>1, <2>3, <2>4 DEF Lawful
<1>4. ExactSettings.rulesets = list
  BY DEF ExactSettings
<1>5. settings \in Settings
  <2>1. list \subseteq Ruleset
    BY <1>3 DEF Lawful
  <2> HIDE DEF list
  <2>2. ExactSettings \in Settings
    <3>1. ExactSettings =
            [immutable |-> TRUE, reporting |-> TRUE, pinning |-> TRUE, approvals |-> FALSE,
             scanning  |-> TRUE, merges |-> {"rebase", "squash"}, rulesets |-> list]
      BY DEF ExactSettings, list
    <3>2. QED
      BY <2>1, <3>1 DEF Settings, MergeKind
  <2>3. QED
    BY <1>1, <2>2
<1>6. \A r \in list : r.id <= lastId
  <2>1. /\ Documented("main", 1).id = 1 /\ Documented("owner", 2).id = 2
        /\ Documented("tags", 3).id = 3
    BY DEF Documented
  <2>2. QED
    BY <1>1, <2>1
<1> HIDE DEF list
<1>7. SettingsAreTyped
  BY <1>1, <1>3, <1>4, <1>5, <1>6, ChangesAssumption DEF SettingsAreTyped
<1>8. DOMAIN responses = {} /\ ~Observing
  BY <1>1 DEF Nothing, Observing, Nine, Controls, Three
<1>9. AnsweredInTurn /\ AtRest /\ AfterOne
  BY <1>8 DEF AnsweredInTurn, AtRest, AfterOne
<1>10. ReceiptIsEarned
  BY <1>1 DEF ReceiptIsEarned, VerdictIsExactAtRest, OneChangeCannotForge
<1>11. QED
  BY <1>7, <1>9, <1>10 DEF SettingsInv

\* Every step keeps the account.
LEMMA SettingsStepInv == SettingsInv /\ [SettingsNext]_settingsVars => SettingsInv'
<1> SUFFICES ASSUME SettingsInv, [SettingsNext]_settingsVars
             PROVE  SettingsInv'
  OBVIOUS
<1>1. CASE Start
  BY <1>1, StartKeepsAccount
<1>2. ASSUME NEW e \in {Endpoints[i] : i \in DOMAIN Endpoints}, Get(e)
      PROVE  SettingsInv'
  <2>1. e \in Nine
    BY EndpointsInOrder
  <2>2. QED
    BY <1>2, <2>1, GetsKeepAccount
<1>3. CASE \/ \E f \in Toggles : Toggle(f)
           \/ \E kind \in MergeKind : ToggleMerge(kind)
  BY <1>3, TogglesKeepReceipts
<1>4. ASSUME NEW r \in settings.rulesets, EditRuleset(r) \/ RecreateRuleset(r)
      PROVE  SettingsInv'
  BY <1>4, RulesetsKeepReceipts
<1>5. CASE UNCHANGED settingsVars
  <2>1. /\ settings' = settings /\ lastId' = lastId /\ changes' = changes
        /\ endpoint' = endpoint /\ responses' = responses /\ early' = early
        /\ wasExact' = wasExact
    BY <1>5 DEF settingsVars
  <2>2. SettingsAreTyped' /\ AnsweredInTurn'
    BY <2>1 DEF SettingsInv, SettingsAreTyped, AnsweredInTurn, Observing
  <2>3. AtRest' /\ AfterOne'
    BY <2>1 DEF SettingsInv, AtRest, AfterOne, Observing
  <2>4. ReceiptIsEarned'
    BY <2>1 DEF SettingsInv, ReceiptIsEarned, VerdictIsExactAtRest, OneChangeCannotForge
  <2>5. QED
    BY <2>2, <2>3, <2>4 DEF SettingsInv
<1>6. QED
  BY <1>1, <1>2, <1>3, <1>4, <1>5 DEF SettingsNext

\* The observation keeps its account of the settings in every reachable state,
\* for any number of changes.
THEOREM SettingsInvariant == SettingsSpec => []SettingsInv
<1>1. QED
  BY SettingsInitInv, SettingsStepInv, PTL DEF SettingsSpec

\* Every variable of the observation has its type.
\* (platform_release_contract.py, observe_live_settings)
THEOREM SettingsTypes == SettingsSpec => []SettingsTypeOK
<1>1. SettingsInv => SettingsTypeOK
  <2> SUFFICES ASSUME SettingsInv PROVE SettingsTypeOK
    OBVIOUS
  <2>1. settings \in Settings
    BY DEF SettingsInv, SettingsAreTyped
  <2>2. settings.rulesets \subseteq Ruleset /\ settings.merges \subseteq MergeKind
    BY <2>1 DEF Settings
  <2>3. \A f \in Toggles : settings[f] \in BOOLEAN
    BY <2>1 DEF Settings, Toggles
  <2>4. /\ endpoint \in {"start", "pass", "refused"} \cup {Endpoints[i] : i \in DOMAIN Endpoints}
        /\ DOMAIN responses \subseteq {Endpoints[i] : i \in DOMAIN Endpoints}
    <3>1. {Endpoints[i] : i \in DOMAIN Endpoints} = Nine
      BY EndpointsInOrder
    <3>2. endpoint \in {"start", "pass", "refused"} \cup Nine /\ DOMAIN responses \subseteq Nine
      BY DEF SettingsInv, SettingsAreTyped, AnsweredInTurn
    <3>3. QED
      BY <3>1, <3>2, Zenon
  <2>5. changes \in 0..MaxChanges /\ early \in 0..changes
    BY DEF SettingsInv, SettingsAreTyped
  <2>6. \A q, r \in settings.rulesets : q.id = r.id => q = r
    BY DEF SettingsInv, SettingsAreTyped, Lawful
  <2>7. QED
    BY <2>2, <2>3, <2>4, <2>5, <2>6 DEF SettingsTypeOK
<1>2. QED
  BY <1>1, SettingsInvariant, PTL

\* A receipt is given for a state the settings were in: of the present one while
\* nothing changes, and of the one before or after a single change.
\* (platform_release_contract.py, observe_live_settings and build_settings_receipt)
THEOREM ReceiptIsAlwaysEarned == SettingsSpec => []ReceiptIsEarned
<1>1. SettingsInv => ReceiptIsEarned
  BY DEF SettingsInv
<1>2. QED
  BY <1>1, SettingsInvariant, PTL

--------------------------------------------------------------------------------
(***************************************************************************)
(* The ready check.  Each thing it decides on is read once, so that with one*)
(* change between two reads some world explains all the answers: the one   *)
(* before the change or the one after it.                                  *)
(***************************************************************************)
\* The decision on four answers that were not truncated.
Passes(p, b, r, c) ==
  /\ ready_decision([pull |-> p, compare |-> b, runs |-> r, comments |-> c])
  /\ Cardinality(r) <= PageSize

\* AGENTS.md's rule, of any pull request.
Rule(p, b, r, c) ==
  LET standing == {x \in c : x.app /\ x.canonical /\ x.head = p.head} IN
  /\ p.open /\ p.base = "default" /\ ~b
  /\ standing # {}
  /\ \A x \in standing : x.verdict = "APPROVE" /\ x.binds \in {NoBody, p.body}
  /\ \A n \in RequiredNames : \E q \in r :
        q.app = AppOf[n] /\ q.state = "success" /\ {x \in r : x.name = n} = {q}
  /\ \A q \in r : q.state \in {"success", "neutral"}
  /\ Cardinality(r) <= PageSize
  /\ UMBRELLA_LABEL \in p.labels /\ REVIEW_ATTENTION_LABEL \notin p.labels
  /\ \/ {SECURITY_TIER_LABEL, SECURITY_REVIEW_LABEL} \subseteq p.labels
     \/ /\ "docs" \in p.labels
        /\ {SECURITY_TIER_LABEL, SECURITY_REVIEW_LABEL} \cap p.labels = {}

\* LabelBlockers names nothing exactly when the labels are lawful.
LEMMA LabelsAreLawful ==
  ASSUME NEW labels
  PROVE  LabelBlockers(labels) = {} <=>
           /\ UMBRELLA_LABEL \in labels /\ REVIEW_ATTENTION_LABEL \notin labels
           /\ \/ {SECURITY_TIER_LABEL, SECURITY_REVIEW_LABEL} \subseteq labels
              \/ /\ "docs" \in labels
                 /\ {SECURITY_TIER_LABEL, SECURITY_REVIEW_LABEL} \cap labels = {}
<1> DEFINE U == UMBRELLA_LABEL \in labels
           A == REVIEW_ATTENTION_LABEL \in labels
           S == SECURITY_TIER_LABEL \in labels
           R == SECURITY_REVIEW_LABEL \in labels
           D == "docs" \in labels
<1>1. LabelBlockers(labels) = {} <=>
        \A b \in {"attention", "no tier", "no umbrella", "conflicting tier"} :
          ~(\/ b = "attention" /\ A
            \/ b = "no tier" /\ TIER_LABELS \cap labels = {}
            \/ b = "no umbrella" /\ ~U
            \/ b = "conflicting tier" /\ S # R)
  BY DEF LabelBlockers
<1>2. TIER_LABELS \cap labels = {} <=> ~S /\ ~D
  BY DEF TIER_LABELS
<1>3. {SECURITY_TIER_LABEL, SECURITY_REVIEW_LABEL} \subseteq labels <=> S /\ R
  OBVIOUS
<1>4. {SECURITY_TIER_LABEL, SECURITY_REVIEW_LABEL} \cap labels = {} <=> ~S /\ ~R
  OBVIOUS
<1>5. LabelBlockers(labels) = {} <=> ~A /\ ~(~S /\ ~D) /\ U /\ (S <=> R)
  <2>1. LabelBlockers(labels) = {} => ~A /\ ~(~S /\ ~D) /\ U /\ ~(S # R)
    BY <1>1, <1>2
  <2>2. ~A /\ ~(~S /\ ~D) /\ U /\ ~(S # R) => LabelBlockers(labels) = {}
    BY <1>1, <1>2
  <2>3. S # R <=> ~(S <=> R)
    <3>1. S \in BOOLEAN /\ R \in BOOLEAN
      OBVIOUS
    <3>2. QED
      BY <3>1
  <2>4. QED
    BY <2>1, <2>2, <2>3
<1>6. QED
  BY <1>3, <1>4, <1>5

\* RequiredBlockers names nothing exactly when each required check has one
\* run, a success of its own app.
LEMMA ChecksAreGreen ==
  ASSUME NEW r, IsFiniteSet(r)
  PROVE  RequiredBlockers(r) = {} <=>
           \A n \in RequiredNames : \E q \in r :
             q.app = AppOf[n] /\ q.state = "success" /\ {x \in r : x.name = n} = {q}
<1> DEFINE found(n) == {x \in r : x.name = n}
           bad(n) == \/ Cardinality(found(n)) # 1
                     \/ \E x \in found(n) : x.app # AppOf[n] \/ x.state # "success"
<1>1. RequiredBlockers(r) = {} <=> \A n \in RequiredNames : ~bad(n)
  BY DEF RequiredBlockers
<1>2. ASSUME NEW n \in RequiredNames
      PROVE  ~bad(n) <=> \E q \in r : q.app = AppOf[n] /\ q.state = "success" /\ found(n) = {q}
  <2>1. IsFiniteSet(found(n))
    BY FS_Subset
  <2>2. Cardinality(found(n)) = 1 <=> \E q : found(n) = {q}
    BY <2>1, FS_Singleton
  <2> HIDE DEF found
  <2>3. ASSUME ~bad(n)
        PROVE  \E q \in r : q.app = AppOf[n] /\ q.state = "success" /\ found(n) = {q}
    <3>1. PICK q : found(n) = {q}
      BY <2>2, <2>3
    <3>2. q \in found(n)
      BY <3>1
    <3>3. q.app = AppOf[n] /\ q.state = "success"
      BY <2>3, <3>2
    <3>4. q \in r
      BY <3>2 DEF found
    <3>5. QED
      BY <3>1, <3>3, <3>4
  <2>4. ASSUME NEW q \in r, q.app = AppOf[n], q.state = "success", found(n) = {q}
        PROVE  ~bad(n)
    BY <2>2, <2>4
  <2>5. QED
    BY <2>3, <2>4
<1>3. QED
  BY <1>1, <1>2

\* The comments approve exactly when a receipt stands at the head and every one
\* that does approves the body.
LEMMA ReceiptsApprove ==
  ASSUME NEW c, NEW head, NEW body
  PROVE  (/\ \A x \in receipts(c, head) : ~body_differs(x, body)
          /\ verdicts(c, head, body) = {"APPROVE"}) <=>
         LET standing == {x \in c : x.app /\ x.canonical /\ x.head = head} IN
         /\ standing # {}
         /\ \A x \in standing : x.verdict = "APPROVE" /\ x.binds \in {NoBody, body}
<1> DEFINE standing == {x \in c : x.app /\ x.canonical /\ x.head = head}
<1>1. receipts(c, head) = standing
  BY DEF receipts, denied
<1>2. \A x : ~body_differs(x, body) <=> x.binds \in {NoBody, body}
  BY DEF body_differs
<1> HIDE DEF standing
<1>3. verdicts(c, head, body) = {x.verdict : x \in {y \in standing : ~body_differs(y, body)}}
  BY <1>1 DEF verdicts
<1>4. ASSUME \A x \in standing : ~body_differs(x, body)
      PROVE  verdicts(c, head, body) = {"APPROVE"} <=>
               standing # {} /\ \A x \in standing : x.verdict = "APPROVE"
  <2>1. {y \in standing : ~body_differs(y, body)} = standing
    BY <1>4
  <2>2. verdicts(c, head, body) = {x.verdict : x \in standing}
    BY <1>3, <2>1
  <2>3. QED
    BY <2>2
<1>5. (/\ \A x \in standing : ~body_differs(x, body)
       /\ verdicts(c, head, body) = {"APPROVE"}) <=>
      /\ standing # {}
      /\ \A x \in standing : x.verdict = "APPROVE" /\ x.binds \in {NoBody, body}
  BY <1>2, <1>4
<1>6. QED
  BY <1>1, <1>5 DEF standing

\* The decision is the rule.
LEMMA DecisionIsTheRule ==
  ASSUME NEW p, NEW b, NEW r, NEW c, IsFiniteSet(r)
  PROVE  Passes(p, b, r, c) <=> Rule(p, b, r, c)
<1> DEFINE v == [pull |-> p, compare |-> b, runs |-> r, comments |-> c]
<1>1. v["pull"] = p /\ v["compare"] = b /\ v["runs"] = r /\ v["comments"] = c
  OBVIOUS
<1> HIDE DEF v
<1>2. ready_decision(v) <=>
        /\ p.open /\ p.base = "default"
        /\ \A x \in receipts(c, p.head) : ~body_differs(x, p.body)
        /\ verdicts(c, p.head, p.body) = {"APPROVE"}
        /\ RequiredBlockers(r) = {}
        /\ UnfinishedBlockers(r) = {}
        /\ LabelBlockers(p.labels) = {}
        /\ ~b
  BY <1>1 DEF ready_decision
<1>3. UnfinishedBlockers(r) = {} <=> \A q \in r : q.state \in {"success", "neutral"}
  BY DEF UnfinishedBlockers, ACCEPTABLE_CONCLUSIONS
<1>4. Passes(p, b, r, c) <=> ready_decision(v) /\ Cardinality(r) <= PageSize
  BY DEF Passes, v
<1>5. (/\ \A x \in receipts(c, p.head) : ~body_differs(x, p.body)
       /\ verdicts(c, p.head, p.body) = {"APPROVE"}) <=>
      LET standing == {x \in c : x.app /\ x.canonical /\ x.head = p.head} IN
      /\ standing # {}
      /\ \A x \in standing : x.verdict = "APPROVE" /\ x.binds \in {NoBody, p.body}
  BY ReceiptsApprove
<1>6. RequiredBlockers(r) = {} <=>
        \A n \in RequiredNames : \E q \in r :
          q.app = AppOf[n] /\ q.state = "success" /\ {x \in r : x.name = n} = {q}
  BY ChecksAreGreen
<1>7. LabelBlockers(p.labels) = {} <=>
        /\ UMBRELLA_LABEL \in p.labels /\ REVIEW_ATTENTION_LABEL \notin p.labels
        /\ \/ {SECURITY_TIER_LABEL, SECURITY_REVIEW_LABEL} \subseteq p.labels
           \/ /\ "docs" \in p.labels
              /\ {SECURITY_TIER_LABEL, SECURITY_REVIEW_LABEL} \cap p.labels = {}
  BY LabelsAreLawful
<1>8. QED
  BY <1>2, <1>3, <1>4, <1>5, <1>6, <1>7, Zenon DEF Rule

--------------------------------------------------------------------------------
\* The runs of a head are finitely many, and each GET has been asked in turn.
RunsAreFinite == runs \in [Heads -> SUBSET Run] /\ \A h \in Heads : IsFiniteSet(runs[h])

\* The answers that are there are those of the GETs already made (snapshot).
ReadInTurn ==
  /\ reader \notin {"compare", "runs", "comments"} => DOMAIN read = {}
  /\ reader = "compare" => DOMAIN read = {"pull"}
  /\ reader = "runs" => DOMAIN read = {"pull", "compare"}
  /\ reader = "comments" => DOMAIN read = {"pull", "compare", "runs"}
  /\ "pull" \in DOMAIN read => read["pull"] \in Pull

\* A world explains the answers so far, and agrees with the present on all that
\* is still to be read.
Explains(g, p, b, r, c) ==
  /\ IF reader = "repository" THEN g = genuine ELSE g
  /\ IF "pull" \in DOMAIN read THEN read["pull"] = p ELSE p = pull
  /\ IF "compare" \in DOMAIN read THEN read["compare"] = b[p.head] ELSE b = behind
  /\ IF "runs" \in DOMAIN read
     THEN read["runs"] = r[p.head] /\ Cardinality(r[p.head]) <= PageSize
     ELSE r = runs
  /\ c = comments

\* A GET is still to be made.
Asking == reader \in Gets

\* Nothing has changed: the present explains the answers.
Quiet ==
  Asking /\ readyChanges = readyEarly =>
    /\ Explains(genuine, pull, behind, runs, comments)
    /\ wasEligible <=> Eligible

\* One thing has: the world before it or the one after it does, and if that
\* one is eligible it has been recorded.
OneChange ==
  Asking /\ readyChanges = readyEarly + 1 =>
    \E g, p, b, r, c :
      /\ Explains(g, p, b, r, c)
      /\ g /\ Passes(p, b[p.head], r[p.head], c) => wasEligible

\* The inductive invariant of the ready check.
ReadyInv == ReadyTypeOK /\ RunsAreFinite /\ ReadInTurn /\ Quiet /\ OneChange /\ EligibleIsEarned

\* The present is eligible exactly when the repository is the known one and
\* the decision on the present passes.
LEMMA EligibleMeans ==
  ASSUME RunsAreFinite, ReadyTypeOK
  PROVE  Eligible <=> genuine /\ Passes(pull, behind[pull.head], runs[pull.head], comments)
<1>1. IsFiniteSet(runs[pull.head])
  BY DEF RunsAreFinite, ReadyTypeOK, Pull
<1>2. Passes(pull, behind[pull.head], runs[pull.head], comments)
        <=> Rule(pull, behind[pull.head], runs[pull.head], comments)
  BY <1>1, DecisionIsTheRule
<1>3. Eligible <=> genuine /\ Rule(pull, behind[pull.head], runs[pull.head], comments)
  BY Zenon DEF Eligible, Standing, Rule
<1>4. QED
  BY <1>2, <1>3

\* The same in the state a step leads to.
LEMMA EligibleMeansNext ==
  ASSUME RunsAreFinite', ReadyTypeOK'
  PROVE  Eligible' <=> genuine' /\ Passes(pull', behind'[pull'.head], runs'[pull'.head], comments')
<1>1. IsFiniteSet(runs'[pull'.head])
  BY DEF RunsAreFinite, ReadyTypeOK, Pull
<1>2. Passes(pull', behind'[pull'.head], runs'[pull'.head], comments')
        <=> Rule(pull', behind'[pull'.head], runs'[pull'.head], comments')
  BY <1>1, DecisionIsTheRule
<1>3. Eligible' <=> genuine' /\ Rule(pull', behind'[pull'.head], runs'[pull'.head], comments')
  BY Zenon DEF Eligible, Standing, Rule
<1>4. QED
  BY <1>2, <1>3

\* Eligibility is of the world alone.
LEMMA SameWorld ==
  ASSUME UNCHANGED world
  PROVE  Eligible' <=> Eligible
BY DEF world, Eligible, Standing

\* GreenRuns and the runs of ReadyInit are runs, and finitely many.
LEMMA FirstRuns ==
  /\ GreenRuns \subseteq Run /\ IsFiniteSet(GreenRuns)
  /\ Running(GreenRuns) \subseteq Run /\ IsFiniteSet(Running(GreenRuns))
<1>1. GreenRuns \subseteq Run
  BY DEF GreenRuns, Run, RunStates, Conclusions
<1>2. IsFiniteSet(GreenRuns)
  <2>1. IsFiniteSet(RequiredNames)
    BY ReadyAssumption DEF RequiredNames
  <2> DEFINE f == [n \in RequiredNames |-> [name |-> n, app |-> AppOf[n], state |-> "success"]]
  <2>2. IsFiniteSet({[name |-> n, app |-> AppOf[n], state |-> "success"] : n \in RequiredNames})
    <3>1. GreenRuns = {f[n] : n \in RequiredNames}
      BY DEF GreenRuns
    <3>2. f \in Surjection(RequiredNames, GreenRuns)
      BY <3>1 DEF Surjection
    <3>3. IsFiniteSet(GreenRuns)
      BY <2>1, <3>2, FS_Surjection
    <3>4. QED
      BY <3>3 DEF GreenRuns
  <2>3. QED
    BY <2>2 DEF GreenRuns
<1>3. Running(GreenRuns) \subseteq Run
  BY <1>1 DEF Running, Run, RunStates
<1>4. IsFiniteSet(Running(GreenRuns))
  <2> DEFINE f == [r \in GreenRuns |-> [r EXCEPT !.state = "running"]]
  <2>1. Running(GreenRuns) = {f[r] : r \in GreenRuns}
    BY DEF Running
  <2>2. f \in Surjection(GreenRuns, Running(GreenRuns))
    BY <2>1 DEF Surjection
  <2>3. QED
    BY <1>2, <2>2, FS_Surjection
<1>5. QED
  BY <1>1, <1>2, <1>3, <1>4

\* The first state satisfies the invariant.
LEMMA ReadyInitInv == ReadyInit => ReadyInv
<1> SUFFICES ASSUME ReadyInit PROVE ReadyInv
  OBVIOUS
<1>1. PICK h \in Heads, body \in Bodies :
        pull = [open |-> TRUE, base |-> "default", head |-> h, body |-> body,
                labels |-> {UMBRELLA_LABEL, "docs"}]
  BY DEF ReadyInit
<1>2. pull \in Pull
  BY <1>1 DEF Pull, Labels, TIER_LABELS
<1>3. PICK green \in SUBSET Heads :
        runs = [k \in Heads |-> IF k \in green THEN GreenRuns ELSE Running(GreenRuns)]
  BY DEF ReadyInit
<1>4. RunsAreFinite
  BY <1>3, FirstRuns DEF RunsAreFinite
<1>5. comments \subseteq Comment
  <2>1. PICK approved \in SUBSET Heads : comments = {Approval(k) : k \in approved}
    BY DEF ReadyInit
  <2>2. \A k \in Heads : Approval(k) \in Comment
    BY DEF Approval, Comment
  <2>3. QED
    BY <2>1, <2>2
<1>6. DOMAIN read = {} /\ reader = "begin"
  BY DEF ReadyInit, NoneAnswered
<1>7. ReadyTypeOK
  <2>1. genuine \in BOOLEAN /\ behind \in [Heads -> BOOLEAN] /\ wasEligible \in BOOLEAN
    BY DEF ReadyInit
  <2>2. readyChanges \in 0..MaxReadyChanges /\ readyEarly \in 0..readyChanges
    BY ReadyAssumption DEF ReadyInit
  <2>3. \A k \in Heads : runs[k] \subseteq Run
    BY <1>4 DEF RunsAreFinite
  <2>4. QED
    BY <1>2, <1>5, <1>6, <2>1, <2>2, <2>3 DEF ReadyTypeOK
<1>8. ReadInTurn /\ Quiet /\ OneChange
  BY <1>6 DEF ReadInTurn, Quiet, OneChange, Asking, Gets
<1>9. EligibleIsEarned
  BY <1>6 DEF EligibleIsEarned, ReadyIsExactAtRest, OneChangeCannotEnable
<1>10. QED
  BY <1>4, <1>7, <1>8, <1>9 DEF ReadyInv

\* One thing changes while the reads go on: what has not been read yet is of
\* the new world, and what has been is of the old one.
LEMMA ChangeKeepsAccount ==
  ASSUME ReadyInv, ReadyTypeOK', RunsAreFinite', Changed,
         \/ UNCHANGED <<pull, behind, runs, comments>>
         \/ UNCHANGED <<genuine, behind, runs, comments>>
         \/ UNCHANGED <<genuine, pull, runs, comments>>
         \/ UNCHANGED <<genuine, pull, behind, comments>>
         \/ UNCHANGED <<genuine, pull, behind, runs>>
  PROVE  ReadyInv'
<1>1. /\ reader' = reader /\ read' = read /\ readyEarly' = readyEarly
      /\ readyChanges' = readyChanges + 1 /\ reader \notin ReadyVerdicts
      /\ wasEligible' = (wasEligible \/ (reader # "begin" /\ Eligible'))
  BY DEF Changed
<1>2. ReadInTurn'
  BY <1>1 DEF ReadyInv, ReadInTurn
<1>3. EligibleIsEarned'
  BY <1>1 DEF EligibleIsEarned, ReadyIsExactAtRest, OneChangeCannotEnable, ReadyVerdicts
<1>4. readyChanges \in Nat /\ readyEarly \in Nat /\ readyEarly <= readyChanges
  BY ReadyAssumption DEF ReadyInv, ReadyTypeOK
<1>5. Quiet'
  BY <1>1, <1>4 DEF Quiet
<1>6. ASSUME Asking, readyChanges = readyEarly
      PROVE  \E g, p, b, r, c :
               /\ Explains(g, p, b, r, c)'
               /\ g /\ Passes(p, b[p.head], r[p.head], c) => wasEligible'
  <2>1. Explains(genuine, pull, behind, runs, comments) /\ (wasEligible <=> Eligible)
    BY <1>6 DEF ReadyInv, Quiet
  <2>2. reader # "begin"
    BY <1>6 DEF Asking, Gets
  <2>3. wasEligible \in BOOLEAN
    BY DEF ReadyInv, ReadyTypeOK
  <2>4. wasEligible' <=> (Eligible \/ Eligible')
    BY <1>1, <2>1, <2>2, <2>3, Zenon
  <2>5. genuine /\ Passes(pull, behind[pull.head], runs[pull.head], comments) => wasEligible'
    BY <2>4, EligibleMeans DEF ReadyInv
  <2>6. genuine' /\ Passes(pull', behind'[pull'.head], runs'[pull'.head], comments') => wasEligible'
    BY <2>4, EligibleMeansNext
  <2>7. \/ Explains(genuine, pull, behind, runs, comments)'
        \/ /\ IF reader = "repository" THEN genuine = genuine' ELSE genuine
           /\ IF "pull" \in DOMAIN read THEN read["pull"] = pull ELSE pull = pull'
           /\ IF "compare" \in DOMAIN read THEN read["compare"] = behind[pull.head] ELSE behind = behind'
           /\ IF "runs" \in DOMAIN read
              THEN read["runs"] = runs[pull.head] /\ Cardinality(runs[pull.head]) <= PageSize
              ELSE runs = runs'
           /\ comments = comments'
    <3>1. CASE UNCHANGED <<pull, behind, runs, comments>>
      BY <1>1, <2>1, <3>1 DEF Explains
    <3>2. CASE UNCHANGED <<genuine, behind, runs, comments>>
      BY <1>1, <2>1, <3>2 DEF Explains, ReadyInv, ReadInTurn
    <3>3. CASE UNCHANGED <<genuine, pull, runs, comments>>
      BY <1>1, <2>1, <3>3 DEF Explains
    <3>4. CASE UNCHANGED <<genuine, pull, behind, comments>>
      BY <1>1, <2>1, <3>4 DEF Explains
    <3>5. CASE UNCHANGED <<genuine, pull, behind, runs>>
      BY <1>1, <2>1, <3>5 DEF Explains
    <3>6. QED
      BY <3>1, <3>2, <3>3, <3>4, <3>5
  <2>8. CASE Explains(genuine, pull, behind, runs, comments)'
    <3>0. PICK g, p, b, r, c : g = genuine' /\ p = pull' /\ b = behind' /\ r = runs' /\ c = comments'
      OBVIOUS
    <3>1. /\ IF reader' = "repository" THEN g = genuine' ELSE g
          /\ IF "pull" \in DOMAIN read' THEN read'["pull"] = p ELSE p = pull'
          /\ IF "compare" \in DOMAIN read' THEN read'["compare"] = b[p.head] ELSE b = behind'
          /\ IF "runs" \in DOMAIN read'
             THEN read'["runs"] = r[p.head] /\ Cardinality(r[p.head]) <= PageSize
             ELSE r = runs'
          /\ c = comments'
      BY <2>8, <3>0 DEF Explains
    <3>2. g /\ Passes(p, b[p.head], r[p.head], c) => wasEligible'
      BY <2>6, <3>0
    <3>3. QED
      BY <3>1, <3>2 DEF Explains
  <2>9. CASE /\ IF reader = "repository" THEN genuine = genuine' ELSE genuine
             /\ IF "pull" \in DOMAIN read THEN read["pull"] = pull ELSE pull = pull'
             /\ IF "compare" \in DOMAIN read THEN read["compare"] = behind[pull.head] ELSE behind = behind'
             /\ IF "runs" \in DOMAIN read
                THEN read["runs"] = runs[pull.head] /\ Cardinality(runs[pull.head]) <= PageSize
                ELSE runs = runs'
             /\ comments = comments'
    <3>0. PICK g, p, b, r, c : g = genuine /\ p = pull /\ b = behind /\ r = runs /\ c = comments
      OBVIOUS
    <3>1. /\ IF reader' = "repository" THEN g = genuine' ELSE g
          /\ IF "pull" \in DOMAIN read' THEN read'["pull"] = p ELSE p = pull'
          /\ IF "compare" \in DOMAIN read' THEN read'["compare"] = b[p.head] ELSE b = behind'
          /\ IF "runs" \in DOMAIN read'
             THEN read'["runs"] = r[p.head] /\ Cardinality(r[p.head]) <= PageSize
             ELSE r = runs'
          /\ c = comments'
      BY <1>1, <2>9, <3>0
    <3>2. g /\ Passes(p, b[p.head], r[p.head], c) => wasEligible'
      BY <2>5, <3>0
    <3>3. QED
      BY <3>1, <3>2 DEF Explains
  <2>10. QED
    BY <2>7, <2>8, <2>9
<1>7. OneChange'
  <2>1. Asking' <=> Asking
    BY <1>1 DEF Asking
  <2>2. readyChanges' = readyEarly' + 1 <=> readyChanges = readyEarly
    BY <1>1, <1>4
  <2>3. QED
    BY <1>6, <2>1, <2>2, Zenon DEF OneChange
<1>8. QED
  BY <1>2, <1>3, <1>5, <1>7 DEF ReadyInv

\* The decision looks at the four answers only.
LEMMA DecisionReadsAnswers ==
  ASSUME NEW v
  PROVE  ready_decision(v) <=>
         ready_decision([pull |-> v["pull"], compare |-> v["compare"], runs |-> v["runs"],
                         comments |-> v["comments"]])
<1> DEFINE w == [pull |-> v["pull"], compare |-> v["compare"], runs |-> v["runs"],
                 comments |-> v["comments"]]
<1>1. /\ w["pull"] = v["pull"] /\ w["compare"] = v["compare"] /\ w["runs"] = v["runs"]
      /\ w["comments"] = v["comments"]
  OBVIOUS
<1> HIDE DEF w
<1>2. ready_decision(v) <=> ready_decision(w)
  BY <1>1 DEF ready_decision
<1>3. QED
  BY <1>2 DEF w

\* A GET between the first and the last: the answer joins what is explained,
\* or is refused because the listing did not fit its page.
LEMMA GetKeepsAccount ==
  ASSUME ReadyInv, ReadyTypeOK', RunsAreFinite', NEW g \in {"pull", "compare", "runs"}, ReadyGet(g)
  PROVE  ReadyInv'
<1> DEFINE answer == Answer(g)
           v == [x \in DOMAIN read \cup {g} |-> IF x = g THEN answer ELSE read[x]]
<1>1. /\ reader = g
      /\ reader' = IF Truncated(g, answer) THEN "refused" ELSE snapshot[g]
      /\ read' = IF reader' \in ReadyVerdicts THEN NoneAnswered ELSE v
      /\ readyEarly' = readyEarly /\ wasEligible' = wasEligible /\ readyChanges' = readyChanges
      /\ UNCHANGED world
  <2>1. g \in DOMAIN snapshot
    BY DEF snapshot
  <2>2. QED
    BY <2>1 DEF ReadyGet
<1>2. Eligible' <=> Eligible
  BY <1>1, SameWorld
<1>3. /\ genuine' = genuine /\ pull' = pull /\ behind' = behind /\ runs' = runs
      /\ comments' = comments
  BY <1>1 DEF world
<1>4. /\ g = "pull" => DOMAIN read = {} /\ answer = pull
      /\ g = "compare" => DOMAIN read = {"pull"} /\ answer = behind[read["pull"].head]
      /\ g = "runs" => DOMAIN read = {"pull", "compare"} /\ answer = runs[read["pull"].head]
      /\ g # "pull" => read["pull"] \in Pull
  BY <1>1 DEF ReadyInv, ReadInTurn, Answer
<1>5. Asking /\ g \in Gets
  BY <1>1 DEF Asking, Gets
<1>6. g = "runs" => Cardinality(answer) \in Nat
  BY <1>4, FS_CardinalityType DEF ReadyInv, RunsAreFinite, Pull
<1> HIDE DEF answer
<1>7. CASE Truncated(g, answer)
  <2>1. reader' = "refused" /\ DOMAIN read' = {}
    BY <1>1, <1>7 DEF NoneAnswered, ReadyVerdicts
  <2>2. g = "runs" /\ ~(Cardinality(answer) <= PageSize)
    BY <1>6, <1>7, ReadyAssumption DEF Truncated
  <2>3. ASSUME readyChanges = readyEarly  PROVE ~Eligible
    <3>1. Explains(genuine, pull, behind, runs, comments)
      BY <1>5, <2>3 DEF ReadyInv, Quiet
    <3>2. read["pull"] = pull
      BY <1>4, <2>2, <3>1 DEF Explains
    <3>3. ~Passes(pull, behind[pull.head], runs[pull.head], comments)
      BY <1>4, <2>2, <3>2 DEF Passes
    <3>4. QED
      BY <3>3, EligibleMeans DEF ReadyInv
  <2>4. EligibleIsEarned'
    BY <1>1, <1>2, <2>1, <2>3 DEF EligibleIsEarned, ReadyIsExactAtRest, OneChangeCannotEnable
  <2>5. ReadInTurn' /\ Quiet' /\ OneChange'
    BY <2>1 DEF ReadInTurn, Quiet, OneChange, Asking, Gets
  <2>6. QED
    BY <2>4, <2>5 DEF ReadyInv
<1>8. CASE ~Truncated(g, answer)
  <2>1. /\ reader' = snapshot[g]
        /\ reader' = (CASE g = "pull" -> "compare" [] g = "compare" -> "runs" [] g = "runs" -> "comments")
    BY <1>1, <1>8 DEF snapshot
  <2>2. reader' \notin ReadyVerdicts /\ reader' \in {"compare", "runs", "comments"}
    BY <2>1 DEF ReadyVerdicts
  <2>3. read' = v
    BY <1>1, <2>2
  <2>4. g = "runs" => Cardinality(answer) <= PageSize
    BY <1>6, <1>8, ReadyAssumption DEF Truncated
  <2>5. ReadInTurn'
    BY <1>3, <1>4, <2>1, <2>3 DEF ReadInTurn, ReadyInv, ReadyTypeOK
  <2>6. ASSUME NEW o, NEW p, NEW b, NEW r, NEW c,
               IF reader = "repository" THEN o = genuine ELSE o,
               IF "pull" \in DOMAIN read THEN read["pull"] = p ELSE p = pull,
               IF "compare" \in DOMAIN read THEN read["compare"] = b[p.head] ELSE b = behind,
               IF "runs" \in DOMAIN read
               THEN read["runs"] = r[p.head] /\ Cardinality(r[p.head]) <= PageSize
               ELSE r = runs,
               c = comments
        PROVE  /\ IF reader' = "repository" THEN o = genuine' ELSE o
               /\ IF "pull" \in DOMAIN read' THEN read'["pull"] = p ELSE p = pull'
               /\ IF "compare" \in DOMAIN read' THEN read'["compare"] = b[p.head] ELSE b = behind'
               /\ IF "runs" \in DOMAIN read'
                  THEN read'["runs"] = r[p.head] /\ Cardinality(r[p.head]) <= PageSize
                  ELSE r = runs'
               /\ c = comments'
    <3>1. CASE g = "pull"
      BY <1>1, <1>3, <1>4, <2>1, <2>3, <2>6, <3>1
    <3>2. CASE g = "compare"
      BY <1>1, <1>3, <1>4, <2>1, <2>3, <2>6, <3>2
    <3>3. CASE g = "runs"
      BY <1>1, <1>3, <1>4, <2>1, <2>3, <2>4, <2>6, <3>3
    <3>4. QED
      BY <3>1, <3>2, <3>3
  <2> HIDE DEF v
  <2>7. Quiet'
    <3> SUFFICES ASSUME readyChanges = readyEarly
                 PROVE  Explains(genuine, pull, behind, runs, comments)' /\ (wasEligible <=> Eligible)'
      BY <1>1 DEF Quiet
    <3>1. Explains(genuine, pull, behind, runs, comments) /\ (wasEligible <=> Eligible)
      BY <1>5 DEF ReadyInv, Quiet
    <3>2. PICK o, p, b, r, c : o = genuine /\ p = pull /\ b = behind /\ r = runs /\ c = comments
      OBVIOUS
    <3>3. Explains(o, p, b, r, c)
      BY <3>1, <3>2
    <3>4. Explains(genuine, pull, behind, runs, comments)'
      BY <1>3, <2>6, <3>2, <3>3 DEF Explains
    <3>5. QED
      BY <1>1, <1>2, <3>1, <3>4
  <2>8. OneChange'
    <3> SUFFICES ASSUME readyChanges = readyEarly + 1
                 PROVE  (\E o, p, b, r, c :
                           /\ Explains(o, p, b, r, c)
                           /\ o /\ Passes(p, b[p.head], r[p.head], c) => wasEligible)'
      BY <1>1 DEF OneChange
    <3>1. PICK o, p, b, r, c :
            /\ Explains(o, p, b, r, c)
            /\ o /\ Passes(p, b[p.head], r[p.head], c) => wasEligible
      BY <1>5 DEF ReadyInv, OneChange
    <3>2. /\ IF reader' = "repository" THEN o = genuine' ELSE o
          /\ IF "pull" \in DOMAIN read' THEN read'["pull"] = p ELSE p = pull'
          /\ IF "compare" \in DOMAIN read' THEN read'["compare"] = b[p.head] ELSE b = behind'
          /\ IF "runs" \in DOMAIN read'
             THEN read'["runs"] = r[p.head] /\ Cardinality(r[p.head]) <= PageSize
             ELSE r = runs'
          /\ c = comments'
      BY <2>6, <3>1 DEF Explains
    <3>3. o /\ Passes(p, b[p.head], r[p.head], c) => wasEligible'
      BY <1>1, <3>1
    <3>4. QED
      BY <3>2, <3>3 DEF Explains
  <2>9. EligibleIsEarned'
    BY <2>2 DEF EligibleIsEarned, ReadyIsExactAtRest, OneChangeCannotEnable, ReadyVerdicts
  <2>10. QED
    BY <2>5, <2>7, <2>8, <2>9 DEF ReadyInv
<1>9. QED
  BY <1>7, <1>8

\* The last answer and the verdict: the four answers are those of a world that
\* is explained, and the decision on them is the rule on it.
LEMMA LastGet ==
  ASSUME ReadyInv, ReadyGet("comments")
  PROVE  /\ reader' = IF ready_decision([pull |-> read["pull"], compare |-> read["compare"],
                                         runs |-> read["runs"], comments |-> comments])
                      THEN "eligible" ELSE "blocked"
         /\ DOMAIN read' = {} /\ reader = "comments"
         /\ readyEarly' = readyEarly /\ wasEligible' = wasEligible /\ readyChanges' = readyChanges
         /\ UNCHANGED world
<1> DEFINE v == [x \in DOMAIN read \cup {"comments"} |->
                   IF x = "comments" THEN comments ELSE read[x]]
<1>1. reader = "comments" /\ Answer("comments") = comments
  BY DEF ReadyGet, Answer
<1>2. ~Truncated("comments", comments) /\ "comments" \notin DOMAIN snapshot
  BY DEF Truncated, snapshot
<1>3. /\ reader' = IF ready_decision(v) THEN "eligible" ELSE "blocked"
      /\ read' = IF reader' \in ReadyVerdicts THEN NoneAnswered ELSE v
  BY <1>1, <1>2 DEF ReadyGet
<1>4. /\ v["pull"] = read["pull"] /\ v["compare"] = read["compare"]
      /\ v["runs"] = read["runs"] /\ v["comments"] = comments
  BY <1>1 DEF ReadyInv, ReadInTurn
<1> HIDE DEF v
<1>5. ready_decision(v) <=> ready_decision([pull |-> read["pull"], compare |-> read["compare"],
                                            runs |-> read["runs"], comments |-> comments])
  BY <1>4, DecisionReadsAnswers
<1>6. DOMAIN read' = {}
  <2>1. read' = NoneAnswered
    BY <1>3 DEF ReadyVerdicts
  <2>2. QED
    BY <2>1 DEF NoneAnswered
<1>7. /\ readyEarly' = readyEarly /\ wasEligible' = wasEligible /\ readyChanges' = readyChanges
      /\ UNCHANGED world
  BY DEF ReadyGet
<1>8. QED
  BY <1>1, <1>3, <1>5, <1>6, <1>7

\* The verdict is earned.
LEMMA LastAnswerDecides ==
  ASSUME ReadyInv, ReadyTypeOK', RunsAreFinite', ReadyGet("comments")
  PROVE  ReadyInv'
<1> DEFINE decision == ready_decision([pull |-> read["pull"], compare |-> read["compare"],
                                       runs |-> read["runs"], comments |-> comments])
<1>1. /\ reader' = IF decision THEN "eligible" ELSE "blocked"
      /\ DOMAIN read' = {} /\ reader = "comments"
      /\ readyEarly' = readyEarly /\ wasEligible' = wasEligible /\ readyChanges' = readyChanges
      /\ UNCHANGED world
  BY LastGet
<1>2. DOMAIN read = {"pull", "compare", "runs"} /\ Asking
  BY <1>1 DEF ReadyInv, ReadInTurn, Asking, Gets
<1>3. ASSUME NEW o, NEW p, NEW b, NEW r, NEW c, Explains(o, p, b, r, c)
      PROVE  o /\ (decision <=> Passes(p, b[p.head], r[p.head], c))
  <2>1. /\ read["pull"] = p /\ read["compare"] = b[p.head] /\ read["runs"] = r[p.head]
        /\ Cardinality(r[p.head]) <= PageSize /\ c = comments /\ o
    BY <1>1, <1>2, <1>3 DEF Explains
  <2>2. QED
    BY <2>1 DEF Passes
<1> HIDE DEF decision
<1>4. ASSUME readyChanges = readyEarly
      PROVE  decision <=> Eligible
  <2>1. Explains(genuine, pull, behind, runs, comments)
    BY <1>2, <1>4 DEF ReadyInv, Quiet
  <2>2. genuine /\ (decision <=> Passes(pull, behind[pull.head], runs[pull.head], comments))
    BY <1>3, <2>1
  <2>3. QED
    BY <2>2, EligibleMeans DEF ReadyInv
<1>5. ASSUME readyChanges = readyEarly, decision
      PROVE  wasEligible
  BY <1>2, <1>4, <1>5 DEF ReadyInv, Quiet
<1>6. ASSUME readyChanges = readyEarly + 1, decision
      PROVE  wasEligible
  <2>1. PICK o, p, b, r, c :
          /\ Explains(o, p, b, r, c)
          /\ o /\ Passes(p, b[p.head], r[p.head], c) => wasEligible
    BY <1>2, <1>6 DEF ReadyInv, OneChange
  <2>2. QED
    BY <1>3, <1>6, <2>1
<1>7. readyChanges \in Nat /\ readyEarly \in Nat /\ readyEarly <= readyChanges
  BY ReadyAssumption DEF ReadyInv, ReadyTypeOK
<1>8. Eligible' <=> Eligible
  BY <1>1, SameWorld
<1>9. ReadyIsExactAtRest'
  <2>1. CASE decision
    BY <1>1, <1>4, <1>8, <2>1 DEF ReadyIsExactAtRest
  <2>2. CASE ~decision
    BY <1>1, <1>4, <1>8, <2>2 DEF ReadyIsExactAtRest
  <2>3. QED
    BY <2>1, <2>2
<1>10. OneChangeCannotEnable'
  <2>1. CASE decision
    BY <1>1, <1>5, <1>6, <1>7, <2>1 DEF OneChangeCannotEnable
  <2>2. CASE ~decision
    BY <1>1, <2>2 DEF OneChangeCannotEnable
  <2>3. QED
    BY <2>1, <2>2
<1>11. ReadInTurn' /\ Quiet' /\ OneChange'
  <2>1. reader' \in {"eligible", "blocked"}
    BY <1>1
  <2>2. QED
    BY <1>1, <2>1 DEF ReadInTurn, Quiet, OneChange, Asking, Gets
<1>12. QED
  BY <1>9, <1>10, <1>11 DEF ReadyInv, EligibleIsEarned

\* The reads begin.
LEMMA BeginKeepsAccount ==
  ASSUME ReadyInv, ReadyTypeOK', RunsAreFinite', ReadyBegin
  PROVE  ReadyInv'
<1>1. /\ reader = "begin" /\ reader' = "repository" /\ read' = read
      /\ readyChanges' = readyChanges /\ readyEarly' = readyChanges /\ wasEligible' = Eligible
      /\ UNCHANGED world
  BY DEF ReadyBegin
<1>2. DOMAIN read = {}
  BY <1>1 DEF ReadyInv, ReadInTurn
<1>3. ReadInTurn'
  BY <1>1, <1>2 DEF ReadInTurn
<1>4. Quiet'
  <2>1. wasEligible' <=> Eligible'
    <3>1. (wasEligible' <=> Eligible)
      BY <1>1
    <3>2. QED
      BY <1>1, <3>1, SameWorld
  <2>2. Explains(genuine, pull, behind, runs, comments)'
    BY <1>1, <1>2 DEF Explains
  <2>3. QED
    BY <2>1, <2>2 DEF Quiet
<1>5. OneChange'
  <2>1. readyChanges \in Nat
    BY ReadyAssumption DEF ReadyInv, ReadyTypeOK
  <2>2. QED
    BY <1>1, <2>1 DEF OneChange
<1>6. EligibleIsEarned'
  BY <1>1 DEF EligibleIsEarned, ReadyIsExactAtRest, OneChangeCannotEnable
<1>7. QED
  BY <1>3, <1>4, <1>5, <1>6 DEF ReadyInv

\* verify_repository: the name may be another repository's.
LEMMA VerifyKeepsAccount ==
  ASSUME ReadyInv, ReadyTypeOK', RunsAreFinite', verify_repository
  PROVE  ReadyInv'
<1>1. /\ reader = "repository" /\ reader' = (IF genuine THEN "pull" ELSE "refused") /\ read' = read
      /\ readyChanges' = readyChanges /\ readyEarly' = readyEarly /\ wasEligible' = wasEligible
      /\ UNCHANGED world
  BY DEF verify_repository
<1>2. DOMAIN read = {} /\ Asking
  BY <1>1 DEF ReadyInv, ReadInTurn, Asking, Gets
<1>3. Eligible' <=> Eligible
  BY <1>1, SameWorld
<1>4. ReadInTurn'
  BY <1>1, <1>2 DEF ReadInTurn
<1>5. CASE genuine
  <2>1. reader' = "pull"
    BY <1>1, <1>5
  <2>2. Quiet'
    <3> SUFFICES ASSUME readyChanges = readyEarly
                 PROVE  Explains(genuine, pull, behind, runs, comments)' /\ (wasEligible <=> Eligible)'
      BY <1>1 DEF Quiet
    <3>1. wasEligible <=> Eligible
      BY <1>2 DEF ReadyInv, Quiet
    <3>2. genuine'
      BY <1>1, <1>5 DEF world
    <3>3. Explains(genuine, pull, behind, runs, comments)'
      BY <1>1, <1>2, <2>1, <3>2 DEF Explains
    <3>4. QED
      BY <1>1, <1>3, <3>1, <3>3
  <2>3. OneChange'
    <3> SUFFICES ASSUME readyChanges = readyEarly + 1
                 PROVE  (\E o, p, b, r, c :
                           /\ Explains(o, p, b, r, c)
                           /\ o /\ Passes(p, b[p.head], r[p.head], c) => wasEligible)'
      BY <1>1 DEF OneChange
    <3>1. PICK o, p, b, r, c :
            /\ Explains(o, p, b, r, c)
            /\ o /\ Passes(p, b[p.head], r[p.head], c) => wasEligible
      BY <1>2 DEF ReadyInv, OneChange
    <3>2. o /\ p = pull /\ b = behind /\ r = runs /\ c = comments
      BY <1>1, <1>2, <1>5, <3>1 DEF Explains
    <3>3. o /\ p = pull' /\ b = behind' /\ r = runs' /\ c = comments' /\ DOMAIN read' = {}
      BY <1>1, <1>2, <3>2 DEF world
    <3>4. o /\ Passes(p, b[p.head], r[p.head], c) => wasEligible'
      BY <1>1, <3>1
    <3>5. QED
      BY <2>1, <3>3, <3>4 DEF Explains
  <2>4. EligibleIsEarned'
    BY <2>1 DEF EligibleIsEarned, ReadyIsExactAtRest, OneChangeCannotEnable
  <2>5. QED
    BY <1>4, <2>2, <2>3, <2>4 DEF ReadyInv
<1>6. CASE ~genuine
  <2>1. reader' = "refused"
    BY <1>1, <1>6
  <2>2. ~Eligible
    BY <1>6 DEF Eligible
  <2>3. EligibleIsEarned'
    BY <1>3, <2>1, <2>2 DEF EligibleIsEarned, ReadyIsExactAtRest, OneChangeCannotEnable
  <2>4. Quiet' /\ OneChange'
    BY <2>1 DEF Quiet, OneChange, Asking, Gets
  <2>5. QED
    BY <1>4, <2>3, <2>4 DEF ReadyInv
<1>7. QED
  BY <1>5, <1>6

\* A step of the command keeps the types.
LEMMA ReaderKeepsTypes ==
  ASSUME ReadyInv,
         \/ ReadyBegin
         \/ verify_repository
         \/ \E g \in Gets \ {"repository"} : ReadyGet(g)
  PROVE  ReadyTypeOK' /\ RunsAreFinite'
<1> USE ReadyAssumption
<1>1. UNCHANGED world
  BY DEF ReadyBegin, verify_repository, ReadyGet
<1>2. RunsAreFinite'
  BY <1>1 DEF ReadyInv, RunsAreFinite, world
<1>3. /\ genuine' \in BOOLEAN /\ pull' \in Pull /\ behind' \in [Heads -> BOOLEAN]
      /\ (\A h \in Heads : runs[h] \subseteq Run)'
      /\ comments' \subseteq Comment
  BY <1>1 DEF ReadyInv, ReadyTypeOK, world
<1>4. readyChanges' = readyChanges /\ readyEarly' \in {readyEarly, readyChanges}
  BY DEF ReadyBegin, verify_repository, ReadyGet
<1>5. readyChanges' \in 0..MaxReadyChanges /\ readyEarly' \in 0..readyChanges'
  BY <1>4 DEF ReadyInv, ReadyTypeOK
<1>6. wasEligible' \in BOOLEAN
  BY DEF ReadyInv, ReadyTypeOK, ReadyBegin, verify_repository, ReadyGet, Eligible
<1>7. /\ reader' \in {"begin"} \cup Gets \cup ReadyVerdicts
      /\ DOMAIN read' \subseteq Gets
  <2>1. CASE ReadyBegin
    BY <2>1 DEF ReadyInv, ReadyTypeOK, ReadyBegin, Gets
  <2>2. CASE verify_repository
    BY <2>2 DEF ReadyInv, ReadyTypeOK, verify_repository, Gets, ReadyVerdicts
  <2>3. ASSUME NEW g \in Gets \ {"repository"}, ReadyGet(g)
        PROVE  /\ reader' \in {"begin"} \cup Gets \cup ReadyVerdicts
               /\ DOMAIN read' \subseteq Gets
    <3> DEFINE v == [x \in DOMAIN read \cup {g} |-> IF x = g THEN Answer(g) ELSE read[x]]
    <3>1. /\ reader' \in {"refused", "eligible", "blocked"} \cup {snapshot[x] : x \in DOMAIN snapshot}
          /\ read' \in {NoneAnswered, v}
      BY <2>3 DEF ReadyGet
    <3>2. DOMAIN v \subseteq Gets
      BY DEF ReadyInv, ReadyTypeOK
    <3>3. {snapshot[x] : x \in DOMAIN snapshot} \subseteq Gets
      BY DEF snapshot, Gets
    <3>4. DOMAIN NoneAnswered \subseteq Gets
      BY DEF NoneAnswered
    <3> HIDE DEF v
    <3>5. reader' \in {"begin"} \cup Gets \cup ReadyVerdicts
      BY <3>1, <3>3 DEF ReadyVerdicts
    <3>6. QED
      BY <3>1, <3>2, <3>4, <3>5
  <2>4. QED
    BY <2>1, <2>2, <2>3
<1>8. QED
  BY <1>2, <1>3, <1>5, <1>6, <1>7 DEF ReadyTypeOK

\* What every change does to the counters and the reader.
LEMMA ChangedKeepsTypes ==
  ASSUME ReadyTypeOK, Changed
  PROVE  /\ readyChanges' \in 0..MaxReadyChanges /\ readyEarly' \in 0..readyChanges'
         /\ reader' \in {"begin"} \cup Gets \cup ReadyVerdicts
         /\ DOMAIN read' \subseteq Gets /\ wasEligible' \in BOOLEAN
<1>1. readyChanges' \in 0..MaxReadyChanges /\ readyEarly' \in 0..readyChanges'
  BY ReadyAssumption DEF ReadyTypeOK, Changed
<1>2. reader' \in {"begin"} \cup Gets \cup ReadyVerdicts /\ DOMAIN read' \subseteq Gets
  BY DEF ReadyTypeOK, Changed
<1>3. wasEligible' \in BOOLEAN
  BY DEF Changed
<1>4. QED
  BY <1>1, <1>2, <1>3

\* A change of the pull request keeps its type.
LEMMA PullStaysPull ==
  ASSUME ReadyTypeOK, PullChanges
  PROVE  pull' \in Pull
<1>1. pull \in Pull
  BY DEF ReadyTypeOK
<1>2. CASE \E h \in Heads \ {pull.head} : pull' = [pull EXCEPT !.head = h]
  BY <1>1, <1>2 DEF Pull
<1>3. CASE \E body \in Bodies \ {pull.body} : pull' = [pull EXCEPT !.body = body]
  BY <1>1, <1>3 DEF Pull
<1>4. CASE pull' = [pull EXCEPT !.open = ~@]
  BY <1>1, <1>4 DEF Pull
<1>5. CASE pull' = [pull EXCEPT !.base = IF @ = "default" THEN "other" ELSE "default"]
  BY <1>1, <1>5 DEF Pull
<1>6. ASSUME NEW l \in Labels,
             pull' = [pull EXCEPT !.labels = IF l \in @ THEN @ \ {l} ELSE @ \cup {l}]
      PROVE  pull' \in Pull
  <2>1. pull.labels \in SUBSET Labels
    BY <1>1 DEF Pull
  <2>2. PICK labels \in SUBSET Labels : pull' = [pull EXCEPT !.labels = labels]
    <3>1. (IF l \in pull.labels THEN pull.labels \ {l} ELSE pull.labels \cup {l}) \in SUBSET Labels
      BY <2>1
    <3>2. QED
      BY <1>6, <3>1
  <2>3. QED
    BY <1>1, <2>2 DEF Pull
<1>7. QED
  BY <1>2, <1>3, <1>4, <1>5, <1>6 DEF PullChanges

\* A change of the runs of a head leaves finitely many runs there.
LEMMA RunsStayRuns ==
  ASSUME ReadyTypeOK, RunsAreFinite, NEW h \in Heads, RunChanges(h)
  PROVE  RunsAreFinite'
<1>1. runs[h] \subseteq Run /\ IsFiniteSet(runs[h])
  BY DEF RunsAreFinite
<1>2. PICK new : runs' = [runs EXCEPT ![h] = new] /\ new \subseteq Run /\ IsFiniteSet(new)
  <2>1. ASSUME NEW r \in runs[h], NEW state \in RunStates,
               runs' = [runs EXCEPT ![h] = (@ \ {r}) \cup {[r EXCEPT !.state = state]}]
        PROVE  \E new : runs' = [runs EXCEPT ![h] = new] /\ new \subseteq Run /\ IsFiniteSet(new)
    <3> DEFINE new == (runs[h] \ {r}) \cup {[r EXCEPT !.state = state]}
    <3>1. [r EXCEPT !.state = state] \in Run
      BY <1>1, <2>1 DEF Run
    <3>2. new \subseteq Run
      BY <1>1, <3>1
    <3>3. IsFiniteSet(new)
      BY <1>1, FS_RemoveElement, FS_AddElement
    <3>4. runs' = [runs EXCEPT ![h] = new]
      BY <2>1
    <3> HIDE DEF new
    <3>5. QED
      BY <3>2, <3>3, <3>4
  <2>2. ASSUME NEW name \in RequiredNames \cup {"other"}, NEW state \in {"success", "running"},
               runs' = [runs EXCEPT ![h] = @ \cup {[name |-> name, app |-> "foreign", state |-> state]}]
        PROVE  \E new : runs' = [runs EXCEPT ![h] = new] /\ new \subseteq Run /\ IsFiniteSet(new)
    <3> DEFINE new == runs[h] \cup {[name |-> name, app |-> "foreign", state |-> state]}
    <3>1. [name |-> name, app |-> "foreign", state |-> state] \in Run
      BY DEF Run, RunStates, Conclusions
    <3>2. new \subseteq Run
      BY <1>1, <3>1
    <3>3. IsFiniteSet(new)
      BY <1>1, FS_AddElement
    <3>4. runs' = [runs EXCEPT ![h] = new]
      BY <2>2
    <3> HIDE DEF new
    <3>5. QED
      BY <3>2, <3>3, <3>4
  <2>3. QED
    BY <2>1, <2>2 DEF RunChanges
<1>3. QED
  BY <1>2 DEF RunsAreFinite

\* A comment added is a comment.
LEMMA CommentsStayComments ==
  ASSUME ReadyTypeOK, CommentChanges
  PROVE  comments' \subseteq Comment
<1>1. Posts \subseteq Comment
  <2>1. \A h \in Heads : /\ [Approval(h) EXCEPT !.app = FALSE] \in Comment
                         /\ [Approval(h) EXCEPT !.canonical = FALSE] \in Comment
    BY DEF Approval, Comment
  <2>2. QED
    BY <2>1 DEF Posts
<1>2. comments \subseteq Comment
  BY DEF ReadyTypeOK
<1>3. QED
  BY <1>1, <1>2 DEF CommentChanges

\* A change keeps the invariant.
LEMMA WorldKeepsReadyInv ==
  ASSUME ReadyInv,
         \/ PullChanges \/ MainAdvances \/ (\E h \in Heads : RunChanges(h))
         \/ CommentChanges \/ NameIsTaken
  PROVE  ReadyInv'
<1>1. ReadyTypeOK /\ RunsAreFinite
  BY DEF ReadyInv
<1>2. Changed
  BY DEF PullChanges, MainAdvances, RunChanges, CommentChanges, NameIsTaken
<1>3. CASE PullChanges
  <2>1. UNCHANGED <<genuine, behind, runs, comments>>
    BY <1>3 DEF PullChanges
  <2>2. RunsAreFinite'
    BY <1>1, <2>1 DEF RunsAreFinite
  <2>3. ReadyTypeOK'
    BY <1>1, <1>2, <1>3, <2>1, PullStaysPull, ChangedKeepsTypes DEF ReadyTypeOK
  <2>4. QED
    BY <1>2, <2>1, <2>2, <2>3, ChangeKeepsAccount
<1>4. CASE MainAdvances
  <2>1. UNCHANGED <<genuine, pull, runs, comments>> /\ behind' \in [Heads -> BOOLEAN]
    BY <1>4 DEF MainAdvances
  <2>2. RunsAreFinite'
    BY <1>1, <2>1 DEF RunsAreFinite
  <2>3. ReadyTypeOK'
    BY <1>1, <1>2, <2>1, ChangedKeepsTypes DEF ReadyTypeOK
  <2>4. QED
    BY <1>2, <2>1, <2>2, <2>3, ChangeKeepsAccount
<1>5. ASSUME NEW h \in Heads, RunChanges(h)
      PROVE  ReadyInv'
  <2>1. UNCHANGED <<genuine, pull, behind, comments>>
    BY <1>5 DEF RunChanges
  <2>2. RunsAreFinite'
    BY <1>1, <1>5, RunsStayRuns
  <2>3. ReadyTypeOK'
    BY <1>1, <1>2, <2>1, <2>2, ChangedKeepsTypes DEF ReadyTypeOK, RunsAreFinite
  <2>4. QED
    BY <1>2, <2>1, <2>2, <2>3, ChangeKeepsAccount
<1>6. CASE CommentChanges
  <2>1. UNCHANGED <<genuine, pull, behind, runs>>
    BY <1>6 DEF CommentChanges
  <2>2. RunsAreFinite'
    BY <1>1, <2>1 DEF RunsAreFinite
  <2>3. ReadyTypeOK'
    BY <1>1, <1>2, <1>6, <2>1, CommentsStayComments, ChangedKeepsTypes DEF ReadyTypeOK
  <2>4. QED
    BY <1>2, <2>1, <2>2, <2>3, ChangeKeepsAccount
<1>7. CASE NameIsTaken
  <2>1. UNCHANGED <<pull, behind, runs, comments>> /\ genuine' \in BOOLEAN
    BY <1>7 DEF NameIsTaken
  <2>2. RunsAreFinite'
    BY <1>1, <2>1 DEF RunsAreFinite
  <2>3. ReadyTypeOK'
    BY <1>1, <1>2, <2>1, ChangedKeepsTypes DEF ReadyTypeOK
  <2>4. QED
    BY <1>2, <2>1, <2>2, <2>3, ChangeKeepsAccount
<1>8. QED
  BY <1>3, <1>4, <1>5, <1>6, <1>7

\* Every step keeps it.
LEMMA ReadyStepInv == ReadyInv /\ [ReadyNext]_readyVars => ReadyInv'
<1> SUFFICES ASSUME ReadyInv, [ReadyNext]_readyVars
             PROVE  ReadyInv'
  OBVIOUS
<1>1. CASE ReadyBegin
  BY <1>1, ReaderKeepsTypes, BeginKeepsAccount
<1>2. CASE verify_repository
  BY <1>2, ReaderKeepsTypes, VerifyKeepsAccount
<1>3. ASSUME NEW g \in Gets \ {"repository"}, ReadyGet(g)
      PROVE  ReadyInv'
  <2>1. ReadyTypeOK' /\ RunsAreFinite'
    BY <1>3, ReaderKeepsTypes
  <2>2. CASE g = "comments"
    BY <1>3, <2>1, <2>2, LastAnswerDecides
  <2>3. CASE g \in {"pull", "compare", "runs"}
    BY <1>3, <2>1, <2>3, GetKeepsAccount
  <2>4. QED
    BY <2>2, <2>3 DEF Gets
<1>4. CASE \/ PullChanges \/ MainAdvances \/ (\E h \in Heads : RunChanges(h))
           \/ CommentChanges \/ NameIsTaken
  BY <1>4, WorldKeepsReadyInv
<1>5. CASE UNCHANGED readyVars
  <2>1. Eligible' <=> Eligible
    BY <1>5, SameWorld DEF readyVars, world
  <2>2. ReadyTypeOK' /\ RunsAreFinite' /\ ReadInTurn'
    BY <1>5 DEF readyVars, ReadyInv, ReadyTypeOK, RunsAreFinite, ReadInTurn
  <2>3. EligibleIsEarned'
    BY <1>5, <2>1 DEF readyVars, ReadyInv, EligibleIsEarned, ReadyIsExactAtRest, OneChangeCannotEnable
  <2>4. Quiet'
    BY <1>5, <2>1 DEF readyVars, ReadyInv, Quiet, Asking, Explains
  <2>5. OneChange'
    BY <1>5 DEF readyVars, ReadyInv, OneChange, Asking, Explains
  <2>6. QED
    BY <2>2, <2>3, <2>4, <2>5 DEF ReadyInv
<1>6. QED
  BY <1>1, <1>2, <1>3, <1>4, <1>5 DEF ReadyNext

\* The ready check keeps its account of the world in every reachable state,
\* for any heads, bodies, required checks, page size and number of changes.
THEOREM ReadyInvariant == ReadySpec => []ReadyInv
<1>1. ReadyInit => ReadyInv
  BY ReadyInitInv
<1>2. ReadyInv /\ [ReadyNext]_readyVars => ReadyInv'
  BY ReadyStepInv
<1>3. QED
  BY <1>1, <1>2, PTL DEF ReadySpec

\* Every variable of the ready check has its type.
\* (ready_check.py, ReadySnapshot)
THEOREM ReadyTypes == ReadySpec => []ReadyTypeOK
<1>1. ReadyInv => ReadyTypeOK
  BY DEF ReadyInv
<1>2. QED
  BY <1>1, ReadyInvariant, PTL

\* ELIGIBLE is said of a state the pull request was in: of the present one
\* while nothing changes, and of the one before or after a single change.
\* (ready_check.py, snapshot and ready_decision)
THEOREM EligibleIsAlwaysEarned == ReadySpec => []EligibleIsEarned
<1>1. ReadyInv => EligibleIsEarned
  BY DEF ReadyInv
<1>2. QED
  BY <1>1, ReadyInvariant, PTL

\* The step that says ELIGIBLE leaves no objection at the judged head, however
\* much has changed since the reads began.
\* (ready_check.py, ready_decision)
THEOREM NoObjectionIsOvertaken == ReadySpec => NoStandingObjection
<1>1. ASSUME ReadyInv, [ReadyNext]_readyVars, reader' = "eligible", reader # "eligible"
      PROVE  \A c \in receipts(comments, read["pull"].head) : c.verdict = "APPROVE"
  <2>1. ReadyGet("comments")
    <3>1. ~Changed
      BY <1>1 DEF Changed
    <3>2. ~UNCHANGED readyVars /\ ~ReadyBegin /\ ~verify_repository
      BY <1>1 DEF readyVars, ReadyBegin, verify_repository
    <3>3. ASSUME NEW g \in {"pull", "compare", "runs"}, ReadyGet(g)
          PROVE  FALSE
      <4>1. reader' \in {"refused", snapshot[g]}
        BY <3>3 DEF ReadyGet, snapshot
      <4>2. snapshot[g] # "eligible"
        BY DEF snapshot
      <4>3. QED
        BY <1>1, <4>1, <4>2
    <3>4. PICK g \in Gets \ {"repository"} : ReadyGet(g)
      BY <1>1, <3>1, <3>2
         DEF ReadyNext, PullChanges, MainAdvances, RunChanges, CommentChanges, NameIsTaken
    <3>5. g \in {"pull", "compare", "runs", "comments"}
      BY DEF Gets
    <3>6. QED
      BY <3>3, <3>4, <3>5
  <2> DEFINE v == [pull |-> read["pull"], compare |-> read["compare"],
                   runs |-> read["runs"], comments |-> comments]
  <2>2. ready_decision(v)
    BY <1>1, <2>1, LastGet
  <2>3. /\ \A c \in receipts(comments, read["pull"].head) : ~body_differs(c, read["pull"].body)
        /\ verdicts(comments, read["pull"].head, read["pull"].body) = {"APPROVE"}
    BY <2>2 DEF ready_decision
  <2>4. QED
    BY <2>3 DEF verdicts
<1>2. QED
  BY <1>1, ReadyInvariant, PTL DEF ReadySpec, NoStandingObjection
================================================================================

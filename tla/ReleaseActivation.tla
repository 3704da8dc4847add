--------------------------- MODULE ReleaseActivation ---------------------------
(***************************************************************************)
(* The release state kept in Git, and the two gates that judge it: the     *)
(* checks of a pull request, over one commit that cannot move, and         *)
(* release-gate.sh, which reads the working tree file after file while     *)
(* somebody may still be editing it.                                       *)
(*                                                                         *)
(* A tree is a record with what the gates tell apart.  Contracts stands for*)
(* the parts of check_kubernetes that compare text with a fixed form and   *)
(* that no other check looks at: a tree keeps each of them or not.         *)
(***************************************************************************)
EXTENDS Naturals

CONSTANTS
    PUBLIC_CONNECTOR_SITES,   \* one connector each
    EvidenceOf,               \* REVIEWED_NAMESPACE_CAPACITY: namespace -> its document
    MaxEdits                  \* bound: edits of the working tree

\* At least two: of a single connector one edit makes all into none.
ASSUME SitesAssumption == \E a, b \in PUBLIC_CONNECTOR_SITES : a # b
ASSUME EditsAssumption == MaxEdits \in Nat

VARIABLES
    work,       \* the working tree
    edits,      \* edits of it so far
    main,       \* the tree of main
    pc,         \* the next read of the local gate, "idle", "pass" or "refused"
    lane,       \* the mode the local gate was asked for
    seen,       \* read -> what it returned
    began,      \* edits that came before the gate began
    wasFit    \* history: the checks accepted the tree at some moment since then

vars == <<work, edits, main, pc, lane, seen, began, wasFit>>

Namespaces == DOMAIN EvidenceOf
Documents  == {EvidenceOf[ns] : ns \in Namespaces}
Versions   == 1..2                \* of an evidence document
Modes      == {"scaffold", "transition", "release"}
Contracts  == {"manifests", "source patch", "components", "default deny", "egress",
               "bootstrap"}
Quota      == [hash : Versions, ready : BOOLEAN, hard : BOOLEAN]

Tree == [suspend : BOOLEAN, tokens : SUBSET PUBLIC_CONNECTOR_SITES, canonical : BOOLEAN,
         inventory : BOOLEAN, aggregate : BOOLEAN, kept : SUBSET Contracts,
         sentinel : BOOLEAN, pins : BOOLEAN, components : BOOLEAN, wired : BOOLEAN,
         document : [Documents -> Versions], quota : [Namespaces -> Quota]]

(***************************************************************************)
(* What one read sees of the tree.                                         *)
(***************************************************************************)
Sees(e, t) ==
    CASE e \in {"parent", "plan parent"} -> [aggregate |-> t.aggregate]
      [] e \in {"inventory", "plan inventory"} -> [inventory |-> t.inventory]
      [] e \in {"release", "signal", "claim", "plan release", "values", "build"}
           -> [suspend |-> t.suspend, tokens |-> t.tokens, canonical |-> t.canonical,
               aggregate |-> t.aggregate]
      [] e = "install"
           -> [pins |-> t.pins, components |-> t.components, sentinel |-> t.sentinel]
      [] e = "documents" -> [document |-> t.document]
      [] e = "quotas" -> [quota |-> t.quota, wired |-> t.wired,
                          bootstrap |-> "bootstrap" \in t.kept]

Reads == {"parent", "release", "inventory", "signal", "install", "claim", "documents",
          "quotas", "plan parent", "plan release", "plan inventory", "values", "build"}

\* One commit: every read returns the same tree.
AtOnce(t) == [e \in Reads |-> Sees(e, t)]

(***************************************************************************)
(* validate_release_state: the parent of the connector is always suspended,*)
(* for it has no manifest; a retired aggregate is refused.                 *)
(***************************************************************************)
RELEASE_CONTRACTS == [parent |-> "none", bootstrap_parent |-> FALSE]

load_parent_suspension ==
    RELEASE_CONTRACTS.parent = "none" /\ ~RELEASE_CONTRACTS.bootstrap_parent

load_helm_release(r) == r.canonical

(***************************************************************************)
(* validate_release_transition: the phase of the connector, and the mode.  *)
(***************************************************************************)
_require_secretless_public_release(i) == i.inventory

\* Mutant of _cloudflare_phase: suspension is not looked at.
PhaseByTokens(r, i) ==
    CASE ~load_helm_release(r) \/ ~_require_secretless_public_release(i) -> "unsafe"
      [] load_helm_release(r) /\ i.inventory /\ r.tokens = {} -> "initial"
      [] load_helm_release(r) /\ i.inventory /\ r.tokens = PUBLIC_CONNECTOR_SITES -> "staged"
      [] OTHER -> "unsafe"

_cloudflare_phase(r, i) ==
    LET readable   == /\ load_helm_release(r) /\ _require_secretless_public_release(i)
                      /\ r.tokens \in {{}, PUBLIC_CONNECTOR_SITES}
        configured == r.tokens = PUBLIC_CONNECTOR_SITES
    IN  CASE readable /\ r.suspend /\ ~configured -> "initial"
          [] readable /\ r.suspend /\ configured  -> "staged"
          [] readable /\ ~r.suspend /\ configured /\ ~load_parent_suspension -> "active"
          [] OTHER -> "unsafe"

classify(p, r, i) ==
    LET phase == _cloudflare_phase(r, i) IN
    [phase |-> phase,
     mode  |-> IF p.aggregate \/ phase = "unsafe" THEN "unsafe"
               ELSE CASE phase = "initial" /\ load_parent_suspension -> "scaffold"
                      [] phase = "active" /\ ~load_parent_suspension -> "release"
                      [] OTHER                                       -> "transition"]

any_workload_active(plan) == plan.phase = "active" \/ ~load_parent_suspension

(***************************************************************************)
(* validate_repository: the contracts of the controllers ...               *)
(***************************************************************************)
reviewed_source_patch_errors(t) == {"source patch"} \ t.kept

\* Without the generated file there is nothing to compare.
flux_components_errors(t) == IF t.components THEN {"components"} \ t.kept ELSE {}

\* The inventory of the root is exactly its two files.
platform_prerequisite_contract_errors(t) ==
    ({"default deny"} \ t.kept) \cup (IF t.wired THEN {} ELSE {"prerequisites"})

\* Mutant of flux_egress_contract_errors: a resolved address is let through.
EgressWithoutSentinel(t) == {"egress"} \ t.kept

\* The committed policy must keep the unresolved address of the API server.
flux_egress_contract_errors(t) ==
    ({"egress"} \ t.kept) \cup (IF t.sentinel THEN {} ELSE {"no sentinel"})

signed_chart_source_errors(bootstrap) == IF bootstrap THEN {} ELSE {"bootstrap"}

check_kubernetes(t) ==
    UNION {{"manifests"} \ t.kept, reviewed_source_patch_errors(t),
           flux_components_errors(t), platform_prerequisite_contract_errors(t),
           flux_egress_contract_errors(t), signed_chart_source_errors("bootstrap" \in t.kept)}

(***************************************************************************)
(* ... the budgets, each bound to the bytes of its evidence document ...   *)
(***************************************************************************)
HashMatches(d, q, ns) == q.quota[ns].hash = d.document[EvidenceOf[ns]]

reviewed_capacity_errors(d, q, evidence_only) ==
    {e \in {"hash", "budget", "not reconciled"} :
        \/ e = "hash" /\ \E ns \in Namespaces : ~HashMatches(d, q, ns)
        \/ /\ ~evidence_only
           /\ \/ e = "budget" /\ \E ns \in Namespaces : ~(q.quota[ns].ready /\ q.quota[ns].hard)
              \/ e = "not reconciled" /\ ~q.wired}

(***************************************************************************)
(* ... and the claim of a release.                                         *)
(***************************************************************************)
ClaimErrors(r) ==
    IF ~load_helm_release(r) \/ r.aggregate THEN {"unreadable"}
    ELSE {e \in {"suspended", "unresolved token", "parent suspended"} :
             \/ e = "suspended" /\ r.suspend
             \/ e = "unresolved token" /\ r.tokens # PUBLIC_CONNECTOR_SITES
             \/ e = "parent suspended" /\ load_parent_suspension}

check_release(s) ==
    UNION {{e \in {"pins", "components missing", "sentinel"} :
               \/ e = "pins" /\ ~s["install"].pins
               \/ e = "components missing" /\ ~s["install"].components
               \/ e = "sentinel" /\ s["install"].sentinel},
           ClaimErrors(s["claim"]),
           signed_chart_source_errors(s["quotas"].bootstrap),
           reviewed_capacity_errors(s["documents"], s["quotas"], FALSE)}

\* A release that cannot be read is an activation too.
activation_requested(r) == ~load_helm_release(r) \/ ~r.suspend

_allowed_transition_release_errors(plan) ==
    {"sentinel"}
    \cup (IF plan.phase # "active" THEN {"suspended", "parent suspended"} ELSE {})
    \cup (IF plan.phase = "initial" THEN {"unresolved token"} ELSE {})

Plan(s) == classify(s["parent"], s["release"], s["inventory"])

\* Mutant of EvidenceErrors: the scaffold is not asked for its evidence.
NoEvidenceErrors(s) == {}

EvidenceErrors(s) == reviewed_capacity_errors(s["documents"], s["quotas"], TRUE)

\* The full contract is asked for only when something is, or seems, active.
AsksRelease(plan, s) ==
    \/ plan.mode = "release"
    \/ plan.mode = "transition"
          /\ (any_workload_active(plan) \/ activation_requested(s["signal"]))

check_activation(s) ==
    LET plan == Plan(s) IN
    CASE plan.mode = "unsafe" -> {"unsafe"}
      [] plan.mode = "scaffold" ->
           (IF activation_requested(s["signal"]) THEN {"signal"} ELSE {}) \cup EvidenceErrors(s)
      [] plan.mode = "release" -> check_release(s)
      [] plan.mode = "transition" /\ AsksRelease(plan, s) ->
           check_release(s) \ _allowed_transition_release_errors(plan)
      [] OTHER -> {}

(***************************************************************************)
(* render-manifests: the mode is classified again, and the policies judge  *)
(* what was rendered.                                                      *)
(***************************************************************************)
PlanExpects(s, mode) ==
    classify(s["plan parent"], s["plan release"], s["plan inventory"]).mode = mode

Judged(s, mode) ==
    CASE mode = "scaffold"   -> s["build"].suspend
      [] mode = "transition" -> /\ load_helm_release(s["values"])
                                /\ s["values"].tokens = PUBLIC_CONNECTOR_SITES
      [] mode = "release"    -> ~s["build"].suspend

\* What the gate for one mode accepts, of one commit.
Sound(t, mode) ==
    /\ check_kubernetes(t) = {} /\ check_activation(AtOnce(t)) = {}
    /\ PlanExpects(AtOnce(t), mode) /\ Judged(AtOnce(t), mode)

(***************************************************************************)
(* What the modes promise, stated of a tree and of nothing the gates call. *)
(***************************************************************************)
Fit(t, mode) ==
    /\ Contracts \ (IF t.components THEN {} ELSE {"components"}) \subseteq t.kept
    /\ t.sentinel /\ t.wired /\ t.canonical /\ t.inventory /\ ~t.aggregate
    /\ t.suspend
    /\ \/ /\ mode = "scaffold" /\ t.tokens = {}
          /\ \A ns \in Namespaces : t.quota[ns].hash = t.document[EvidenceOf[ns]]
       \/ mode = "transition" /\ t.tokens = PUBLIC_CONNECTOR_SITES

\* The pull request takes the mode the tree selects.
Accepted(t) == \E mode \in Modes : Sound(t, mode)
(***************************************************************************)
(* The working tree and main.                                              *)
(***************************************************************************)
CommittedTree ==
    [suspend |-> TRUE, tokens |-> {}, canonical |-> TRUE, inventory |-> TRUE,
     aggregate |-> FALSE, kept |-> Contracts, sentinel |-> TRUE, pins |-> TRUE,
     components |-> TRUE, wired |-> TRUE, document |-> [d \in Documents |-> 1],
     quota |-> [ns \in Namespaces |-> [hash |-> 1, ready |-> TRUE, hard |-> TRUE]]]

\* One field of the tree changes.
EditsOf(t) ==
    {[t EXCEPT !.suspend = ~@], [t EXCEPT !.canonical = ~@], [t EXCEPT !.inventory = ~@],
     [t EXCEPT !.aggregate = ~@], [t EXCEPT !.sentinel = ~@], [t EXCEPT !.pins = ~@],
     [t EXCEPT !.components = ~@], [t EXCEPT !.wired = ~@]}
    \cup {[t EXCEPT !.tokens = IF site \in @ THEN @ \ {site} ELSE @ \cup {site}] :
             site \in PUBLIC_CONNECTOR_SITES}
    \cup {[t EXCEPT !.kept = IF c \in @ THEN @ \ {c} ELSE @ \cup {c}] : c \in Contracts}
    \cup {[t EXCEPT !.document[d] = 3 - @] : d \in Documents}
    \cup UNION {{[t EXCEPT !.quota[ns].hash = 3 - @], [t EXCEPT !.quota[ns].ready = ~@],
                 [t EXCEPT !.quota[ns].hard = ~@]} : ns \in Namespaces}

Init ==
    /\ work = CommittedTree /\ main = CommittedTree /\ edits = 0
    /\ pc = "idle" /\ lane = "scaffold" /\ seen = <<>> /\ began = 0 /\ wasFit = FALSE

Edit ==
    /\ edits < MaxEdits /\ pc \notin {"pass", "refused"}
    /\ edits' = edits + 1
    /\ work' \in EditsOf(work)
    /\ wasFit' = (wasFit \/ (pc # "idle" /\ Fit(work', lane)))
    /\ UNCHANGED <<main, pc, lane, seen, began>>

\* The branch is up to date with main: what the checks judged is what lands.
Merge ==
    /\ pc = "idle" /\ work # main
    /\ Accepted(work)
    /\ main' = work
    /\ UNCHANGED <<work, edits, pc, lane, seen, began, wasFit>>

(***************************************************************************)
(* The local gate.                                                         *)
(***************************************************************************)
Begin(mode) ==
    /\ pc = "idle"
    /\ pc' = "kubernetes" /\ lane' = mode
    /\ began' = edits
    /\ wasFit' = Fit(work, mode)
    /\ UNCHANGED <<work, edits, main, seen>>

CheckKubernetes ==
    /\ pc = "kubernetes"
    /\ pc' = IF check_kubernetes(work) = {} THEN "parent" ELSE "refused"
    /\ UNCHANGED <<work, edits, main, lane, seen, began, wasFit>>

\* Where the gate goes once read e is among the reads of s.
After(e, s) ==
    CASE e = "parent"    -> "release"
      [] e = "release"   -> "inventory"
      [] e = "inventory" -> IF Plan(s).mode = "unsafe" THEN "refused" ELSE "signal"
      [] e = "signal"    -> IF AsksRelease(Plan(s), s) THEN "install"
                            ELSE IF Plan(s).mode = "scaffold" THEN "documents"
                            ELSE "plan parent"
      [] e = "install"   -> "claim"
      [] e = "claim"     -> "documents"
      [] e = "documents" -> "quotas"
      [] e = "quotas"    -> IF check_activation(s) = {} THEN "plan parent" ELSE "refused"
      [] e = "plan parent"    -> "plan release"
      [] e = "plan release"   -> "plan inventory"
      [] e = "plan inventory" -> IF ~PlanExpects(s, lane) THEN "refused"
                                 ELSE IF lane = "scaffold" THEN "build" ELSE "values"
      [] e = "values"    -> IF load_helm_release(s["values"]) THEN "build" ELSE "refused"
      [] e = "build"     -> IF Judged(s, lane) THEN "pass" ELSE "refused"

\* The renderer is a program of its own: it keeps nothing of what the checks read.
Read(e) ==
    /\ pc = e
    /\ LET s == [x \in DOMAIN seen \cup {e} |-> IF x = e THEN Sees(e, work) ELSE seen[x]] IN
       /\ pc' = After(e, s)
       /\ seen' = IF pc' \in {"plan parent", "pass", "refused"} THEN <<>> ELSE s
    /\ UNCHANGED <<work, edits, main, lane, began, wasFit>>

Next ==
    \/ Edit
    \/ Merge
    \/ \E mode \in {"scaffold", "transition"} : Begin(mode)
    \/ CheckKubernetes
    \/ \E e \in Reads : Read(e)

Spec == Init /\ [][Next]_vars

-----------------------------------------------------------------------------
\* Type correctness.
TypeOK ==
    /\ work \in Tree /\ main \in Tree
    /\ edits \in 0..MaxEdits /\ began \in 0..edits
    /\ pc \in {"idle", "kubernetes", "pass", "refused"} \cup Reads
    /\ lane \in Modes /\ wasFit \in BOOLEAN
    /\ DOMAIN seen \subseteq Reads

\* Whatever is merged in whatever order, main never holds a release that would
\* run: it stays suspended, the connectors are configured together or not at
\* all, and the inventory of the release stays closed.
MainStaysInert ==
    /\ main.suspend /\ main.inventory /\ ~main.aggregate
    /\ main.tokens \in {{}, PUBLIC_CONNECTOR_SITES}

\* While nothing is configured, no budget of main rests on evidence whose
\* document has been edited since.
ScaffoldBindsEvidence ==
    main.tokens = {} =>
        \A ns \in Namespaces : main.quota[ns].hash = main.document[EvidenceOf[ns]]

\* reviewed_capacity_errors: an edited evidence document with every stored hash
\* untouched does not pass the gate of a pull request.
EvidenceIsBound ==
    \A ns \in Namespaces : main.quota[ns].hash = main.document[EvidenceOf[ns]]

\* While the tree rests the local gate passes it for exactly the mode it is fit
\* for, and the same trees are the ones main takes.
UndisturbedGateAgrees ==
    /\ pc = "pass" /\ edits = began => Fit(work, lane)
    /\ pc = "refused" /\ edits = began => ~Fit(work, lane)
    /\ pc = "idle" => (Accepted(work) <=> \E mode \in Modes : Fit(work, mode))

\* One edit during the gate cannot forge a pass: there was a moment at which
\* the checks accepted the tree for this mode.
OneEditCannotForge == pc = "pass" /\ edits <= began + 1 => wasFit

\* The gate judges a state the tree was in.
VerdictIsEarned == UndisturbedGateAgrees /\ OneEditCannotForge

===============================================================================

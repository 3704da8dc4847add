-------------------------- MODULE RepositorySettings --------------------------
(***************************************************************************)
(* observe_live_settings: the owner-run observation of the repository's    *)
(* protection settings, one GET after the other, while the settings may    *)
(* change between two of them; and the validators that turn what was read  *)
(* into a receipt or a refusal.                                            *)
(*                                                                         *)
(* External: GitHub's settings, a record whose fields are the controls the *)
(* receipt is about.  A rule is plain when it has no parameter that weakens*)
(* it.  Ids are never used twice.                                          *)
(***************************************************************************)
EXTENDS Naturals, Sequences, FiniteSets

CONSTANT MaxChanges   \* bound: changes of the settings

ASSUME ChangesAssumption == MaxChanges \in Nat

VARIABLES
    settings,   \* the live settings
    lastId,     \* the last ruleset id given out
    changes,    \* changes so far
    endpoint,   \* the next endpoint of the observation, or its verdict
    responses,  \* endpoint -> what its GET returned
    early,      \* changes that came before the observation began
    wasExact    \* history: the settings were exact at some moment since then

settingsVars == <<settings, lastId, changes, endpoint, responses, early, wasExact>>

Toggles   == {"immutable", "reporting", "pinning", "approvals", "scanning"}
MergeKind == {"merge", "rebase", "squash"}
Names     == {"main", "owner", "tags", "foreign"}
Rules     == {"pull_request", "checks", "linear", "signatures",
              "non_fast_forward", "deletion", "update"}
Ruleset   == [id : Nat, name : Names, target : {"branch", "tag"}, active : BOOLEAN,
              rules : SUBSET Rules, plain : BOOLEAN, merges : SUBSET MergeKind,
              bypass : {"none", "owner by pull request", "other"}]

TargetOf(name) == IF name = "tags" THEN "tag" ELSE "branch"
RulesOf(name) ==
    CASE name = "main"  -> Rules \ {"update"}
      [] name = "owner" -> {"update"}
      [] name = "tags"  -> {"update", "deletion", "non_fast_forward"}
BypassOf(name) == IF name = "owner" THEN "owner by pull request" ELSE "none"
MergesOf(name) == IF name = "main" THEN {"rebase", "squash"} ELSE {}

Documented(name, id) ==
    [id |-> id, name |-> name, target |-> TargetOf(name), active |-> TRUE,
     rules |-> RulesOf(name), plain |-> TRUE, merges |-> MergesOf(name),
     bypass |-> BypassOf(name)]

ExactSettings ==
    [immutable |-> TRUE, reporting |-> TRUE, pinning |-> TRUE, approvals |-> FALSE,
     scanning  |-> TRUE, merges |-> {"rebase", "squash"},
     rulesets  |-> {Documented("main", 1), Documented("owner", 2), Documented("tags", 3)}]

(***************************************************************************)
(* The documented state, whatever the ids: the reference the verdict is    *)
(* held against.                                                           *)
(***************************************************************************)
Active(s) == {r \in s.rulesets : r.active}

Exact(s) ==
    /\ \A f \in Toggles : s[f] = ExactSettings[f]
    /\ s.merges = {"rebase", "squash"}
    /\ {[r EXCEPT !.id = 0] : r \in Active(s)}
          = {Documented(name, 0) : name \in {"main", "owner", "tags"}}
    /\ Cardinality(Active(s)) = 3

(***************************************************************************)
(* The summaries select the three rulesets; every other active one of the  *)
(* branch or the tag namespace refuses.                                    *)
(***************************************************************************)
NoId == 0
ActiveFor(list, target) == {r \in list : r.target = target /\ r.active}

_select_main_ruleset_ids(list) ==
    LET branch == ActiveFor(list, "branch")
        IdOf(name) == (CHOOSE r \in branch : r.name = name).id
    IN  IF /\ {r.name : r \in branch} = {"main", "owner"}
           /\ Cardinality(branch) = 2
        THEN <<IdOf("main"), IdOf("owner")>>
        ELSE <<NoId, NoId>>

_select_release_tag_ruleset_id(list) ==
    LET tag == ActiveFor(list, "tag")
        r   == CHOOSE q \in tag : TRUE
    IN  IF Cardinality(tag) = 1 /\ r.name = "tags" THEN r.id ELSE NoId

\* The record of a ruleset must still be the one the summary named.
IdentityIsExact(r, id, name) ==
    /\ r.id = id /\ r.name = name /\ r.target = TargetOf(name) /\ r.active

_validate_owner_update_ruleset(r, id) ==
    /\ IdentityIsExact(r, id, "owner")
    /\ r.rules = {"update"} /\ r.plain
    /\ r.bypass = "owner by pull request"

_release_tag_ruleset_receipt(r, id) ==
    /\ IdentityIsExact(r, id, "tags")
    /\ r.bypass = "none"
    /\ r.rules = {"update", "deletion", "non_fast_forward"} /\ r.plain

validate_immutable_settings(record)              == record.immutable
validate_private_vulnerability_reporting(record) == record.reporting

(***************************************************************************)
(* build_settings_receipt derives the receipt from the nine responses, and *)
(* validate_settings_receipt accepts one set of values only.               *)
(***************************************************************************)
MainRulesetIsReadable(r, id, merges) ==
    /\ IdentityIsExact(r, id, "main")
    /\ "pull_request" \in r.rules /\ r.merges = merges
    /\ "checks" \in r.rules

\* Mutant of SettingsReceipt: the deletion rule is not looked up.
ReceiptAssumesDeletion(o) ==
    [merges     |-> o["repository"].merges,
     pinning    |-> o["actions"].pinning,
     approvals  |-> o["workflow"].approvals,
     scanning   |-> o["repository"].scanning,
     linear     |-> "linear" \in o["main"].rules,
     signatures |-> "signatures" \in o["main"].rules,
     forced     |-> "non_fast_forward" \notin o["main"].rules,
     deletions  |-> FALSE,
     updates    |-> "update" \in o["main"].rules,
     plain      |-> o["main"].plain,
     bypass     |-> o["main"].bypass]

SettingsReceipt(o) ==
    [merges     |-> o["repository"].merges,
     pinning    |-> o["actions"].pinning,
     approvals  |-> o["workflow"].approvals,
     scanning   |-> o["repository"].scanning,
     linear     |-> "linear" \in o["main"].rules,
     signatures |-> "signatures" \in o["main"].rules,
     forced     |-> "non_fast_forward" \notin o["main"].rules,
     deletions  |-> "deletion" \notin o["main"].rules,
     updates    |-> "update" \in o["main"].rules,
     plain      |-> o["main"].plain,
     bypass     |-> o["main"].bypass]

validate_settings_receipt(receipt) ==
    receipt = [merges |-> {"rebase", "squash"}, pinning |-> TRUE, approvals |-> FALSE,
               scanning |-> TRUE, linear |-> TRUE, signatures |-> TRUE, forced |-> FALSE,
               deletions |-> FALSE, updates |-> FALSE, plain |-> TRUE, bypass |-> "none"]

build_settings_receipt(o) ==
    LET ids == _select_main_ruleset_ids(o["rulesets"]) IN
    /\ validate_immutable_settings(o["immutable"])
    /\ validate_private_vulnerability_reporting(o["reporting"])
    /\ MainRulesetIsReadable(o["main"], ids[1], o["repository"].merges)
    /\ _release_tag_ruleset_receipt(o["tags"], _select_release_tag_ruleset_id(o["rulesets"]))
    /\ _validate_owner_update_ruleset(o["owner"], ids[2])
    /\ validate_settings_receipt(SettingsReceipt(o))

(***************************************************************************)
(* The observation.                                                        *)
(***************************************************************************)
Endpoints == <<"repository", "immutable", "reporting", "actions", "workflow",
               "rulesets", "main", "tags", "owner">>
Nothing   == [e \in {} |-> settings]
NextOf(e) == CHOOSE i \in DOMAIN Endpoints : Endpoints[i] = e

IdSeen(e) ==
    CASE e = "main"  -> _select_main_ruleset_ids(responses["rulesets"])[1]
      [] e = "owner" -> _select_main_ruleset_ids(responses["rulesets"])[2]
      [] e = "tags"  -> _select_release_tag_ruleset_id(responses["rulesets"])

Response(e) ==
    CASE e = "rulesets"                -> {settings.rulesets}
      [] e \in {"main", "tags", "owner"} -> {r \in settings.rulesets : r.id = IdSeen(e)}
      [] e = "repository" -> {[merges |-> settings.merges, scanning |-> settings.scanning]}
      [] e = "immutable"  -> {[immutable |-> settings.immutable]}
      [] e = "reporting"  -> {[reporting |-> settings.reporting]}
      [] e = "actions"    -> {[pinning |-> settings.pinning]}
      [] e = "workflow"   -> {[approvals |-> settings.approvals]}

SettingsInit ==
    /\ settings = ExactSettings
    /\ lastId = 3
    /\ changes = 0
    /\ endpoint = "start"
    /\ responses = Nothing
    /\ early = 0
    /\ wasExact = TRUE

Observer == UNCHANGED <<settings, lastId, changes>>

Start ==
    /\ endpoint = "start"
    /\ endpoint' = Endpoints[1]
    /\ early' = changes
    /\ wasExact' = Exact(settings)
    /\ UNCHANGED responses /\ Observer

\* _github_api_get: any answer but 200 with the expected shape refuses.
Get(e) ==
    /\ endpoint = e
    /\ IF Response(e) = {}
       THEN endpoint' = "refused" /\ UNCHANGED responses
       ELSE \E body \in Response(e) :
              LET o == [x \in DOMAIN responses \cup {e} |->
                          IF x = e THEN body ELSE responses[x]] IN
              /\ responses' = o
              /\ endpoint' =
                   CASE e = "rulesets" /\ NoId \in {_select_main_ruleset_ids(body)[1],
                                                   _select_release_tag_ruleset_id(body)}
                                -> "refused"
                     [] e = "owner" -> IF build_settings_receipt(o) THEN "pass" ELSE "refused"
                     [] OTHER       -> Endpoints[NextOf(e) + 1]
    /\ UNCHANGED <<early, wasExact>> /\ Observer

(***************************************************************************)
(* External: one control changes.                                          *)
(***************************************************************************)
Edits(r) ==
    {[r EXCEPT !.active = ~@], [r EXCEPT !.plain = ~@],
     [r EXCEPT !.bypass = IF @ = "other" THEN BypassOf(r.name) ELSE "other"]}
    \cup {[r EXCEPT !.rules = IF x \in @ THEN @ \ {x} ELSE @ \cup {x}] :
             x \in {"update", "deletion"}}

ChangeTo(s) ==
    /\ changes < MaxChanges /\ endpoint \notin {"pass", "refused"}
    /\ settings' = s
    /\ changes' = changes + 1
    /\ wasExact' = (wasExact \/ Exact(s))
    /\ UNCHANGED <<endpoint, responses, early>>

Toggle(f) == ChangeTo([settings EXCEPT ![f] = ~@]) /\ UNCHANGED lastId

ToggleMerge(kind) ==
    /\ ChangeTo([settings EXCEPT !.merges = IF kind \in @ THEN @ \ {kind} ELSE @ \cup {kind}])
    /\ UNCHANGED lastId

EditRuleset(r) ==
    /\ \E e \in Edits(r) :
          ChangeTo([settings EXCEPT !.rulesets = (@ \ {r}) \cup {e}])
    /\ UNCHANGED lastId

\* Deleted and created again, as the same ruleset or as a second one beside it.
RecreateRuleset(r) ==
    /\ \E kept \in SUBSET {r} :
          ChangeTo([settings EXCEPT !.rulesets =
                      (@ \ {r}) \cup kept \cup {[r EXCEPT !.id = lastId + 1]}])
    /\ lastId' = lastId + 1

SettingsNext ==
    \/ Start
    \/ \E e \in {Endpoints[i] : i \in DOMAIN Endpoints} : Get(e)
    \/ \E f \in Toggles : Toggle(f)
    \/ \E kind \in MergeKind : ToggleMerge(kind)
    \/ \E r \in settings.rulesets : EditRuleset(r) \/ RecreateRuleset(r)

SettingsSpec == SettingsInit /\ [][SettingsNext]_settingsVars

-----------------------------------------------------------------------------
\* Type correctness.
SettingsTypeOK ==
    /\ settings.rulesets \subseteq Ruleset /\ settings.merges \subseteq MergeKind
    /\ \A f \in Toggles : settings[f] \in BOOLEAN
    /\ changes \in 0..MaxChanges /\ early \in 0..changes
    /\ endpoint \in {"start", "pass", "refused"} \cup {Endpoints[i] : i \in DOMAIN Endpoints}
    /\ DOMAIN responses \subseteq {Endpoints[i] : i \in DOMAIN Endpoints}
    /\ \A q, r \in settings.rulesets : q.id = r.id => q = r

\* While the settings rest, the nine responses decide: a receipt is given
\* exactly for the documented state, whatever had been changed before.
VerdictIsExactAtRest ==
    changes = early => /\ endpoint = "pass" => Exact(settings)
                       /\ endpoint = "refused" => ~Exact(settings)

\* One change in the middle cannot forge a receipt: there was a moment of the
\* observation at which all settings were the documented ones.  The summaries
\* and the records of the rulesets are read apart, and the id, the name and the
\* enforcement of the record are what ties them together.
OneChangeCannotForge == endpoint = "pass" /\ changes <= early + 1 => wasExact

\* A receipt is given for a state the settings were in.
ReceiptIsEarned == VerdictIsExactAtRest /\ OneChangeCannotForge

\* observe_live_settings: a receipt is emitted only for exact live state.
ReceiptIsLiveState == endpoint = "pass" => wasExact
===============================================================================

------------------------------ MODULE ReadyCheck ------------------------------
(***************************************************************************)
(* ready_check: may the coordinator mark the pull request ready?  The      *)
(* command reads the repository, the pull request, its distance from the   *)
(* base, the check runs of its head and the comments, one GET after the    *)
(* other, and decides; it never writes.                                    *)
(*                                                                         *)
(* External: GitHub, and the people and programs that change what is read. *)
(* A listing of comments is one answer; so is one of check runs, unless it *)
(* holds more than a page.                                                 *)
(***************************************************************************)
EXTENDS Naturals, FiniteSets

CONSTANTS
    Heads,             \* commits the pull request may be at
    Bodies,            \* texts its body may have
    NoBody,            \* the receipt binds no body
    AppOf,             \* required check -> the app that must have produced it
    PageSize,          \* bound of one listing of check runs
    MaxReadyChanges    \* bound: changes of the pull request and of what belongs to it

ASSUME ReadyAssumption ==
    /\ MaxReadyChanges \in Nat /\ PageSize \in Nat
    /\ NoBody \notin Bodies
    /\ IsFiniteSet(DOMAIN AppOf)

VARIABLES
    genuine,        \* the repository of that name is the one with the known id
    pull,           \* the pull request
    behind,         \* head -> the base has commits it lacks
    runs,           \* head -> its check runs
    comments,       \* the comments
    readyChanges,   \* changes so far
    reader,         \* the next GET, or the verdict
    read,           \* GET -> its answer
    readyEarly,     \* changes that came before the first GET
    wasEligible     \* history: eligible at some moment since then

world     == <<genuine, pull, behind, runs, comments>>
readyVars == <<genuine, pull, behind, runs, comments, readyChanges, reader, read, readyEarly,
               wasEligible>>

UMBRELLA_LABEL         == "agent-authored"
REVIEW_ATTENTION_LABEL == "requires-review"
SECURITY_TIER_LABEL    == "security"
SECURITY_REVIEW_LABEL  == "cybersecurity-review-requested"
TIER_LABELS            == {SECURITY_TIER_LABEL, "docs"}
Labels == TIER_LABELS \cup {UMBRELLA_LABEL, REVIEW_ATTENTION_LABEL, SECURITY_REVIEW_LABEL}

RequiredNames == DOMAIN AppOf
Conclusions   == {"success", "neutral", "failure"}
ACCEPTABLE_CONCLUSIONS == {"success", "neutral"}
RunStates == {"running"} \cup Conclusions
Run     == [name : RequiredNames \cup {"other"}, app : {AppOf[n] : n \in RequiredNames} \cup {"foreign"},
            state : RunStates]
Comment == [app : BOOLEAN, canonical : BOOLEAN, head : Heads,
            verdict : {"APPROVE", "REQUEST-CHANGES"}, binds : Bodies \cup {NoBody}]
Pull    == [open : BOOLEAN, base : {"default", "other"}, head : Heads, labels : SUBSET Labels,
            body : Bodies]

(***************************************************************************)
(* The rule, as the decision applies it to what was read.                  *)
(***************************************************************************)
\* validate_review_receipt.denial: the text shape, bound to one exact head.
denied(c, head) == ~c.canonical \/ c.head # head

receipts(list, head) == {c \in list : c.app /\ ~denied(c, head)}

\* A receipt may bind the body it audited, by its digest.
body_differs(c, body) == c.binds # NoBody /\ c.binds # body

verdicts(list, head, body) ==
    {c.verdict : c \in {r \in receipts(list, head) : ~body_differs(r, body)}}

\* A required check has exactly one run, of its own app, and it succeeded.
RequiredBlockers(checks) ==
    {n \in RequiredNames :
        LET found == {r \in checks : r.name = n} IN
        \/ Cardinality(found) # 1
        \/ \E r \in found : r.app # AppOf[n] \/ r.state # "success"}

UnfinishedBlockers(checks) == {r \in checks : r.state \notin ACCEPTABLE_CONCLUSIONS}

LabelBlockers(labels) ==
    {b \in {"attention", "no tier", "no umbrella", "conflicting tier"} :
        \/ b = "attention" /\ REVIEW_ATTENTION_LABEL \in labels
        \/ b = "no tier" /\ TIER_LABELS \cap labels = {}
        \/ b = "no umbrella" /\ UMBRELLA_LABEL \notin labels
        \/ /\ b = "conflicting tier"
           /\ (SECURITY_TIER_LABEL \in labels) # (SECURITY_REVIEW_LABEL \in labels)}

ready_decision(v) ==
    LET found == receipts(v["comments"], v["pull"].head) IN
    /\ v["pull"].open /\ v["pull"].base = "default"
    /\ \A c \in found : ~body_differs(c, v["pull"].body)
    /\ verdicts(v["comments"], v["pull"].head, v["pull"].body) = {"APPROVE"}
    /\ RequiredBlockers(v["runs"]) = {}
    /\ UnfinishedBlockers(v["runs"]) = {}
    /\ LabelBlockers(v["pull"].labels) = {}
    /\ ~v["compare"]

(***************************************************************************)
(* The reader.                                                             *)
(***************************************************************************)
ReadyVerdicts == {"eligible", "blocked", "refused"}
NoneAnswered  == [g \in {} |-> pull]

Gets == {"repository", "pull", "compare", "runs", "comments"}

\* Mutant of snapshot: the comments are read before the runs.
CommentsFirst == [pull |-> "compare", compare |-> "comments", comments |-> "runs"]

snapshot == [pull |-> "compare", compare |-> "runs", runs |-> "comments"]

\* Mutant of Answer: the checks are those of the head of now.
AnswerOfNow(g) ==
    CASE g = "pull"     -> pull
      [] g = "compare"  -> behind[read["pull"].head]
      [] g = "runs"     -> runs[pull.head]
      [] g = "comments" -> comments

Answer(g) ==
    CASE g = "pull"     -> pull
      [] g = "compare"  -> behind[read["pull"].head]
      [] g = "runs"     -> runs[read["pull"].head]
      [] g = "comments" -> comments

(***************************************************************************)
(* AGENTS.md's rule, of the pull request as it stands: what the verdict is *)
(* held against.                                                           *)
(***************************************************************************)
Standing == {c \in comments : c.app /\ c.canonical /\ c.head = pull.head}

Eligible ==
    /\ genuine /\ pull.open /\ pull.base = "default" /\ ~behind[pull.head]
    /\ Standing # {}
    /\ \A c \in Standing : c.verdict = "APPROVE" /\ c.binds \in {NoBody, pull.body}
    /\ \A n \in RequiredNames : \E r \in runs[pull.head] :
          r.app = AppOf[n] /\ r.state = "success"
             /\ {q \in runs[pull.head] : q.name = n} = {r}
    /\ \A r \in runs[pull.head] : r.state \in {"success", "neutral"}
    /\ Cardinality(runs[pull.head]) <= PageSize
    /\ UMBRELLA_LABEL \in pull.labels /\ REVIEW_ATTENTION_LABEL \notin pull.labels
    /\ {SECURITY_TIER_LABEL, SECURITY_REVIEW_LABEL} \subseteq pull.labels
          \/ ("docs" \in pull.labels
                /\ {SECURITY_TIER_LABEL, SECURITY_REVIEW_LABEL} \cap pull.labels = {})

ReadyBegin ==
    /\ reader = "begin"
    /\ reader' = "repository"
    /\ readyEarly' = readyChanges
    /\ wasEligible' = Eligible
    /\ UNCHANGED <<read, readyChanges>> /\ UNCHANGED world

verify_repository ==
    /\ reader = "repository"
    /\ reader' = IF genuine THEN "pull" ELSE "refused"
    /\ UNCHANGED <<read, readyEarly, wasEligible, readyChanges>> /\ UNCHANGED world

\* A listing of check runs that is longer than its page is not judged.
Truncated(g, answer) == g = "runs" /\ Cardinality(answer) > PageSize

\* The last answer and the decision are one step: nothing is read after it.
ReadyGet(g) ==
    /\ reader = g
    /\ LET answer == Answer(g)
           v      == [x \in DOMAIN read \cup {g} |-> IF x = g THEN answer ELSE read[x]]
       IN  /\ reader' = IF Truncated(g, answer) THEN "refused"
                        ELSE IF g \in DOMAIN snapshot THEN snapshot[g]
                        ELSE IF ready_decision(v) THEN "eligible" ELSE "blocked"
           /\ read' = IF reader' \in ReadyVerdicts THEN NoneAnswered ELSE v
    /\ UNCHANGED <<readyEarly, wasEligible, readyChanges>> /\ UNCHANGED world

(***************************************************************************)
(* External: one thing changes.                                            *)
(***************************************************************************)
Approval(h)    == [app |-> TRUE, canonical |-> TRUE, head |-> h, verdict |-> "APPROVE",
                   binds |-> NoBody]
GreenRuns      == {[name |-> n, app |-> AppOf[n], state |-> "success"] : n \in RequiredNames}
Running(green) == {[r EXCEPT !.state = "running"] : r \in green}

ReadyInit ==
    /\ genuine = TRUE
    /\ \E h \in Heads, body \in Bodies :
          pull = [open |-> TRUE, base |-> "default", head |-> h, body |-> body,
                  labels |-> {UMBRELLA_LABEL, "docs"}]
    /\ behind \in [Heads -> BOOLEAN]
    /\ \E green \in SUBSET Heads :
          runs = [h \in Heads |-> IF h \in green THEN GreenRuns ELSE Running(GreenRuns)]
    /\ \E approved \in SUBSET Heads : comments = {Approval(h) : h \in approved}
    /\ readyChanges = 0 /\ readyEarly = 0
    /\ reader = "begin" /\ read = NoneAnswered /\ wasEligible = FALSE

Changed ==
    /\ readyChanges < MaxReadyChanges /\ reader \notin ReadyVerdicts
    /\ readyChanges' = readyChanges + 1
    /\ wasEligible' = (wasEligible \/ (reader # "begin" /\ Eligible'))
    /\ UNCHANGED <<reader, read, readyEarly>>

PullChanges ==
    /\ \/ \E h \in Heads \ {pull.head} : pull' = [pull EXCEPT !.head = h]
       \/ \E body \in Bodies \ {pull.body} : pull' = [pull EXCEPT !.body = body]
       \/ pull' = [pull EXCEPT !.open = ~@]
       \/ pull' = [pull EXCEPT !.base = IF @ = "default" THEN "other" ELSE "default"]
       \/ \E l \in Labels :
             pull' = [pull EXCEPT !.labels = IF l \in @ THEN @ \ {l} ELSE @ \cup {l}]
    /\ UNCHANGED <<genuine, behind, runs, comments>>
    /\ Changed

MainAdvances ==
    /\ behind' = [h \in Heads |-> TRUE] /\ behind' # behind
    /\ UNCHANGED <<genuine, pull, runs, comments>>
    /\ Changed

\* A run reports or starts again, or one more is written under a name.
RunChanges(h) ==
    /\ \/ \E r \in runs[h], state \in RunStates :
             /\ state # r.state
             /\ runs' = [runs EXCEPT ![h] = (@ \ {r}) \cup {[r EXCEPT !.state = state]}]
       \/ \E name \in RequiredNames \cup {"other"}, state \in {"success", "running"} :
             /\ runs' = [runs EXCEPT ![h] = @ \cup
                                {[name |-> name, app |-> "foreign", state |-> state]}]
             /\ runs' # runs
    /\ UNCHANGED <<genuine, pull, behind, comments>>
    /\ Changed

\* A receipt of the App, or a look-alike of another author or another shape.
Posts ==
    {c \in Comment : c.app /\ c.canonical}
    \cup UNION {{[Approval(h) EXCEPT !.app = FALSE], [Approval(h) EXCEPT !.canonical = FALSE]} :
                   h \in Heads}

CommentChanges ==
    /\ \/ \E c \in Posts : comments' = comments \cup {c} /\ c \notin comments
       \/ \E c \in comments : comments' = comments \ {c}
    /\ UNCHANGED <<genuine, pull, behind, runs>>
    /\ Changed

NameIsTaken ==
    /\ genuine' = ~genuine
    /\ UNCHANGED <<pull, behind, runs, comments>>
    /\ Changed

ReadyNext ==
    \/ ReadyBegin
    \/ verify_repository
    \/ \E g \in Gets \ {"repository"} : ReadyGet(g)
    \/ PullChanges
    \/ MainAdvances
    \/ \E h \in Heads : RunChanges(h)
    \/ CommentChanges
    \/ NameIsTaken

ReadySpec == ReadyInit /\ [][ReadyNext]_readyVars

-----------------------------------------------------------------------------
\* Type correctness.
ReadyTypeOK ==
    /\ genuine \in BOOLEAN /\ pull \in Pull /\ behind \in [Heads -> BOOLEAN]
    /\ \A h \in Heads : runs[h] \subseteq Run
    /\ comments \subseteq Comment
    /\ readyChanges \in 0..MaxReadyChanges /\ readyEarly \in 0..readyChanges
    /\ reader \in {"begin"} \cup Gets \cup ReadyVerdicts
    /\ DOMAIN read \subseteq Gets /\ wasEligible \in BOOLEAN

\* While nothing changes the command says ELIGIBLE of exactly the pull requests
\* the rule allows.
ReadyIsExactAtRest ==
    readyChanges = readyEarly => /\ reader = "eligible" => Eligible
                                 /\ reader \in {"blocked", "refused"} => ~Eligible

\* One change among the reads cannot make a pull request eligible that was so
\* at no moment: a push leaves the old head's runs and receipts to be judged,
\* never a mixture.
OneChangeCannotEnable ==
    reader = "eligible" /\ readyChanges <= readyEarly + 1 => wasEligible

\* ELIGIBLE is said of a state the pull request was in.
EligibleIsEarned == ReadyIsExactAtRest /\ OneChangeCannotEnable

\* An objection is never overtaken: however much has changed since the reads
\* began, no REQUEST-CHANGES stands at the judged head when ELIGIBLE is said.
NoStandingObjection ==
    [][reader' = "eligible" /\ reader # "eligible" =>
          \A c \in receipts(comments, read["pull"].head) : c.verdict = "APPROVE"]_readyVars

\* The docstring: what the verdict proves is exactly that the pull request is
\* open, not behind, approved and green, all at once.
VerdictIsOneMoment == reader = "eligible" => wasEligible
===============================================================================
